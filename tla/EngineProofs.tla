------------------------------ MODULE EngineProofs ------------------------------
(* What the engine's parts promise, for any requests, tasks, caps and times: the   *)
(* cache of a tile's numbers (TileCache), the places of a person's exports          *)
(* (ExportSlots), the loss of a worker (LostTasks) and the slots of previews         *)
(* (PreviewSlots), each proved of the instance MCEngine has of it and then of the    *)
(* behaviours of MCEngine.                                                           *)
EXTENDS MCEngine, FiniteSetTheorems, TLAPS

(* The initial state satisfies the invariant.                                    *)
LEMMA Initially == ASSUME ConstantsOK, Init PROVE IInv
<1>0. 0 \in G /\ 0 \in Versions /\ 0 \in 0..Losses /\ G \subseteq Nat
  BY DEF ConstantsOK, G, Versions
<1>1. TypeOK BY <1>0 DEF Init, TypeOK
<1>2. Ordered BY <1>0 DEF Init, Ordered
<1>3. Recent BY <1>0 DEF Init, Recent, OwnRows, FileRecent, Rows, Readers, Writer
<1>4. FreshAfterRefresh BY DEF Init, FreshAfterRefresh, ConstantsOK, Versions
<1>5. Exclusive BY DEF Init, Exclusive
<1>6. Counted BY DEF Init, Counted
<1> QED BY <1>1, <1>2, <1>3, <1>4, <1>5, <1>6 DEF IInv

(* What is compared are numbers.                                                *)
LEMMA Numbers == ASSUME ConstantsOK, TypeOK
  PROVE /\ G \subseteq Nat /\ Versions \subseteq Nat /\ 0 \in G
        /\ src \in Nat /\ gen \in Nat /\ named \in Nat /\ \A g \in G : floor[g] \in Nat
        /\ \A r \in Requests : hash[r] \in Nat /\ ver[r] \in Nat /\ data[r] \in Nat
<1>1. G \subseteq Nat /\ Versions \subseteq Nat /\ 0 \in G BY DEF ConstantsOK, G, Versions
<1> QED BY <1>1 DEF TypeOK

(* A refresh names one of the generations.                                      *)
LEMMA NextGen ==
  ASSUME ConstantsOK, TypeOK, NEW r \in Requests, Refresh(r) \/ RefreshUnwritten(r) PROVE named + 1 \in G
<1>1. named \in 0..Gens /\ Gens \in Nat BY DEF ConstantsOK, TypeOK, G
<1>2. named < Gens BY DEF Refresh, RefreshUnwritten
<1> QED BY <1>1, <1>2 DEF G

(* What is lost is counted up to Losses.                                        *)
LEMMA LoseType == ASSUME ConstantsOK, TypeOK, Lose PROVE lost' \in 0..Losses
<1>1. lost \in 0..Losses /\ Losses \in Nat BY DEF ConstantsOK, TypeOK
<1> QED BY <1>1 DEF Lose

(* And by generation.                                                           *)
LEMMA SpareType == ASSUME TypeOK, NEW g \in G, Spare(g) PROVE spare' \in [G -> Nat]
BY DEF TypeOK, Spare

(* Who works a tile out without an answer.                                      *)
LEMMA AnywayType ==
  ASSUME ConstantsOK, TypeOK, NEW r \in Requests, NEW g \in G, WorkAnyway(r, g),
         named' \in G, floor' \in [G -> Versions], hash' \in [Requests -> G]
  PROVE  TypeOK'
<1>1. lost' \in 0..Losses /\ spare' \in [G -> Nat]
  BY LoseType, SpareType DEF WorkAnyway
<1>2. works' \in [G -> Nat]
  BY DEF WorkAnyway, TypeOK
<1>3. /\ api' = [api EXCEPT ![r] = "waits"] /\ wrk' = [wrk EXCEPT ![r] = "version"]
      /\ UNCHANGED <<src, gen, value, entry, file, strayed, vlock, rlock, ver, data>>
  BY DEF WorkAnyway, keys, locks, ToApi, ToWrk
<1> QED BY <1>1, <1>2, <1>3 DEF TypeOK

(* And who keeps what was worked out.                                           *)
LEMMA KeepTypes ==
  ASSUME ConstantsOK, TypeOK, NEW r \in Requests, NEW v \in Versions \union {Failed}, Keep(r, v) PROVE TypeOK'
<1> USE DEF TypeOK, shared, asks, tasks, ToApi
<1>1. hash[r] \in G OBVIOUS
<1>2. lost' \in 0..Losses
  BY LoseType DEF Keep, GiveBack
<1>3. spare' \in [G -> Nat]
  BY <1>1, SpareType DEF Keep
<1>4. value' \in [G -> Versions \union {Failed, None}]
  BY DEF Keep
<1>5. vlock' \in [G -> Requests \union {None}]
  BY DEF Keep, GiveBack, Unlock
<1>6. api' \in [Requests -> {"new", "look", "take", "locked", "waits", "answered", "dead"}]
  BY DEF Keep
<1> QED BY <1>2, <1>3, <1>4, <1>5, <1>6 DEF Keep

(* Every step keeps the types.                                                  *)
LEMMA TypesKept == ASSUME ConstantsOK, TypeOK, [Next]_vars PROVE TypeOK'
<1> USE LoseType, SpareType DEF TypeOK, shared, keys, locks, asks, tasks, counts, ToApi, ToWrk
<1>1. CASE UNCHANGED vars
  BY <1>1 DEF vars
<1>2. CASE SourceChanges
  <2>1. src' \in Versions BY <1>2 DEF SourceChanges, Versions, ConstantsOK
  <2> QED BY <1>2, <2>1 DEF SourceChanges
<1>3. CASE EntryExpires
  BY <1>3 DEF EntryExpires
<1>4. CASE FileSwept
  BY <1>4 DEF FileSwept
<1>5. ASSUME NEW g \in G, ValueExpires(g) PROVE TypeOK'
  BY <1>5 DEF ValueExpires, Spare
<1>6. ASSUME NEW r \in Requests, Ask(r) PROVE TypeOK'
  BY <1>6 DEF Ask
<1>7. ASSUME NEW r \in Requests, Refresh(r) PROVE TypeOK'
  BY <1>7, NextGen DEF Refresh
<1>8. ASSUME NEW r \in Requests, Look(r) PROVE TypeOK'
  BY <1>8, SMTT(30) DEF Look
<1>9. ASSUME NEW r \in Requests, Take(r) PROVE TypeOK'
  BY <1>9, SMTT(30) DEF Take
<1>10. ASSUME NEW r \in Requests, Recheck(r) PROVE TypeOK'
  BY <1>10, SMTT(30) DEF Recheck, GiveBack, Unlock
<1>11. ASSUME NEW r \in Requests, Unanswered(r) PROVE TypeOK'
  BY <1>11, AnywayType DEF Unanswered
<1>12. ASSUME NEW r \in Requests, AskUnanswered(r) PROVE TypeOK'
  BY <1>12, Numbers, AnywayType DEF AskUnanswered
<1>13. ASSUME NEW r \in Requests, RefreshUnwritten(r) PROVE TypeOK'
  BY <1>13, NextGen, AnywayType DEF RefreshUnwritten
<1>14. ASSUME NEW r \in Requests, RecheckUnanswered(r) PROVE TypeOK'
  BY <1>14, AnywayType DEF RecheckUnanswered
<1>15. ASSUME NEW r \in Requests, KeepValue(r) PROVE TypeOK'
  BY <1>15, KeepTypes DEF KeepValue
<1>16. ASSUME NEW r \in Requests, KeepFailure(r) PROVE TypeOK'
  BY <1>16, KeepTypes DEF KeepFailure
<1>17. ASSUME NEW r \in Requests, Version(r) PROVE TypeOK'
  BY <1>17 DEF Version
<1>18. ASSUME NEW r \in Requests, LookForRows(r) PROVE TypeOK'
  BY <1>18 DEF LookForRows, After, Kept
<1>19. ASSUME NEW r \in Requests, FromFile(r) PROVE TypeOK'
  BY <1>19 DEF FromFile, GiveBackRows, UnlockRows
<1>20. ASSUME NEW r \in Requests, TakeRows(r) PROVE TypeOK'
  BY <1>20 DEF TakeRows
<1>21. ASSUME NEW r \in Requests, RecheckRows(r) PROVE TypeOK'
  BY <1>21 DEF RecheckRows, After, Kept, GiveBackRows, UnlockRows
<1>22. ASSUME NEW r \in Requests, RowsUnanswered(r) PROVE TypeOK'
  BY <1>22, Numbers DEF RowsUnanswered
<1>23. ASSUME NEW r \in Requests, Read(r) PROVE TypeOK'
  BY <1>23 DEF Read, UnlockRows, Generation
<1>24. ASSUME NEW r \in Requests, Upload(r) PROVE TypeOK'
  <2>1. strayed' \in BOOLEAN
    BY <1>24 DEF Upload, Stray
  <2>2. rlock' \in Requests \union {None} /\ lost' \in 0..Losses
    BY <1>24 DEF Upload, UnlockRows
  <2>3. wrk' \in {[wrk EXCEPT ![r] = "remember"], [wrk EXCEPT ![r] = "ended"]} /\ file' \in {file, data[r]}
    BY <1>24 DEF Upload
  <2> QED BY <1>24, <2>1, <2>2, <2>3 DEF Upload
<1>25. ASSUME NEW r \in Requests, Remember(r) PROVE TypeOK'
  <2>1. strayed' \in BOOLEAN
    BY <1>25 DEF Remember, Stray
  <2>2. rlock' \in Requests \union {None} /\ lost' \in 0..Losses
    BY <1>25 DEF Remember, GiveBackRows, UnlockRows
  <2>3. entry' \in [gen : G, says : {"rows", "error"}] \union {None}
    BY <1>25 DEF Remember, Generation
  <2> QED BY <1>25, <2>1, <2>2, <2>3 DEF Remember
<1>26. ASSUME NEW r \in Requests, ApiDies(r) PROVE TypeOK'
  <2>1. hash[r] \in G OBVIOUS
  <2> QED BY <1>26, <2>1 DEF ApiDies
<1>27. ASSUME NEW r \in Requests, WorkerDies(r) PROVE TypeOK'
  BY <1>27 DEF WorkerDies
<1>28. ASSUME NEW r \in Requests, LockEnds(r) PROVE TypeOK'
  <2>1. hash[r] \in G OBVIOUS
  <2> QED BY <1>28, <2>1 DEF LockEnds, Unlock
<1>29. ASSUME NEW r \in Requests, RowsLockEnds(r) PROVE TypeOK'
  BY <1>29 DEF RowsLockEnds
<1> QED BY <1>1, <1>2, <1>3, <1>4, <1>5, <1>6, <1>7, <1>8, <1>9, <1>10, <1>11, <1>12, <1>13, <1>14,
           <1>15, <1>16, <1>17, <1>18, <1>19, <1>20, <1>21, <1>22, <1>23, <1>24, <1>25, <1>26, <1>27,
           <1>28, <1>29 DEF Next

(* A generation just named promises no less than those before, and not more than   *)
(* the source has.                                                              *)
LEMMA NamedNext ==
  ASSUME ConstantsOK, TypeOK, Ordered, NEW r \in Requests, NEW v \in Versions,
         named + 1 \in G, named' = named + 1, floor' = [floor EXCEPT ![named + 1] = v],
         v <= src, v >= floor[gen], gen' \in G, (gen' = gen /\ v = floor[gen]) \/ gen' = named + 1,
         hash' = [hash EXCEPT ![r] = named + 1], api[r] = "new",
         \A q \in Requests : q # r => api'[q] = api[q] /\ wrk'[q] = wrk[q],
         api'[r] # "new", wrk'[r] \in {"none", "version"},
         UNCHANGED <<src, value, entry, ver>>
  PROVE  Ordered'
<1> USE Numbers DEF TypeOK, Ordered
<1>1. \A g \in G : floor'[g] = IF g = named + 1 THEN v ELSE floor[g]
  OBVIOUS
<1>2. gen # named + 1 /\ \A q \in Requests : ver[q] # named + 1 /\ hash[q] # named + 1
  OBVIOUS
<1>3. floor'[gen'] = v
  BY <1>1, <1>2
<1>4. ASSUME NEW g \in G
      PROVE  /\ floor'[g] <= src
             /\ IF g <= named + 1 THEN floor'[g] <= v ELSE value[g] = None
  <2>1. CASE g = named + 1 BY <1>1, <2>1
  <2>2. CASE g # named + 1
    <3>1. floor'[g] = floor[g] /\ g \in Nat BY <1>1, <2>2
    <3>2. CASE g <= named
      <4>1. floor[g] <= floor[gen] BY <3>2
      <4> QED BY <3>1, <3>2, <4>1
    <3>3. CASE g > named
      <4>1. g > named + 1 BY <2>2, <3>1, <3>3
      <4> QED BY <3>1, <3>3, <4>1
    <3> QED BY <3>1, <3>2, <3>3
  <2> QED BY <2>1, <2>2
<1>5. ASSUME NEW q \in Requests
      PROVE  /\ hash'[q] <= named + 1 /\ ver[q] <= named + 1
             /\ wrk'[q] \in {"look", "take", "recheck", "file", "again"} => floor'[hash'[q]] <= floor'[ver[q]]
             /\ api'[q] = "new" => wrk'[q] = "none"
  <2>1. CASE q = r BY <2>1
  <2>2. CASE q # r
    <3>1. hash'[q] = hash[q] /\ api'[q] = api[q] /\ wrk'[q] = wrk[q] BY <2>2
    <3>2. floor'[hash[q]] = floor[hash[q]] /\ floor'[ver[q]] = floor[ver[q]] BY <1>1, <1>2
    <3> QED BY <3>1, <3>2
  <2> QED BY <2>1, <2>2
<1>6. gen' <= named' /\ (entry # None => entry.gen <= named + 1)
  OBVIOUS
<1> QED BY <1>3, <1>4, <1>5, <1>6

(* Every step keeps the generations' order.                                     *)
LEMMA OrderKept ==
  ASSUME ConstantsOK, TypeOK, Ordered, [Next]_vars PROVE Ordered'
<1> USE Numbers DEF TypeOK, Ordered, shared, keys, locks, asks, tasks, counts, ToApi, ToWrk
<1>1. CASE UNCHANGED vars
  BY <1>1 DEF vars
<1>2. CASE SourceChanges
  BY <1>2 DEF SourceChanges
<1>3. CASE EntryExpires
  BY <1>3 DEF EntryExpires
<1>4. CASE FileSwept
  BY <1>4 DEF FileSwept
<1>5. ASSUME NEW g \in G, ValueExpires(g) PROVE Ordered'
  BY <1>5 DEF ValueExpires, Spare
<1>6. ASSUME NEW r \in Requests, Ask(r) PROVE Ordered'
  BY <1>6 DEF Ask
<1>7. ASSUME NEW r \in Requests, Refresh(r) PROVE Ordered'
  <2>1. floor[gen] <= src /\ src \in Versions /\ named + 1 \in G
    BY <1>7, NextGen
  <2> QED BY <1>7, <2>1, NamedNext DEF Refresh
<1>8. ASSUME NEW r \in Requests, Look(r) PROVE Ordered'
  BY <1>8 DEF Look
<1>9. ASSUME NEW r \in Requests, Take(r) PROVE Ordered'
  BY <1>9 DEF Take
<1>10. ASSUME NEW r \in Requests, Recheck(r) PROVE Ordered'
  BY <1>10 DEF Recheck, GiveBack, Unlock
<1>11. ASSUME NEW r \in Requests, Unanswered(r) PROVE Ordered'
  BY <1>11 DEF Unanswered, WorkAnyway
<1>12. ASSUME NEW r \in Requests, AskUnanswered(r) PROVE Ordered'
  BY <1>12 DEF AskUnanswered, WorkAnyway
<1>13. ASSUME NEW r \in Requests, RefreshUnwritten(r) PROVE Ordered'
  <2>1. floor[gen] <= src /\ floor[gen] \in Versions /\ named + 1 \in G
    BY <1>13, NextGen
  <2>2. /\ named' = named + 1 /\ floor' = [floor EXCEPT ![named + 1] = floor[gen]] /\ api[r] = "new"
        /\ hash' = [hash EXCEPT ![r] = named + 1] /\ UNCHANGED <<src, gen, value, entry, ver>>
        /\ api' = [api EXCEPT ![r] = "waits"] /\ wrk' = [wrk EXCEPT ![r] = "version"]
    BY <1>13 DEF RefreshUnwritten, WorkAnyway
  <2>3. /\ floor[gen] >= floor[gen] /\ gen' \in G
        /\ api'[r] # "new" /\ wrk'[r] \in {"none", "version"}
        /\ \A q \in Requests : q # r => api'[q] = api[q] /\ wrk'[q] = wrk[q]
    BY <2>2
  <2> HIDE DEF TypeOK, Ordered
  <2> QED BY <2>1, <2>2, <2>3, NamedNext
<1>14. ASSUME NEW r \in Requests, RecheckUnanswered(r) PROVE Ordered'
  BY <1>14 DEF RecheckUnanswered, WorkAnyway
<1>15. ASSUME NEW r \in Requests, KeepValue(r) PROVE Ordered'
  BY <1>15 DEF KeepValue, Keep, GiveBack, Unlock
<1>16. ASSUME NEW r \in Requests, KeepFailure(r) PROVE Ordered'
  BY <1>16 DEF KeepFailure, Keep, GiveBack, Unlock
<1>17. ASSUME NEW r \in Requests, Version(r) PROVE Ordered'
  BY <1>17 DEF Version
<1>18. ASSUME NEW r \in Requests, LookForRows(r) PROVE Ordered'
  BY <1>18 DEF LookForRows, After, Kept
<1>19. ASSUME NEW r \in Requests, FromFile(r) PROVE Ordered'
  BY <1>19 DEF FromFile, GiveBackRows, UnlockRows
<1>20. ASSUME NEW r \in Requests, TakeRows(r) PROVE Ordered'
  BY <1>20, SMTT(30) DEF TakeRows
<1>21. ASSUME NEW r \in Requests, RecheckRows(r) PROVE Ordered'
  BY <1>21 DEF RecheckRows, After, Kept, GiveBackRows, UnlockRows
<1>22. ASSUME NEW r \in Requests, RowsUnanswered(r) PROVE Ordered'
  BY <1>22 DEF RowsUnanswered
<1>23. ASSUME NEW r \in Requests, Read(r) PROVE Ordered'
  <2>1. UNCHANGED <<src, gen, named, floor, value, api, hash, ver>>
    BY <1>23 DEF Read
  <2>2. wrk' = [wrk EXCEPT ![r] = "upload"] \/ wrk' = [wrk EXCEPT ![r] = "failed"]
    BY <1>23 DEF Read
  <2>3. entry' # None => entry'.gen <= named
    BY <1>23 DEF Read, Generation
  <2>4. \A q \in Requests : q # r => wrk'[q] = wrk[q]
    BY <2>2
  <2>5. wrk'[r] \in {"upload", "failed"} /\ api[r] # "new"
    BY <1>23, <2>2 DEF Read
  <2> QED BY <2>1, <2>3, <2>4, <2>5
<1>24. ASSUME NEW r \in Requests, Upload(r) PROVE Ordered'
  BY <1>24 DEF Upload, UnlockRows, Stray
<1>25. ASSUME NEW r \in Requests, Remember(r) PROVE Ordered'
  <2>1. UNCHANGED <<src, gen, named, floor, value, api, hash, ver>> /\ wrk' = [wrk EXCEPT ![r] = "ended"]
    BY <1>25 DEF Remember
  <2>2. entry' # None => entry'.gen <= named
    BY <1>25 DEF Remember, Generation
  <2>3. \A q \in Requests : wrk'[q] = IF q = r THEN "ended" ELSE wrk[q]
    BY <2>1
  <2>4. api[r] # "new"
    BY <1>25 DEF Remember
  <2> QED BY <2>1, <2>2, <2>3, <2>4
<1>26. ASSUME NEW r \in Requests, ApiDies(r) PROVE Ordered'
  BY <1>26 DEF ApiDies
<1>27. ASSUME NEW r \in Requests, WorkerDies(r) PROVE Ordered'
  BY <1>27 DEF WorkerDies
<1>28. ASSUME NEW r \in Requests, LockEnds(r) PROVE Ordered'
  BY <1>28 DEF LockEnds, Unlock
<1>29. ASSUME NEW r \in Requests, RowsLockEnds(r) PROVE Ordered'
  BY <1>29 DEF RowsLockEnds
<1> QED BY <1>1, <1>2, <1>3, <1>4, <1>5, <1>6, <1>7, <1>8, <1>9, <1>10, <1>11, <1>12, <1>13, <1>14,
           <1>15, <1>16, <1>17, <1>18, <1>19, <1>20, <1>21, <1>22, <1>23, <1>24, <1>25, <1>26, <1>27,
           <1>28, <1>29 DEF Next

(* Who may work a tile out keeps its lock.                                      *)
LEMMA ExclusiveKept ==
  ASSUME ConstantsOK, TypeOK, Exclusive, [Next]_vars PROVE Exclusive'
<1> USE DEF TypeOK, Exclusive, Holds, ConstantsOK, shared, keys, locks, asks, tasks, counts, ToApi, ToWrk
<1>1. CASE UNCHANGED vars
  BY <1>1 DEF vars
<1>2. CASE SourceChanges
  BY <1>2 DEF SourceChanges
<1>3. CASE EntryExpires
  BY <1>3 DEF EntryExpires
<1>4. CASE FileSwept
  BY <1>4 DEF FileSwept
<1>5. ASSUME NEW g \in G, ValueExpires(g) PROVE Exclusive'
  BY <1>5 DEF ValueExpires, Spare
<1>6. ASSUME NEW r \in Requests, Ask(r) PROVE Exclusive'
  BY <1>6 DEF Ask
<1>7. ASSUME NEW r \in Requests, Refresh(r) PROVE Exclusive'
  BY <1>7 DEF Refresh
<1>8. ASSUME NEW r \in Requests, Look(r) PROVE Exclusive'
  BY <1>8 DEF Look
<1>9. ASSUME NEW r \in Requests, Take(r) PROVE Exclusive'
  BY <1>9 DEF Take
<1>10. ASSUME NEW r \in Requests, Recheck(r) PROVE Exclusive'
  BY <1>10 DEF Recheck, GiveBack, Unlock
<1>11. ASSUME NEW r \in Requests, Unanswered(r) PROVE Exclusive'
  BY <1>11 DEF Unanswered, WorkAnyway
<1>12. ASSUME NEW r \in Requests, AskUnanswered(r) PROVE Exclusive'
  BY <1>12 DEF AskUnanswered, WorkAnyway
<1>13. ASSUME NEW r \in Requests, RefreshUnwritten(r) PROVE Exclusive'
  BY <1>13 DEF RefreshUnwritten, WorkAnyway
<1>14. ASSUME NEW r \in Requests, RecheckUnanswered(r) PROVE Exclusive'
  BY <1>14 DEF RecheckUnanswered, WorkAnyway
<1>15. ASSUME NEW r \in Requests, KeepValue(r) PROVE Exclusive'
  BY <1>15 DEF KeepValue, Keep, GiveBack, Unlock
<1>16. ASSUME NEW r \in Requests, KeepFailure(r) PROVE Exclusive'
  BY <1>16 DEF KeepFailure, Keep, GiveBack, Unlock
<1>17. ASSUME NEW r \in Requests, Version(r) PROVE Exclusive'
  BY <1>17 DEF Version
<1>18. ASSUME NEW r \in Requests, LookForRows(r) PROVE Exclusive'
  BY <1>18 DEF LookForRows, After, Kept
<1>19. ASSUME NEW r \in Requests, FromFile(r) PROVE Exclusive'
  BY <1>19 DEF FromFile, GiveBackRows, UnlockRows
<1>20. ASSUME NEW r \in Requests, TakeRows(r) PROVE Exclusive'
  BY <1>20 DEF TakeRows
<1>21. ASSUME NEW r \in Requests, RecheckRows(r) PROVE Exclusive'
  BY <1>21 DEF RecheckRows, After, Kept, GiveBackRows, UnlockRows
<1>22. ASSUME NEW r \in Requests, RowsUnanswered(r) PROVE Exclusive'
  BY <1>22 DEF RowsUnanswered
<1>23. ASSUME NEW r \in Requests, Read(r) PROVE Exclusive'
  BY <1>23 DEF Read, UnlockRows, Generation
<1>24. ASSUME NEW r \in Requests, Upload(r) PROVE Exclusive'
  BY <1>24 DEF Upload, UnlockRows, Stray
<1>25. ASSUME NEW r \in Requests, Remember(r) PROVE Exclusive'
  BY <1>25 DEF Remember, GiveBackRows, UnlockRows, Stray, Generation
<1>26. ASSUME NEW r \in Requests, ApiDies(r) PROVE Exclusive'
  BY <1>26 DEF ApiDies
<1>27. ASSUME NEW r \in Requests, WorkerDies(r) PROVE Exclusive'
  BY <1>27 DEF WorkerDies
<1>28. ASSUME NEW r \in Requests, LockEnds(r) PROVE Exclusive'
  BY <1>28 DEF LockEnds, Unlock
<1>29. ASSUME NEW r \in Requests, RowsLockEnds(r) PROVE Exclusive'
  BY <1>29 DEF RowsLockEnds
<1> QED BY <1>1, <1>2, <1>3, <1>4, <1>5, <1>6, <1>7, <1>8, <1>9, <1>10, <1>11, <1>12, <1>13, <1>14,
           <1>15, <1>16, <1>17, <1>18, <1>19, <1>20, <1>21, <1>22, <1>23, <1>24, <1>25, <1>26, <1>27,
           <1>28, <1>29 DEF Next

(* What a worker read from the source is as recent as its generations ask.      *)
LEMMA OwnRowsKept ==
  ASSUME ConstantsOK, TypeOK, Ordered, OwnRows, [Next]_vars PROVE OwnRows'
<1> USE Numbers DEF TypeOK, Ordered, OwnRows, shared, keys, locks, asks, tasks, counts, ToApi, ToWrk
<1>1. CASE UNCHANGED vars
  BY <1>1 DEF vars
<1>2. CASE SourceChanges
  BY <1>2 DEF SourceChanges
<1>3. CASE EntryExpires
  BY <1>3 DEF EntryExpires
<1>4. CASE FileSwept
  BY <1>4 DEF FileSwept
<1>5. ASSUME NEW g \in G, ValueExpires(g) PROVE OwnRows'
  BY <1>5 DEF ValueExpires, Spare
<1>6. ASSUME NEW r \in Requests, Ask(r) PROVE OwnRows'
  BY <1>6 DEF Ask
<1>7. ASSUME NEW r \in Requests, Refresh(r) PROVE OwnRows'
  BY <1>7, NextGen DEF Refresh
<1>8. ASSUME NEW r \in Requests, Look(r) PROVE OwnRows'
  BY <1>8 DEF Look
<1>9. ASSUME NEW r \in Requests, Take(r) PROVE OwnRows'
  BY <1>9 DEF Take
<1>10. ASSUME NEW r \in Requests, Recheck(r) PROVE OwnRows'
  BY <1>10 DEF Recheck, GiveBack, Unlock
<1>11. ASSUME NEW r \in Requests, Unanswered(r) PROVE OwnRows'
  BY <1>11 DEF Unanswered, WorkAnyway
<1>12. ASSUME NEW r \in Requests, AskUnanswered(r) PROVE OwnRows'
  BY <1>12 DEF AskUnanswered, WorkAnyway
<1>13. ASSUME NEW r \in Requests, RefreshUnwritten(r) PROVE OwnRows'
  BY <1>13, NextGen DEF RefreshUnwritten, WorkAnyway
<1>14. ASSUME NEW r \in Requests, RecheckUnanswered(r) PROVE OwnRows'
  BY <1>14 DEF RecheckUnanswered, WorkAnyway
<1>15. ASSUME NEW r \in Requests, KeepValue(r) PROVE OwnRows'
  BY <1>15 DEF KeepValue, Keep, GiveBack, Unlock
<1>16. ASSUME NEW r \in Requests, KeepFailure(r) PROVE OwnRows'
  BY <1>16 DEF KeepFailure, Keep, GiveBack, Unlock
<1>17. ASSUME NEW r \in Requests, Version(r) PROVE OwnRows'
  BY <1>17 DEF Version
<1>18. ASSUME NEW r \in Requests, LookForRows(r) PROVE OwnRows'
  BY <1>18 DEF LookForRows, After, Kept
<1>19. ASSUME NEW r \in Requests, FromFile(r) PROVE OwnRows'
  BY <1>19 DEF FromFile, GiveBackRows, UnlockRows
<1>20. ASSUME NEW r \in Requests, TakeRows(r) PROVE OwnRows'
  BY <1>20 DEF TakeRows
<1>21. ASSUME NEW r \in Requests, RecheckRows(r) PROVE OwnRows'
  BY <1>21 DEF RecheckRows, After, Kept, GiveBackRows, UnlockRows
<1>22. ASSUME NEW r \in Requests, RowsUnanswered(r) PROVE OwnRows'
  BY <1>22 DEF RowsUnanswered
<1>23. ASSUME NEW r \in Requests, Read(r) PROVE OwnRows'
  <2>1. CASE wrk' = [wrk EXCEPT ![r] = "failed"] /\ UNCHANGED <<floor, data, hash, ver>>
    BY <2>1
  <2>2. CASE wrk' = [wrk EXCEPT ![r] = "upload"] /\ data' = [data EXCEPT ![r] = src] /\ UNCHANGED <<floor, hash, ver>>
    <3>1. floor[ver[r]] <= src /\ floor[hash[r]] <= src
      OBVIOUS
    <3> QED BY <2>2, <3>1
  <2> QED BY <1>23, <2>1, <2>2 DEF Read
<1>24. ASSUME NEW r \in Requests, Upload(r) PROVE OwnRows'
  BY <1>24 DEF Upload, UnlockRows, Stray
<1>25. ASSUME NEW r \in Requests, Remember(r) PROVE OwnRows'
  BY <1>25 DEF Remember, GiveBackRows, UnlockRows, Stray, Generation
<1>26. ASSUME NEW r \in Requests, ApiDies(r) PROVE OwnRows'
  BY <1>26 DEF ApiDies
<1>27. ASSUME NEW r \in Requests, WorkerDies(r) PROVE OwnRows'
  BY <1>27 DEF WorkerDies
<1>28. ASSUME NEW r \in Requests, LockEnds(r) PROVE OwnRows'
  BY <1>28 DEF LockEnds, Unlock
<1>29. ASSUME NEW r \in Requests, RowsLockEnds(r) PROVE OwnRows'
  BY <1>29, SMTT(30) DEF RowsLockEnds
<1> QED BY <1>1, <1>2, <1>3, <1>4, <1>5, <1>6, <1>7, <1>8, <1>9, <1>10, <1>11, <1>12, <1>13, <1>14,
           <1>15, <1>16, <1>17, <1>18, <1>19, <1>20, <1>21, <1>22, <1>23, <1>24, <1>25, <1>26, <1>27,
           <1>28, <1>29 DEF Next

(* What is in the file, or about to be there, stays recent enough until it is   *)
(* written without the lock.                                                    *)
LEMMA FileRecentKept ==
  ASSUME ConstantsOK, TypeOK, Ordered, OwnRows, ~strayed => FileRecent, [Next]_vars, ~strayed'
  PROVE  FileRecent'
<1>b. ~strayed
  BY DEF Next, vars, SourceChanges, EntryExpires, FileSwept, ValueExpires, Ask, Refresh, Look, Take, Recheck,
         Unanswered, AskUnanswered, RefreshUnwritten, RecheckUnanswered, WorkAnyway, KeepValue, KeepFailure, Keep,
         Version, LookForRows, FromFile, TakeRows, RecheckRows, RowsUnanswered, Read, Upload, Remember, Stray,
         ApiDies, WorkerDies, LockEnds, RowsLockEnds, keys
<1>a. FileRecent
  BY <1>b
<1> USE <1>a, Numbers DEF TypeOK, Ordered, OwnRows, FileRecent, Rows, Readers, Writer,
               shared, keys, locks, asks, tasks, counts, ToApi, ToWrk
<1>1. CASE UNCHANGED vars
  BY <1>1 DEF vars
<1>2. CASE SourceChanges
  BY <1>2 DEF SourceChanges
<1>3. CASE EntryExpires
  BY <1>3 DEF EntryExpires
<1>4. CASE FileSwept
  BY <1>4 DEF FileSwept
<1>5. ASSUME NEW g \in G, ValueExpires(g) PROVE FileRecent'
  BY <1>5 DEF ValueExpires, Spare
<1>6. ASSUME NEW r \in Requests, Ask(r) PROVE FileRecent'
  BY <1>6 DEF Ask
<1>7. ASSUME NEW r \in Requests, Refresh(r) PROVE FileRecent'
  BY <1>7, NextGen DEF Refresh
<1>8. ASSUME NEW r \in Requests, Look(r) PROVE FileRecent'
  BY <1>8 DEF Look
<1>9. ASSUME NEW r \in Requests, Take(r) PROVE FileRecent'
  BY <1>9 DEF Take
<1>10. ASSUME NEW r \in Requests, Recheck(r) PROVE FileRecent'
  BY <1>10 DEF Recheck, GiveBack, Unlock
<1>11. ASSUME NEW r \in Requests, Unanswered(r) PROVE FileRecent'
  BY <1>11 DEF Unanswered, WorkAnyway
<1>12. ASSUME NEW r \in Requests, AskUnanswered(r) PROVE FileRecent'
  BY <1>12 DEF AskUnanswered, WorkAnyway
<1>13. ASSUME NEW r \in Requests, RefreshUnwritten(r) PROVE FileRecent'
  BY <1>13, NextGen DEF RefreshUnwritten, WorkAnyway
<1>14. ASSUME NEW r \in Requests, RecheckUnanswered(r) PROVE FileRecent'
  BY <1>14 DEF RecheckUnanswered, WorkAnyway
<1>15. ASSUME NEW r \in Requests, KeepValue(r) PROVE FileRecent'
  BY <1>15 DEF KeepValue, Keep, GiveBack, Unlock
<1>16. ASSUME NEW r \in Requests, KeepFailure(r) PROVE FileRecent'
  BY <1>16 DEF KeepFailure, Keep, GiveBack, Unlock
<1>17. ASSUME NEW r \in Requests, Version(r) PROVE FileRecent'
  BY <1>17 DEF Version
<1>18. ASSUME NEW r \in Requests, LookForRows(r) PROVE FileRecent'
  BY <1>18 DEF LookForRows, After, Kept
<1>19. ASSUME NEW r \in Requests, FromFile(r) PROVE FileRecent'
  <2>0. /\ UNCHANGED <<src, gen, floor, value, file, hash, ver>> /\ wrk[r] \in {"file", "again"}
        /\ rlock' \in {None, rlock}
    BY <1>19 DEF FromFile, GiveBackRows, UnlockRows
  <2>1. \A q \in Requests : rlock' = q => rlock = q
    BY <2>0 DEF ConstantsOK
  <2>2. CASE file # None /\ data' = [data EXCEPT ![r] = file] /\ wrk' = [wrk EXCEPT ![r] = "ended"] /\ entry' = entry
    <3>1. /\ \A q \in Requests : wrk'[q] = IF q = r THEN "ended" ELSE wrk[q]
          /\ \A q \in Requests : data'[q] = IF q = r THEN file ELSE data[q]
      BY <2>2
    <3>2. file >= floor[ver[r]] /\ floor[hash[r]] <= floor[ver[r]] /\ file \in Nat
      BY <2>0, <2>2
    <3>3. file >= floor[hash[r]]
      BY <3>2
    <3> QED BY <2>0, <2>1, <2>2, <3>1, <3>3
  <2>3. CASE entry' \in {None, entry} /\ data' = data /\ wrk' \in {[wrk EXCEPT ![r] = "read"], [wrk EXCEPT ![r] = "take"]}
    <3>1. \A q \in Requests : q # r => wrk'[q] = wrk[q]
      BY <2>3
    <3>2. wrk'[r] \in {"read", "take"}
      BY <2>3
    <3> QED BY <2>0, <2>1, <2>3, <3>1, <3>2
  <2> QED BY <1>19, <2>2, <2>3 DEF FromFile
<1>20. ASSUME NEW r \in Requests, TakeRows(r) PROVE FileRecent'
  BY <1>20 DEF TakeRows
<1>21. ASSUME NEW r \in Requests, RecheckRows(r) PROVE FileRecent'
  BY <1>21, SMTT(30) DEF RecheckRows, After, Kept, GiveBackRows, UnlockRows, ConstantsOK
<1>22. ASSUME NEW r \in Requests, RowsUnanswered(r) PROVE FileRecent'
  BY <1>22 DEF RowsUnanswered
<1>23. ASSUME NEW r \in Requests, Read(r) PROVE FileRecent'
  <2>1. UNCHANGED <<src, gen, floor, value, file, hash, ver>> /\ wrk[r] = "read"
    BY <1>23 DEF Read
  <2>2. CASE data' = [data EXCEPT ![r] = src] /\ wrk' = [wrk EXCEPT ![r] = "upload"] /\ entry' = entry
             /\ rlock' = rlock
    <3>1. /\ \A q \in Requests : data'[q] = IF q = r THEN src ELSE data[q]
          /\ \A q \in Requests : wrk'[q] = IF q = r THEN "upload" ELSE wrk[q]
      BY <2>2
    <3>2. \A g \in G : src >= floor[g]
      OBVIOUS
    <3>3. Rows => entry.gen \in G
      OBVIOUS
    <3> QED BY <2>1, <2>2, <3>1, <3>2, <3>3
  <2>3. CASE entry' \in {entry, [gen |-> Generation(r), says |-> "error"]} /\ wrk' = [wrk EXCEPT ![r] = "failed"]
             /\ data' = data /\ rlock' \in {None, rlock}
    <3>1. /\ Rows' => Rows /\ entry' = entry
          /\ \A q \in Requests : wrk'[q] = IF q = r THEN "failed" ELSE wrk[q]
      BY <2>3
    <3>2. \A q \in Requests : rlock' = q => rlock = q
      BY <2>3 DEF ConstantsOK
    <3> QED BY <2>1, <2>3, <3>1, <3>2
  <2> QED BY <1>23, <2>2, <2>3 DEF Read, UnlockRows
<1>24. ASSUME NEW r \in Requests, Upload(r) PROVE FileRecent'
  <2>1. UNCHANGED <<src, gen, floor, value, entry, hash, ver, data>> /\ wrk[r] = "upload"
    BY <1>24 DEF Upload
  <2>2. CASE file' = data[r] /\ wrk' = [wrk EXCEPT ![r] = "remember"] /\ rlock' = rlock /\ rlock = r
    <3>1. \A q \in Requests : wrk'[q] = IF q = r THEN "remember" ELSE wrk[q]
      BY <2>2
    <3>2. \A q \in Requests : rlock = q => q = r
      BY <2>2
    <3> QED BY <2>1, <2>2, <3>1, <3>2
  <2>3. CASE file' = file /\ wrk' = [wrk EXCEPT ![r] = "ended"] /\ rlock' \in {None, rlock}
    <3>1. \A q \in Requests : wrk'[q] = IF q = r THEN "ended" ELSE wrk[q]
      BY <2>3
    <3>2. \A q \in Requests : rlock' = q => rlock = q
      BY <2>3 DEF ConstantsOK
    <3> QED BY <2>1, <2>3, <3>1, <3>2
  <2> QED BY <1>24, <1>b, <2>2, <2>3 DEF Upload, UnlockRows, Stray
<1>25. ASSUME NEW r \in Requests, Remember(r) PROVE FileRecent'
  <2>0. /\ UNCHANGED <<src, gen, floor, value, file, hash, ver, data>> /\ wrk[r] = "remember"
        /\ rlock' \in {None, rlock} /\ wrk' = [wrk EXCEPT ![r] = "ended"]
    BY <1>25 DEF Remember, GiveBackRows, UnlockRows
  <2>1. \A q \in Requests : rlock' = q => rlock = q
    BY <2>0 DEF ConstantsOK
  <2>2. \A q \in Requests : wrk'[q] = IF q = r THEN "ended" ELSE wrk[q]
    BY <2>0
  <2>3. CASE entry' = entry
    BY <2>0, <2>1, <2>2, <2>3
  <2>4. CASE entry' = [gen |-> ver[r], says |-> "rows"] /\ rlock = r
    <3>1. entry'.gen = ver[r] /\ (file # None => file >= floor[ver[r]])
      BY <2>0, <2>4
    <3>2. \A q \in Requests : ~Writer(q)'
      BY <2>1, <2>2, <2>4
    <3> QED BY <2>0, <2>2, <3>1, <3>2
  <2> QED BY <1>25, <1>b, <2>3, <2>4 DEF Remember, Stray, Generation
<1>26. ASSUME NEW r \in Requests, ApiDies(r) PROVE FileRecent'
  BY <1>26 DEF ApiDies
<1>27. ASSUME NEW r \in Requests, WorkerDies(r) PROVE FileRecent'
  BY <1>27 DEF WorkerDies
<1>28. ASSUME NEW r \in Requests, LockEnds(r) PROVE FileRecent'
  BY <1>28 DEF LockEnds, Unlock
<1>29. ASSUME NEW r \in Requests, RowsLockEnds(r) PROVE FileRecent'
  BY <1>29 DEF RowsLockEnds, ConstantsOK
<1> QED BY <1>1, <1>2, <1>3, <1>4, <1>5, <1>6, <1>7, <1>8, <1>9, <1>10, <1>11, <1>12, <1>13, <1>14,
           <1>15, <1>16, <1>17, <1>18, <1>19, <1>20, <1>21, <1>22, <1>23, <1>24, <1>25, <1>26, <1>27,
           <1>28, <1>29 DEF Next

LEMMA RecentKept == ASSUME ConstantsOK, TypeOK, Ordered, Recent, [Next]_vars PROVE Recent'
BY OwnRowsKept, FileRecentKept DEF Recent

(* The numbers kept stay fresh.                                                 *)
LEMMA FreshKept ==
  ASSUME ConstantsOK, TypeOK, Ordered, Recent, FreshAfterRefresh, [Next]_vars PROVE FreshAfterRefresh'
<1> USE Numbers DEF TypeOK, Ordered, Recent, FileRecent, FreshAfterRefresh,
               shared, keys, locks, asks, tasks, counts, ToApi, ToWrk
<1>1. CASE UNCHANGED vars
  BY <1>1 DEF vars
<1>2. CASE SourceChanges
  BY <1>2 DEF SourceChanges
<1>3. CASE EntryExpires
  BY <1>3 DEF EntryExpires
<1>4. CASE FileSwept
  BY <1>4 DEF FileSwept
<1>5. ASSUME NEW g \in G, ValueExpires(g) PROVE FreshAfterRefresh'
  <2>1. value' = [value EXCEPT ![g] = None] /\ UNCHANGED <<floor, strayed>> /\ None \notin Versions
    BY <1>5 DEF ValueExpires, ConstantsOK
  <2> QED BY <2>1
<1>6. ASSUME NEW r \in Requests, Ask(r) PROVE FreshAfterRefresh'
  BY <1>6 DEF Ask
<1>7. ASSUME NEW r \in Requests, Refresh(r) PROVE FreshAfterRefresh'
  <2>1. /\ value' = value /\ floor' = [floor EXCEPT ![named + 1] = src] /\ named + 1 \in G
        /\ None \notin Versions /\ strayed' = strayed
    BY <1>7, NextGen DEF Refresh, ConstantsOK
  <2>2. value[named + 1] = None
    BY <2>1
  <2> QED BY <2>1, <2>2
<1>8. ASSUME NEW r \in Requests, Look(r) PROVE FreshAfterRefresh'
  BY <1>8 DEF Look
<1>9. ASSUME NEW r \in Requests, Take(r) PROVE FreshAfterRefresh'
  BY <1>9 DEF Take
<1>10. ASSUME NEW r \in Requests, Recheck(r) PROVE FreshAfterRefresh'
  BY <1>10 DEF Recheck, GiveBack, Unlock
<1>11. ASSUME NEW r \in Requests, Unanswered(r) PROVE FreshAfterRefresh'
  BY <1>11 DEF Unanswered, WorkAnyway
<1>12. ASSUME NEW r \in Requests, AskUnanswered(r) PROVE FreshAfterRefresh'
  BY <1>12 DEF AskUnanswered, WorkAnyway
<1>13. ASSUME NEW r \in Requests, RefreshUnwritten(r) PROVE FreshAfterRefresh'
  <2>1. /\ value' = value /\ floor' = [floor EXCEPT ![named + 1] = floor[gen]] /\ named + 1 \in G
        /\ None \notin Versions /\ strayed' = strayed
    BY <1>13, NextGen DEF RefreshUnwritten, WorkAnyway, ConstantsOK
  <2>2. value[named + 1] = None
    BY <2>1
  <2> QED BY <2>1, <2>2
<1>14. ASSUME NEW r \in Requests, RecheckUnanswered(r) PROVE FreshAfterRefresh'
  BY <1>14 DEF RecheckUnanswered, WorkAnyway
<1>15. ASSUME NEW r \in Requests, KeepValue(r) PROVE FreshAfterRefresh'
  <2>1. hash[r] \in G /\ wrk[r] = "ended" /\ (~strayed => data[r] >= floor[hash[r]])
    BY <1>15 DEF KeepValue
  <2>2. UNCHANGED <<floor, strayed>> /\ (value' = value \/ value' = [value EXCEPT ![hash[r]] = data[r]])
    BY <1>15 DEF KeepValue, Keep
  <2> QED BY <2>1, <2>2
<1>16. ASSUME NEW r \in Requests, KeepFailure(r) PROVE FreshAfterRefresh'
  <2>1. UNCHANGED <<floor, strayed>> /\ (value' = value \/ value' = [value EXCEPT ![hash[r]] = Failed])
    BY <1>16 DEF KeepFailure, Keep
  <2>2. Failed \notin Versions
    BY DEF ConstantsOK
  <2> QED BY <2>1, <2>2
<1>17. ASSUME NEW r \in Requests, Version(r) PROVE FreshAfterRefresh'
  BY <1>17 DEF Version
<1>18. ASSUME NEW r \in Requests, LookForRows(r) PROVE FreshAfterRefresh'
  BY <1>18 DEF LookForRows, After, Kept
<1>19. ASSUME NEW r \in Requests, FromFile(r) PROVE FreshAfterRefresh'
  BY <1>19 DEF FromFile, GiveBackRows, UnlockRows
<1>20. ASSUME NEW r \in Requests, TakeRows(r) PROVE FreshAfterRefresh'
  BY <1>20 DEF TakeRows
<1>21. ASSUME NEW r \in Requests, RecheckRows(r) PROVE FreshAfterRefresh'
  BY <1>21 DEF RecheckRows, After, Kept, GiveBackRows, UnlockRows
<1>22. ASSUME NEW r \in Requests, RowsUnanswered(r) PROVE FreshAfterRefresh'
  BY <1>22 DEF RowsUnanswered
<1>23. ASSUME NEW r \in Requests, Read(r) PROVE FreshAfterRefresh'
  BY <1>23 DEF Read, UnlockRows, Generation
<1>24. ASSUME NEW r \in Requests, Upload(r) PROVE FreshAfterRefresh'
  BY <1>24 DEF Upload, UnlockRows, Stray
<1>25. ASSUME NEW r \in Requests, Remember(r) PROVE FreshAfterRefresh'
  BY <1>25 DEF Remember, GiveBackRows, UnlockRows, Stray, Generation
<1>26. ASSUME NEW r \in Requests, ApiDies(r) PROVE FreshAfterRefresh'
  BY <1>26 DEF ApiDies
<1>27. ASSUME NEW r \in Requests, WorkerDies(r) PROVE FreshAfterRefresh'
  BY <1>27 DEF WorkerDies
<1>28. ASSUME NEW r \in Requests, LockEnds(r) PROVE FreshAfterRefresh'
  BY <1>28 DEF LockEnds, Unlock
<1>29. ASSUME NEW r \in Requests, RowsLockEnds(r) PROVE FreshAfterRefresh'
  BY <1>29 DEF RowsLockEnds
<1> QED BY <1>1, <1>2, <1>3, <1>4, <1>5, <1>6, <1>7, <1>8, <1>9, <1>10, <1>11, <1>12, <1>13, <1>14,
           <1>15, <1>16, <1>17, <1>18, <1>19, <1>20, <1>21, <1>22, <1>23, <1>24, <1>25, <1>26, <1>27,
           <1>28, <1>29 DEF Next

(* A value kept is awaited no more; one that is not kept, by who had the lock, is  *)
(* spare.                                                                       *)
LEMMA KeepCounts ==
  ASSUME ConstantsOK, TypeOK, Counted, NEW r \in Requests, NEW v, v # None, Keep(r, v) PROVE Counted'
<1>1. /\ hash[r] \in G /\ UNCHANGED <<hash, works>> /\ api' = [api EXCEPT ![r] = "answered"]
      /\ vlock' = vlock \/ vlock' = [vlock EXCEPT ![hash[r]] = IF @ = r THEN None ELSE @]
  BY DEF Keep, GiveBack, Unlock, TypeOK, ToApi, tasks, asks
<1>2. ASSUME NEW g \in G, NEW q \in Requests, q # r, api[q] = "waits" /\ hash[q] = g /\ vlock[g] = q
      PROVE  Awaited(g)'
  BY <1>1, <1>2 DEF Awaited, TypeOK
<1>3. CASE value' = [value EXCEPT ![hash[r]] = v] /\ spare' = spare
  <2>1. \A g \in G : Awaited(g) => Awaited(g)'
    BY <1>1, <1>2, <1>3 DEF Awaited, TypeOK
  <2> QED BY <1>1, <1>3, <2>1 DEF Counted, TypeOK
<1>4. CASE value' = value /\ Holds(r) /\ spare' = [spare EXCEPT ![hash[r]] = @ + 1]
  <2>1. \A g \in G : g # hash[r] => spare'[g] = spare[g] /\ (Awaited(g) => Awaited(g)')
    BY <1>1, <1>2, <1>4 DEF Awaited, TypeOK
  <2>2. works'[hash[r]] <= spare'[hash[r]]
    BY <1>1, <1>4 DEF Counted, TypeOK
  <2> QED BY <1>1, <2>1, <2>2, <1>4 DEF Counted, TypeOK
<1>5. CASE value' = value /\ ~Holds(r) /\ spare' = spare
  <2>1. \A g \in G : Awaited(g) => Awaited(g)'
    BY <1>1, <1>2, <1>5 DEF Awaited, Holds, TypeOK
  <2> QED BY <1>1, <1>5, <2>1 DEF Counted, TypeOK
<1> QED BY <1>3, <1>4, <1>5 DEF Keep, Spare

(* Who works a tile out without an answer takes nothing from those who wait.    *)
LEMMA AnywayCounts ==
  ASSUME ConstantsOK, TypeOK, Counted, NEW r \in Requests, NEW g \in G, WorkAnyway(r, g),
         api[r] \in {"new", "look", "take", "locked"},
         \A q \in Requests : hash'[q] = IF q = r THEN g ELSE hash[q]
  PROVE  Counted'
<1>1. /\ api' = [api EXCEPT ![r] = "waits"] /\ UNCHANGED <<value, vlock>>
      /\ works' = [works EXCEPT ![g] = @ + 1] /\ spare' = [spare EXCEPT ![g] = @ + 1]
  BY DEF WorkAnyway, Spare, ToApi, keys, locks
<1>2. \A k \in G : Awaited(k) => Awaited(k)'
  BY <1>1 DEF Awaited, TypeOK
<1> QED BY <1>1, <1>2 DEF Counted, TypeOK

(* A request that stops working out, or is no longer the only one to, is spare. *)
LEMMA LeftCounts ==
  ASSUME ConstantsOK, TypeOK, Counted, NEW r \in Requests, UNCHANGED <<value, works, hash>>,
         \A g \in G, q \in Requests : q # r /\ api[q] = "waits" /\ hash[q] = g /\ vlock[g] = q
                                     => api'[q] = "waits" /\ vlock'[g] = q,
         \/ spare' = spare /\ (api[r] = "waits" => ~Holds(r)) 
         \/ Spare(hash[r])
  PROVE  Counted'
<1>1. hash[r] \in G BY DEF TypeOK
<1>2. CASE spare' = spare /\ (api[r] = "waits" => ~Holds(r))
  <2>1. \A g \in G : Awaited(g) => Awaited(g)'
    BY <1>2 DEF Awaited, Holds
  <2> QED BY <1>2, <2>1 DEF Counted, TypeOK
<1>3. CASE Spare(hash[r])
  <2>1. \A g \in G : g # hash[r] => (Awaited(g) => Awaited(g)')
    BY DEF Awaited
  <2> QED BY <1>1, <1>3, <2>1 DEF Counted, Spare, TypeOK
<1> QED BY <1>2, <1>3

(* Only what was lost is worked out again.                                      *)
LEMMA CountedKept ==
  ASSUME ConstantsOK, TypeOK, Exclusive, Counted, [Next]_vars PROVE Counted'
<1> USE Numbers DEF TypeOK, Exclusive, Holds, Counted, Awaited,
               shared, keys, locks, asks, tasks, counts, ToApi, ToWrk
<1>1. CASE UNCHANGED vars
  BY <1>1 DEF vars
<1>2. CASE SourceChanges
  BY <1>2 DEF SourceChanges
<1>3. CASE EntryExpires
  BY <1>3 DEF EntryExpires
<1>4. CASE FileSwept
  BY <1>4 DEF FileSwept
<1>5. ASSUME NEW g \in G, ValueExpires(g) PROVE Counted'
  BY <1>5 DEF ValueExpires, Spare
<1>6. ASSUME NEW r \in Requests, Ask(r) PROVE Counted'
  BY <1>6 DEF Ask
<1>7. ASSUME NEW r \in Requests, Refresh(r) PROVE Counted'
  BY <1>7 DEF Refresh
<1>8. ASSUME NEW r \in Requests, Look(r) PROVE Counted'
  BY <1>8 DEF Look
<1>9. ASSUME NEW r \in Requests, Take(r) PROVE Counted'
  <2>1. \A g \in G : Awaited(g) => Awaited(g)'
    BY <1>9 DEF Take, ConstantsOK
  <2>2. UNCHANGED <<works, spare>>
    BY <1>9 DEF Take
  <2> HIDE DEF Awaited
  <2> QED BY <2>1, <2>2
<1>10. ASSUME NEW r \in Requests, Recheck(r) PROVE Counted'
  <2>1. hash[r] \in G /\ UNCHANGED <<value, hash, spare>> /\ api[r] = "locked" /\ vlock[hash[r]] = r
    BY <1>10 DEF Recheck
  <2>2. CASE WorkedOut(r)
    <3>1. /\ api' = [api EXCEPT ![r] = "answered"] /\ UNCHANGED works
          /\ vlock' = vlock \/ vlock' = [vlock EXCEPT ![hash[r]] = IF @ = r THEN None ELSE @]
      BY <1>10, <2>2 DEF Recheck, GiveBack, Unlock
    <3>2. \A g \in G : Awaited(g) => Awaited(g)'
      BY <2>1, <3>1
    <3> HIDE DEF Awaited
    <3> QED BY <2>1, <3>1, <3>2
  <2>3. CASE ~WorkedOut(r)
    <3>1. /\ api' = [api EXCEPT ![r] = "waits"] /\ works' = [works EXCEPT ![hash[r]] = @ + 1]
          /\ vlock' = vlock
      BY <1>10, <2>3 DEF Recheck
    <3>2. ~Awaited(hash[r]) /\ Awaited(hash[r])'
      BY <2>1, <2>3, <3>1 DEF WorkedOut
    <3>3. \A g \in G : g # hash[r] => works'[g] = works[g] /\ (Awaited(g) => Awaited(g)')
      BY <2>1, <3>1
    <3>4. works'[hash[r]] = works[hash[r]] + 1
      BY <2>1, <3>1
    <3>5. works'[hash[r]] <= spare'[hash[r]] + 1
      BY <2>1, <3>2, <3>4
    <3> HIDE DEF Awaited
    <3> QED BY <2>1, <3>2, <3>3, <3>5
  <2> QED BY <2>2, <2>3
<1>11. ASSUME NEW r \in Requests, Unanswered(r) PROVE Counted'
  BY <1>11, AnywayCounts DEF Unanswered
<1>12. ASSUME NEW r \in Requests, AskUnanswered(r) PROVE Counted'
  BY <1>12, AnywayCounts DEF AskUnanswered
<1>13. ASSUME NEW r \in Requests, RefreshUnwritten(r) PROVE Counted'
  BY <1>13, NextGen, AnywayCounts DEF RefreshUnwritten
<1>14. ASSUME NEW r \in Requests, RecheckUnanswered(r) PROVE Counted'
  BY <1>14, AnywayCounts DEF RecheckUnanswered
<1>15. ASSUME NEW r \in Requests, KeepValue(r) PROVE Counted'
  <2>1. Keep(r, data[r]) /\ data[r] # None
    BY <1>15 DEF KeepValue, ConstantsOK
  <2> QED BY <2>1, KeepCounts
<1>16. ASSUME NEW r \in Requests, KeepFailure(r) PROVE Counted'
  <2>1. Keep(r, Failed) /\ Failed # None
    BY <1>16 DEF KeepFailure, ConstantsOK
  <2> QED BY <2>1, KeepCounts
<1>17. ASSUME NEW r \in Requests, Version(r) PROVE Counted'
  BY <1>17 DEF Version
<1>18. ASSUME NEW r \in Requests, LookForRows(r) PROVE Counted'
  BY <1>18 DEF LookForRows, After, Kept
<1>19. ASSUME NEW r \in Requests, FromFile(r) PROVE Counted'
  BY <1>19 DEF FromFile, GiveBackRows, UnlockRows
<1>20. ASSUME NEW r \in Requests, TakeRows(r) PROVE Counted'
  BY <1>20 DEF TakeRows
<1>21. ASSUME NEW r \in Requests, RecheckRows(r) PROVE Counted'
  BY <1>21 DEF RecheckRows, After, Kept, GiveBackRows, UnlockRows
<1>22. ASSUME NEW r \in Requests, RowsUnanswered(r) PROVE Counted'
  BY <1>22 DEF RowsUnanswered
<1>23. ASSUME NEW r \in Requests, Read(r) PROVE Counted'
  BY <1>23 DEF Read, UnlockRows, Generation
<1>24. ASSUME NEW r \in Requests, Upload(r) PROVE Counted'
  BY <1>24 DEF Upload, UnlockRows, Stray
<1>25. ASSUME NEW r \in Requests, Remember(r) PROVE Counted'
  BY <1>25 DEF Remember, GiveBackRows, UnlockRows, Stray, Generation
<1>26. ASSUME NEW r \in Requests, ApiDies(r) PROVE Counted'
  BY <1>26, LeftCounts DEF ApiDies
<1>27. ASSUME NEW r \in Requests, WorkerDies(r) PROVE Counted'
  BY <1>27 DEF WorkerDies
<1>28. ASSUME NEW r \in Requests, LockEnds(r) PROVE Counted'
  BY <1>28, LeftCounts DEF LockEnds, Unlock
<1>29. ASSUME NEW r \in Requests, RowsLockEnds(r) PROVE Counted'
  BY <1>29 DEF RowsLockEnds
<1> QED BY <1>1, <1>2, <1>3, <1>4, <1>5, <1>6, <1>7, <1>8, <1>9, <1>10, <1>11, <1>12, <1>13, <1>14,
           <1>15, <1>16, <1>17, <1>18, <1>19, <1>20, <1>21, <1>22, <1>23, <1>24, <1>25, <1>26, <1>27,
           <1>28, <1>29 DEF Next

(* Every step keeps the invariant.                                               *)
LEMMA Stays == ASSUME ConstantsOK, IInv, [Next]_vars PROVE IInv'
BY TypesKept, OrderKept, ExclusiveKept, RecentKept, FreshKept, CountedKept DEF IInv

LEMMA Invariance == ASSUME ConstantsOK PROVE Spec => []IInv
<1>1. Init => IInv BY Initially
<1>2. IInv /\ [Next]_vars => IInv' BY Stays
<1> QED BY <1>1, <1>2, PTL DEF Spec

(* The numbers kept under a generation were read after it was written: the         *)
(* worker's own generation (_read_and_keep, read_rows) and the rows' lock make it *)
(* so, whatever ends, is swept or dies meanwhile, until rows are written by a     *)
(* worker without that lock (`strayed`).                                          *)
THEOREM RefreshIsFresh == ASSUME ConstantsOK PROVE Spec => []FreshAfterRefresh
<1>1. Spec => []IInv BY Invariance
<1>2. IInv => FreshAfterRefresh BY DEF IInv
<1> QED BY <1>1, <1>2, PTL

(* A tile is worked out once for everyone who asks (_once, _worked_out), and once   *)
(* more at most for each value that ended or was not kept, each request that died or*)
(* lost its lock while working it out, and each that went without Valkey's answer.  *)
THEOREM OneComputation == ASSUME ConstantsOK PROVE Spec => []WorkedOutOnce
<1>1. Spec => []IInv BY Invariance
<1>2. IInv => WorkedOutOnce BY DEF IInv, TypeOK, Counted, WorkedOutOnce
<1> QED BY <1>1, <1>2, PTL
--------------------------------------------------------------------------------
(* ExportSlots                                                                *)

(* The instance counts as everybody does.                                          *)
LEMMA SameCount == \A S : /\ X!IsFiniteSet(S) <=> IsFiniteSet(S)
                          /\ X!Cardinality(S) = Cardinality(S)
BY DEF IsFiniteSet, X!IsFiniteSet, Cardinality, X!Cardinality

(* What is waiting or running in time still holds its place.                       *)
InTimeTasks == {t \in X!Unfinished : X!InTime(t)}
LEMMA UnfinishedHeld == ASSUME X!ConstantsOK, X!IInv PROVE InTimeTasks \subseteq X!Held
<1> SUFFICES ASSUME NEW t \in InTimeTasks PROVE t \in X!Held
  OBVIOUS
<1>1. /\ t \in Tasks /\ place[t] = asked[t] /\ asked[t] \in Nat /\ began[t] \in Nat /\ clock \in Nat
      /\ t \in X!Unfinished /\ X!InTime(t)
  BY DEF X!IInv, X!TypeOK, X!Placed, X!Unfinished, InTimeTasks
<1>2. clock < place[t] + TaskLimit + QueueWait
  <2>1. CASE task[t] = "running"
    BY <1>1, <2>1 DEF X!ConstantsOK, X!IInv, X!Placed, X!InTime
  <2>2. CASE task[t] # "running"
    BY <1>1, <2>2 DEF X!ConstantsOK, X!InTime
  <2> QED BY <2>1, <2>2
<1> QED BY <1>1, <1>2 DEF X!ConstantsOK, X!Held, X!HeldFor

(* The places held are finitely many, and so are the tasks in time.                *)
LEMMA Finite ==
  ASSUME X!ConstantsOK
  PROVE  /\ IsFiniteSet(InTimeTasks) /\ Cardinality(InTimeTasks) \in Nat
         /\ IsFiniteSet(X!Held) /\ Cardinality(X!Held) \in Nat
<1>1. InTimeTasks \subseteq Tasks /\ X!Held \subseteq Tasks
  BY DEF InTimeTasks, X!Unfinished, X!Held
<1> QED BY <1>1, SameCount, FS_Subset, FS_CardinalityType DEF X!ConstantsOK

(* A step after which no other place is held keeps the places within the cap.      *)
LEMMA Fewer == ASSUME X!ConstantsOK, X!IInv, X!Held' \subseteq X!Held PROVE X!Cardinality(X!Held') <= Cap
<1>1. Cardinality(X!Held') <= Cardinality(X!Held) /\ Cardinality(X!Held') \in Nat
  BY Finite, FS_Subset, FS_CardinalityType
<1> QED BY <1>1, Finite, SameCount DEF X!ConstantsOK, X!IInv

LEMMA ExportsInit == ASSUME X!ConstantsOK PROVE X!Init => X!IInv
<1> SUFFICES ASSUME X!Init PROVE X!IInv
  OBVIOUS
<1>1. X!Unfinished = {} /\ X!Held = {}
  BY DEF X!Init, X!Unfinished, X!Held
<1>2. X!TypeOK
  BY DEF X!Init, X!TypeOK
<1>3. X!Placed
  BY <1>1 DEF X!Placed
<1> QED BY <1>1, <1>2, <1>3, SameCount, FS_EmptySet DEF X!ConstantsOK, X!IInv

(* One more is one more at most.                                                   *)
LEMMA OneMore ==
  ASSUME NEW S, NEW x, IsFiniteSet(S)
  PROVE  IsFiniteSet(S \union {x}) /\ Cardinality(S \union {x}) <= Cardinality(S) + 1
<1>1. Cardinality(S) \in Nat
  BY FS_CardinalityType
<1>2. /\ IsFiniteSet(S \union {x})
      /\ Cardinality(S \union {x}) = IF x \in S THEN Cardinality(S) ELSE Cardinality(S) + 1
  BY FS_AddElement
<1> QED BY <1>1, <1>2

(* Who is admitted found fewer held places than the cap.                           *)
LEMMA AdmitKeeps == ASSUME X!ConstantsOK, X!IInv, NEW t \in Tasks, X!Admit(t) PROVE X!IInv'
<1>1. X!TypeOK'
  BY DEF X!ConstantsOK, X!IInv, X!TypeOK, X!Admit, X!Held
<1>2. X!Placed'
  <2> SUFFICES ASSUME NEW u \in X!Unfinished'
               PROVE /\ X!InTime(u)' => place'[u] = asked'[u]
                     /\ task'[u] = "running" => clock' < began'[u] + TaskLimit
    BY DEF X!Placed
  <2>0. u \in Tasks
    BY DEF X!Unfinished
  <2>1. CASE u = t
    BY <2>0, <2>1 DEF X!IInv, X!TypeOK, X!Admit
  <2>2. CASE u # t
    <3>1. /\ task'[u] = task[u] /\ asked'[u] = asked[u] /\ began'[u] = began[u] /\ clock' = clock
          /\ place'[u] = IF u \in X!Held THEN place[u] ELSE None
      BY <2>0, <2>2 DEF X!IInv, X!TypeOK, X!Admit
    <3>2. u \in X!Unfinished
      BY <2>0, <3>1 DEF X!Unfinished
    <3>3. X!InTime(u)' => u \in InTimeTasks
      BY <3>1, <3>2 DEF X!InTime, InTimeTasks
    <3> QED BY <3>1, <3>2, <3>3, UnfinishedHeld DEF X!IInv, X!Placed, InTimeTasks
  <2> QED BY <2>1, <2>2
<1>3. X!Cardinality(X!Held') <= Cap
  <2>1. X!Held' \subseteq X!Held \union {t}
    BY DEF X!IInv, X!TypeOK, X!Admit, X!Held, X!HeldFor
  <2>2. IsFiniteSet(X!Held \union {t}) /\ Cardinality(X!Held \union {t}) <= Cardinality(X!Held) + 1
    BY Finite, OneMore
  <2>3. Cardinality(X!Held') <= Cardinality(X!Held \union {t}) /\ Cardinality(X!Held') \in Nat
    BY <2>1, <2>2, FS_Subset, FS_CardinalityType
  <2>4. Cardinality(X!Held \union {t}) \in Nat
    BY <2>2, FS_CardinalityType
  <2>5. Cardinality(X!Held) < Cap
    BY SameCount DEF X!Admit
  <2> QED BY <2>2, <2>3, <2>4, <2>5, Finite, SameCount DEF X!ConstantsOK
<1> QED BY <1>1, <1>2, <1>3 DEF X!IInv

(* Who begins to run waited as long as it did before, and has just begun.          *)
LEMMA BeginKeeps == ASSUME X!ConstantsOK, X!IInv, NEW t \in Tasks, X!Begin(t) PROVE X!IInv'
<1>1. X!TypeOK'
  BY DEF X!IInv, X!TypeOK, X!Begin
<1>2. X!Placed'
  <2> SUFFICES ASSUME NEW u \in X!Unfinished'
               PROVE /\ X!InTime(u)' => place'[u] = asked'[u]
                     /\ task'[u] = "running" => clock' < began'[u] + TaskLimit
    BY DEF X!Placed
  <2>0. u \in Tasks /\ u \in X!Unfinished
    BY DEF X!IInv, X!TypeOK, X!Begin, X!Unfinished
  <2>1. CASE u = t
    <3>1. task[u] = "queued" /\ task'[u] = "running" /\ began'[u] = clock /\ clock' = clock /\ asked' = asked
          /\ place' = place
      BY <2>0, <2>1 DEF X!IInv, X!TypeOK, X!Begin
    <3>2. X!InTime(u)' => X!InTime(u)
      BY <3>1 DEF X!InTime
    <3>3. X!InTime(u) => place[u] = asked[u]
      BY <2>0 DEF X!IInv, X!Placed
    <3>4. clock < clock + TaskLimit
      BY DEF X!ConstantsOK, X!IInv, X!TypeOK
    <3> QED BY <3>1, <3>2, <3>3, <3>4
  <2>2. CASE u # t
    <3>1. task'[u] = task[u] /\ began'[u] = began[u] /\ clock' = clock /\ asked' = asked /\ place' = place
      BY <2>0, <2>2 DEF X!IInv, X!TypeOK, X!Begin
    <3> QED BY <2>0, <3>1 DEF X!IInv, X!Placed, X!InTime
  <2> QED BY <2>1, <2>2
<1>3. X!Held' \subseteq X!Held
  BY DEF X!Begin, X!Held
<1> QED BY <1>1, <1>2, <1>3, Fewer DEF X!IInv

(* A step of one task that leaves the times and the others as they are, and moves  *)
(* it on without beginning it or ends it.                                          *)
LEMMA OthersKept ==
  ASSUME X!ConstantsOK, X!IInv, X!TypeOK', clock' = clock, asked' = asked, began' = began,
         \A u \in X!Unfinished' : /\ u \in X!Unfinished /\ place'[u] = place[u]
                                  /\ task'[u] = "running" <=> task[u] = "running",
         \A u \in Tasks : place'[u] \in {None, place[u]}
  PROVE  X!IInv'
<1>1. X!Placed'
  BY DEF X!IInv, X!Placed, X!InTime
<1>2. X!Held' \subseteq X!Held
  BY DEF X!Held
<1> QED BY <1>1, <1>2, Fewer DEF X!IInv

LEMMA TimePasses == ASSUME X!ConstantsOK, X!IInv, X!Pass PROVE X!IInv'
<1>1. X!TypeOK'
  BY DEF X!IInv, X!TypeOK, X!Pass
<1>2. X!Placed'
  <2> SUFFICES ASSUME NEW u \in X!Unfinished
               PROVE /\ X!InTime(u)' => place[u] = asked[u]
                     /\ task[u] = "running" => clock' < began[u] + TaskLimit
    BY DEF X!Pass, X!Placed, X!Unfinished
  <2>1. u \in Tasks
    BY DEF X!Unfinished
  <2>2. X!InTime(u)' => X!InTime(u)
    BY <2>1 DEF X!ConstantsOK, X!IInv, X!TypeOK, X!Pass, X!InTime
  <2> QED BY <2>1, <2>2 DEF X!IInv, X!Pass, X!Placed
<1>3. X!Held' \subseteq X!Held
  <2> SUFFICES ASSUME NEW u \in Tasks, place[u] # None, place[u] + X!HeldFor > clock + 1
               PROVE  place[u] + X!HeldFor > clock
    BY DEF X!Pass, X!Held, X!HeldFor
  <2> QED BY DEF X!ConstantsOK, X!IInv, X!TypeOK, X!HeldFor
<1> QED BY <1>1, <1>2, <1>3, Fewer DEF X!IInv

LEMMA ExportsKept == ASSUME X!ConstantsOK, X!IInv, [X!Next]_(X!vars) PROVE X!IInv'
<1>1. CASE UNCHANGED X!vars
  <2>1. X!Held' = X!Held
    BY <1>1 DEF X!vars, X!Held
  <2>2. X!TypeOK' /\ X!Placed'
    BY <1>1 DEF X!vars, X!IInv, X!TypeOK, X!Placed, X!InTime, X!Unfinished
  <2> QED BY <2>1, <2>2, Fewer DEF X!IInv
<1>2. CASE X!Pass
  BY <1>2, TimePasses
<1>3. ASSUME NEW t \in Tasks,
             \/ X!Admit(t) \/ X!RememberOwner(t) \/ X!SendTask(t) \/ X!NotSent(t) \/ X!Begin(t) \/ X!End(t)
             \/ X!Killed(t) \/ X!TaskEnded(t) \/ X!Revoked(t) \/ X!Download(t)
      PROVE  X!IInv'
  <2>1. CASE X!Admit(t)
    BY <2>1, AdmitKeeps
  <2>2. CASE X!RememberOwner(t)
    <3>1. X!TypeOK' BY <2>2 DEF X!IInv, X!TypeOK, X!RememberOwner
    <3> QED BY <2>2, <3>1, OthersKept DEF X!RememberOwner, X!Unfinished
  <2>3. CASE X!SendTask(t)
    <3>1. X!TypeOK' BY <2>3 DEF X!IInv, X!TypeOK, X!SendTask
    <3> QED BY <2>3, <3>1, OthersKept DEF X!SendTask, X!IInv, X!TypeOK, X!Unfinished
  <2>4. CASE X!NotSent(t)
    <3>1. X!TypeOK' BY <2>4 DEF X!IInv, X!TypeOK, X!NotSent
    <3> QED BY <2>4, <3>1, OthersKept DEF X!NotSent, X!IInv, X!TypeOK, X!Unfinished
  <2>5. CASE X!Begin(t)
    BY <2>5, BeginKeeps
  <2>6. CASE X!End(t)
    <3>1. X!TypeOK' BY <2>6 DEF X!IInv, X!TypeOK, X!End
    <3> QED BY <2>6, <3>1, OthersKept DEF X!End, X!IInv, X!TypeOK, X!Unfinished
  <2>7. CASE X!Killed(t)
    <3>1. X!TypeOK' BY <2>7 DEF X!IInv, X!TypeOK, X!Killed
    <3> QED BY <2>7, <3>1, OthersKept DEF X!Killed, X!IInv, X!TypeOK, X!Unfinished
  <2>8. CASE X!TaskEnded(t)
    <3>1. X!TypeOK' BY <2>8 DEF X!IInv, X!TypeOK, X!TaskEnded, X!GivenBack
    <3> QED BY <2>8, <3>1, OthersKept DEF X!TaskEnded, X!GivenBack, X!IInv, X!TypeOK, X!Unfinished
  <2>9. CASE X!Revoked(t)
    <3>1. X!TypeOK' BY <2>9 DEF X!IInv, X!TypeOK, X!Revoked, X!GivenBack
    <3> QED BY <2>9, <3>1, OthersKept DEF X!Revoked, X!GivenBack, X!IInv, X!TypeOK, X!Unfinished
  <2>10. CASE X!Download(t)
    <3>1. X!TypeOK' BY <2>10 DEF X!IInv, X!TypeOK, X!Download
    <3> QED BY <2>10, <3>1, OthersKept DEF X!Download, X!Unfinished
  <2> QED BY <1>3, <2>1, <2>2, <2>3, <2>4, <2>5, <2>6, <2>7, <2>8, <2>9, <2>10
<1> QED BY <1>1, <1>2, <1>3 DEF X!Next

LEMMA ExportsInvariance == ASSUME X!ConstantsOK PROVE X!Spec => []X!IInv
<1>1. X!Init => X!IInv BY ExportsInit
<1>2. X!IInv /\ [X!Next]_(X!vars) => X!IInv' BY ExportsKept
<1> QED BY <1>1, <1>2, PTL DEF X!Spec

(* A person never has more exports waiting and running than the cap, counting those *)
(* whose wait for a worker was within what their place allows for                  *)
(* (export_slots.admit), for any tasks, cap and times.                             *)
LEMMA ExportsWithinPlaces == ASSUME X!ConstantsOK, X!IInv PROVE X!CapHolds
<1>1. Cardinality(InTimeTasks) <= Cardinality(X!Held)
  BY UnfinishedHeld, Finite, FS_Subset
<1> QED BY <1>1, Finite, SameCount DEF X!ConstantsOK, X!IInv, X!CapHolds, InTimeTasks
THEOREM NeverPastTheCap == ASSUME X!ConstantsOK PROVE X!Spec => []X!CapHolds
<1>1. X!Spec => []X!IInv BY ExportsInvariance
<1>2. X!IInv => X!CapHolds BY ExportsWithinPlaces
<1> QED BY <1>1, <1>2, PTL

--------------------------------------------------------------------------------
(* LostTasks                                                                  *)

(* The initial state satisfies the invariant.                                     *)
LEMMA WorkersInit == ASSUME L!TimesAssumption, L!Init PROVE L!IInv
<1>1. key = [started |-> 0, until |-> TTL] /\ key # None
  BY DEF L!TimesAssumption, L!Init
<1>2. L!TypeOK
  <2>1. [started |-> 0, until |-> TTL] \in [started : Nat, until : Nat]
    BY DEF L!TimesAssumption
  <2>2. 0 \in 0..Blips
    BY DEF L!TimesAssumption
  <2> QED BY <1>1, <2>1, <2>2 DEF L!Init, L!TypeOK
<1>3. L!Punctual BY <1>1 DEF L!TimesAssumption, L!Init, L!Punctual, L!Running
<1>4. L!Whole BY <1>1 DEF L!TimesAssumption, L!Init, L!Whole, L!WellKept
<1>5. L!Mended /\ L!Lasts /\ L!LostIsGone BY DEF L!Init, L!Mended, L!Lasts, L!LostIsGone
<1> QED BY <1>2, <1>3, <1>4, <1>5 DEF L!IInv

(* Every step keeps the types. *)
LEMMA WorkersTypesKept == ASSUME L!TimesAssumption, L!TypeOK, [L!Next]_(L!vars) PROVE L!TypeOK'
<1> USE DEF L!TimesAssumption, L!TypeOK, L!faults, L!Running, L!State
<1>1. CASE UNCHANGED L!vars
  BY <1>1 DEF L!vars
<1>2. CASE L!Beat
  BY <1>2 DEF L!Beat
<1>3. CASE L!Drain
  BY <1>3 DEF L!Drain
<1>4. CASE L!Exit
  BY <1>4 DEF L!Exit
<1>5. CASE L!Kill
  BY <1>5 DEF L!Kill
<1>6. CASE L!Restart
  BY <1>6 DEF L!Restart
<1>7. CASE L!TaskBegins
  BY <1>7 DEF L!TaskBegins
<1>8. CASE L!TaskEnds
  BY <1>8 DEF L!TaskEnds
<1>9. CASE L!Look
  <2>1. told' \in BOOLEAN
    <3>1. CASE L!Seen # None
      <4>1. told' = (L!Seen.started > lSince)
        BY <1>9, <3>1 DEF L!Look
      <4> QED BY <4>1
    <3>2. CASE L!Seen = None
      <4>1. told' = L!Confirmed
        BY <1>9, <3>2 DEF L!Look
      <4> QED BY <4>1 DEF L!Confirmed
    <3> QED BY <3>1, <3>2
  <2>2. suspect' \in Nat \union {None}
    BY <1>9 DEF L!Look, L!First
  <2> QED BY <1>9, <2>1, <2>2 DEF L!Look
<1>10. CASE L!Wipe
  BY <1>10 DEF L!Wipe, L!Blip
<1>11. CASE L!CutOff
  BY <1>11 DEF L!CutOff, L!Blip
<1>12. CASE L!Back
  BY <1>12 DEF L!Back
<1>13. CASE L!Pass
  BY <1>13 DEF L!Pass
<1> QED BY <1>1, <1>2, <1>3, <1>4, <1>5, <1>6, <1>7, <1>8, <1>9, <1>10, <1>11, <1>12, <1>13 DEF L!Next

(* The worker stays punctual, and its state the state of who is up. *)
LEMMA PunctualKept == ASSUME L!TimesAssumption, L!TypeOK, L!Punctual, [L!Next]_(L!vars) PROVE L!Punctual'
<1> USE DEF L!TimesAssumption, L!TypeOK, L!Punctual, L!faults, L!Running, L!State
<1>1. CASE UNCHANGED L!vars
  BY <1>1 DEF L!vars
<1>2. CASE L!Beat
  BY <1>2 DEF L!Beat
<1>3. CASE L!Drain
  BY <1>3 DEF L!Drain
<1>4. CASE L!Exit
  BY <1>4 DEF L!Exit
<1>5. CASE L!Kill
  BY <1>5 DEF L!Kill
<1>6. CASE L!Restart
  BY <1>6 DEF L!Restart
<1>7. CASE L!TaskBegins
  BY <1>7 DEF L!TaskBegins
<1>8. CASE L!TaskEnds
  BY <1>8 DEF L!TaskEnds
<1>9. CASE L!Look
  BY <1>9 DEF L!Look, L!Seen, L!First, L!Confirmed
<1>10. CASE L!Wipe
  BY <1>10 DEF L!Wipe, L!Blip
<1>11. CASE L!CutOff
  BY <1>11 DEF L!CutOff, L!Blip
<1>12. CASE L!Back
  BY <1>12 DEF L!Back
<1>13. CASE L!Pass
  BY <1>13 DEF L!Pass
<1> QED BY <1>1, <1>2, <1>3, <1>4, <1>5, <1>6, <1>7, <1>8, <1>9, <1>10, <1>11, <1>12, <1>13 DEF L!Next

(* Until the blip the state is there. *)
LEMMA WholeKept == ASSUME L!TimesAssumption, L!TypeOK, L!Punctual, L!Whole, [L!Next]_(L!vars) PROVE L!Whole'
<1> USE DEF L!TimesAssumption, L!TypeOK, L!Punctual, L!Whole, L!WellKept, L!faults, L!Running, L!State
<1>1. CASE UNCHANGED L!vars
  BY <1>1 DEF L!vars
<1>2. CASE L!Beat
  <2>1. cut = None => key' = [started |-> started, until |-> lClock + TTL] /\ key' # None
    BY <1>2 DEF L!Beat
  <2> QED BY <1>2, <2>1 DEF L!Beat
<1>3. CASE L!Drain
  <2>1. cut = None => key' = [started |-> started, until |-> lClock + TTL] /\ key' # None
    BY <1>3 DEF L!Drain
  <2> QED BY <1>3, <2>1 DEF L!Drain
<1>4. CASE L!Exit
  BY <1>4 DEF L!Exit
<1>5. CASE L!Kill
  BY <1>5 DEF L!Kill
<1>6. CASE L!Restart
  <2>1. cut = None => key' = [started |-> lClock, until |-> lClock + TTL] /\ key' # None
    BY <1>6 DEF L!Restart
  <2> QED BY <1>6, <2>1 DEF L!Restart
<1>7. CASE L!TaskBegins
  BY <1>7 DEF L!TaskBegins
<1>8. CASE L!TaskEnds
  BY <1>8 DEF L!TaskEnds
<1>9. CASE L!Look
  BY <1>9 DEF L!Look, L!Seen, L!First, L!Confirmed
<1>10. CASE L!Wipe
  BY <1>10 DEF L!Wipe, L!Blip
<1>11. CASE L!CutOff
  BY <1>11 DEF L!CutOff, L!Blip
<1>12. CASE L!Back
  BY <1>12 DEF L!Back
<1>13. CASE L!Pass
  BY <1>13 DEF L!Pass
<1> QED BY <1>1, <1>2, <1>3, <1>4, <1>5, <1>6, <1>7, <1>8, <1>9, <1>10, <1>11, <1>12, <1>13 DEF L!Next

(* After it the state is there again before a suspicion is confirmed. *)
LEMMA MendedKept == ASSUME L!TimesAssumption, L!TypeOK, L!Punctual, L!Whole, L!Lasts, L!Mended, [L!Next]_(L!vars) PROVE L!Mended'
<1> USE DEF L!TimesAssumption, L!TypeOK, L!Punctual, L!Whole, L!WellKept, L!Lasts, L!Mended, L!faults, L!Running, L!State
<1>1. CASE UNCHANGED L!vars
  BY <1>1 DEF L!vars
<1>2. CASE L!Beat
  <2>1. cut = None => key' = [started |-> started, until |-> lClock + TTL] /\ key' # None
    BY <1>2 DEF L!Beat
  <2> QED BY <1>2, <2>1 DEF L!Beat
<1>3. CASE L!Drain
  <2>1. cut = None => key' = [started |-> started, until |-> lClock + TTL] /\ key' # None
    BY <1>3 DEF L!Drain
  <2> QED BY <1>3, <2>1 DEF L!Drain
<1>4. CASE L!Exit
  BY <1>4 DEF L!Exit
<1>5. CASE L!Kill
  BY <1>5 DEF L!Kill
<1>6. CASE L!Restart
  BY <1>6 DEF L!Restart
<1>7. CASE L!TaskBegins
  BY <1>7 DEF L!TaskBegins
<1>8. CASE L!TaskEnds
  BY <1>8 DEF L!TaskEnds
<1>9. CASE L!Look
  BY <1>9 DEF L!Look, L!Seen, L!First, L!Confirmed
<1>10. CASE L!Wipe
  BY <1>10 DEF L!Wipe, L!Blip
<1>11. CASE L!CutOff
  BY <1>11 DEF L!CutOff, L!Blip
<1>12. CASE L!Back
  BY <1>12 DEF L!Back
<1>13. CASE L!Pass
  BY <1>13 DEF L!Pass
<1> QED BY <1>1, <1>2, <1>3, <1>4, <1>5, <1>6, <1>7, <1>8, <1>9, <1>10, <1>11, <1>12, <1>13 DEF L!Next

(* While Valkey is out of reach the state lasts on. *)
LEMMA LastsKept == ASSUME L!TimesAssumption, L!TypeOK, L!Punctual, L!Whole, L!Lasts, [L!Next]_(L!vars) PROVE L!Lasts'
<1> USE DEF L!TimesAssumption, L!TypeOK, L!Punctual, L!Whole, L!WellKept, L!Lasts, L!faults, L!Running, L!State
<1>1. CASE UNCHANGED L!vars
  BY <1>1 DEF L!vars
<1>2. CASE L!Beat
  BY <1>2 DEF L!Beat
<1>3. CASE L!Drain
  BY <1>3 DEF L!Drain
<1>4. CASE L!Exit
  BY <1>4 DEF L!Exit
<1>5. CASE L!Kill
  BY <1>5 DEF L!Kill
<1>6. CASE L!Restart
  BY <1>6 DEF L!Restart
<1>7. CASE L!TaskBegins
  BY <1>7 DEF L!TaskBegins
<1>8. CASE L!TaskEnds
  BY <1>8 DEF L!TaskEnds
<1>9. CASE L!Look
  BY <1>9 DEF L!Look, L!Seen, L!First, L!Confirmed
<1>10. CASE L!Wipe
  BY <1>10 DEF L!Wipe, L!Blip
<1>11. CASE L!CutOff
  BY <1>11 DEF L!CutOff, L!Blip
<1>12. CASE L!Back
  BY <1>12 DEF L!Back
<1>13. CASE L!Pass
  BY <1>13 DEF L!Pass
<1> QED BY <1>1, <1>2, <1>3, <1>4, <1>5, <1>6, <1>7, <1>8, <1>9, <1>10, <1>11, <1>12, <1>13 DEF L!Next

(* A look at a live task finds the worker's own state, or comes before the         *)
(* suspicion is confirmed.                                                         *)
LEMMA LookIsRight == ASSUME L!TimesAssumption, L!IInv, L!Look PROVE L!LostIsGone'
<1> SUFFICES ASSUME lTask = "started" PROVE ~told'
  BY DEF L!Look, L!LostIsGone
<1>1. /\ lClock \in Nat /\ wrote \in Nat /\ lSince \in Nat /\ started \in Nat
      /\ TTL \in Nat /\ TICK \in Nat /\ CONFIRM \in Nat /\ Cut \in Nat
      /\ TICK < CONFIRM /\ TICK < TTL /\ Cut + TICK + TICK < TTL + CONFIRM
      /\ key # None => key.started \in Nat /\ key.until \in Nat
      /\ suspect # None => suspect \in Nat
      /\ cut # None => cut \in Nat
  BY DEF L!TimesAssumption, L!IInv, L!TypeOK
<1>2. /\ lClock <= wrote + TICK /\ wrote <= lClock /\ started <= lSince
      /\ key # None => key.started <= started
  BY DEF L!IInv, L!Punctual
<1>3. CASE L!Seen # None
  <2>1. key # None /\ told' = (key.started > lSince)
    BY <1>3 DEF L!Look, L!Seen
  <2>2. ~(key.started > lSince)
    BY <1>1, <1>2, <2>1
  <2> QED BY <2>1, <2>2
<1>4. CASE L!Seen = None
  <2>1. told' = (lClock >= L!First + CONFIRM)
    BY <1>4 DEF L!Look, L!Confirmed
  <2>2. key # None => key.until <= lClock
    BY <1>4 DEF L!Seen
  <2>3. ~L!WellKept
    BY <1>1, <1>2, <2>2 DEF L!WellKept
  <2>4. CASE suspect = None
    <3>1. ~(lClock >= L!First + CONFIRM)
      BY <1>1, <2>4 DEF L!First
    <3> QED BY <2>1, <3>1
  <2>5. CASE suspect # None /\ cut = None
    <3>1. wrote + TICK < suspect + CONFIRM
      BY <2>3, <2>5 DEF L!IInv, L!Whole, L!Mended, L!TypeOK
    <3>2. ~(lClock >= L!First + CONFIRM)
      BY <1>1, <1>2, <2>5, <3>1 DEF L!First
    <3> QED BY <2>1, <3>2
  <2>6. CASE suspect # None /\ cut # None
    <3>1. lClock <= cut + Cut /\ suspect + TICK >= cut + TTL
      BY <2>6 DEF L!IInv, L!Punctual, L!Lasts
    <3>2. ~(lClock >= L!First + CONFIRM)
      BY <1>1, <2>6, <3>1 DEF L!First
    <3> QED BY <2>1, <3>2
  <2> QED BY <2>4, <2>5, <2>6
<1> QED BY <1>3, <1>4

(* No look says a live task lost. *)
LEMMA GoneKept == ASSUME L!TimesAssumption, L!IInv, [L!Next]_(L!vars) PROVE L!LostIsGone'
<1> USE DEF L!TimesAssumption, L!IInv, L!TypeOK, L!Punctual, L!Whole, L!WellKept, L!Mended, L!Lasts, L!LostIsGone, L!faults, L!Running, L!State
<1>1. CASE UNCHANGED L!vars
  BY <1>1 DEF L!vars
<1>2. CASE L!Beat
  BY <1>2 DEF L!Beat
<1>3. CASE L!Drain
  BY <1>3 DEF L!Drain
<1>4. CASE L!Exit
  BY <1>4 DEF L!Exit
<1>5. CASE L!Kill
  BY <1>5 DEF L!Kill
<1>6. CASE L!Restart
  BY <1>6 DEF L!Restart
<1>7. CASE L!TaskBegins
  BY <1>7 DEF L!TaskBegins
<1>8. CASE L!TaskEnds
  BY <1>8 DEF L!TaskEnds
<1>9. CASE L!Look
  BY <1>9, LookIsRight
<1>10. CASE L!Wipe
  BY <1>10 DEF L!Wipe, L!Blip
<1>11. CASE L!CutOff
  BY <1>11 DEF L!CutOff, L!Blip
<1>12. CASE L!Back
  BY <1>12 DEF L!Back
<1>13. CASE L!Pass
  BY <1>13 DEF L!Pass
<1> QED BY <1>1, <1>2, <1>3, <1>4, <1>5, <1>6, <1>7, <1>8, <1>9, <1>10, <1>11, <1>12, <1>13 DEF L!Next

LEMMA WorkersInvariance == ASSUME L!TimesAssumption PROVE L!Spec => []L!IInv
<1>1. L!Init => L!IInv BY WorkersInit
<1>2. L!IInv /\ [L!Next]_(L!vars) => L!IInv'
  BY WorkersTypesKept, PunctualKept, WholeKept, MendedKept, LastsKept, GoneKept DEF L!IInv
<1> QED BY <1>1, <1>2, PTL DEF L!Spec

(* LOST is said of a task (worker_pool.lost) only when the worker that ran it is   *)
(* gone, for any times of its turns, of its state's life and of the confirmation,   *)
(* when Valkey loses everything or is out of the worker's reach at most once, for no*)
(* longer than TimesAssumption says.                                               *)
THEOREM OnlyTheGoneAreLost == ASSUME L!TimesAssumption PROVE L!Spec => []L!LostIsGone
<1>1. L!Spec => []L!IInv BY WorkersInvariance
<1>2. L!IInv => L!LostIsGone BY DEF L!IInv
<1> QED BY <1>1, <1>2, PTL

--------------------------------------------------------------------------------
(* PreviewSlots                                                               *)

(* The types.                                                                      *)
LEMMA PreviewTypes == ASSUME P!ConstantsOK, P!IInv, [P!Next]_(P!vars) PROVE P!TypeOK'
<1> USE DEF P!ConstantsOK, P!IInv, P!TypeOK, P!Left
<1>1. CASE UNCHANGED P!vars
  BY <1>1 DEF P!vars
<1>2. CASE P!Expire
  BY <1>2 DEF P!Expire
<1>3. ASSUME NEW r \in Asks, P!Claim(r) PROVE P!TypeOK'
  BY <1>3 DEF P!Claim, P!Goto, P!Astray, P!Well
<1>4. ASSUME NEW r \in Asks, P!Send(r) PROVE P!TypeOK'
  BY <1>4 DEF P!Send, P!Goto, P!Astray, P!Well
<1>5. ASSUME NEW r \in Asks, P!Revoke(r) PROVE P!TypeOK'
  BY <1>5 DEF P!Revoke, P!Goto, P!Astray, P!Well, P!Stop
<1>6. ASSUME NEW r \in Asks, P!Begin(r) PROVE P!TypeOK'
  BY <1>6 DEF P!Begin
<1>7. ASSUME NEW r \in Asks, P!End(r) PROVE P!TypeOK'
  BY <1>7 DEF P!End
<1>8. ASSUME NEW r \in Asks, P!Answered(r) PROVE P!TypeOK'
  BY <1>8 DEF P!Answered, P!Goto
<1>9. ASSUME NEW r \in Asks, P!Superseded(r) PROVE P!TypeOK'
  BY <1>9 DEF P!Superseded, P!Goto
<1>10. ASSUME NEW r \in Asks, P!TimedOut(r) PROVE P!TypeOK'
  BY <1>10 DEF P!TimedOut, P!Goto, P!Stop
<1>11. ASSUME NEW r \in Asks, P!Free(r) PROVE P!TypeOK'
  BY <1>11 DEF P!Free, P!Goto, P!Astray, P!Well, P!Freed
<1>12. ASSUME NEW r \in Asks, P!Die(r) PROVE P!TypeOK'
  BY <1>12 DEF P!Die, P!Goto, P!Astray
<1> QED BY <1>1, <1>2, <1>3, <1>4, <1>5, <1>6, <1>7, <1>8, <1>9, <1>10, <1>11, <1>12 DEF P!Next

(* Who claims has nobody after it yet.                                             *)
LEMMA PreviewClaimed == ASSUME P!ConstantsOK, P!IInv, [P!Next]_(P!vars) PROVE P!Claimed'
<1> USE DEF P!ConstantsOK, P!IInv, P!TypeOK, P!Claimed, P!Left, P!LeftRightly
<1>1. CASE UNCHANGED P!vars
  BY <1>1 DEF P!vars
<1>2. CASE P!Expire
  BY <1>2 DEF P!Expire
<1>3. ASSUME NEW r \in Asks, P!Claim(r) PROVE P!Claimed'
  BY <1>3 DEF P!Claim, P!Goto, P!Astray, P!Well
<1>4. ASSUME NEW r \in Asks, P!Send(r) PROVE P!Claimed'
  BY <1>4 DEF P!Send, P!Goto, P!Astray, P!Well
<1>5. ASSUME NEW r \in Asks, P!Revoke(r) PROVE P!Claimed'
  BY <1>5 DEF P!Revoke, P!Goto, P!Astray, P!Well, P!Stop
<1>6. ASSUME NEW r \in Asks, P!Begin(r) PROVE P!Claimed'
  BY <1>6 DEF P!Begin
<1>7. ASSUME NEW r \in Asks, P!End(r) PROVE P!Claimed'
  BY <1>7 DEF P!End
<1>8. ASSUME NEW r \in Asks, P!Answered(r) PROVE P!Claimed'
  BY <1>8 DEF P!Answered, P!Goto
<1>9. ASSUME NEW r \in Asks, P!Superseded(r) PROVE P!Claimed'
  BY <1>9 DEF P!Superseded, P!Goto
<1>10. ASSUME NEW r \in Asks, P!TimedOut(r) PROVE P!Claimed'
  BY <1>10 DEF P!TimedOut, P!Goto, P!Stop
<1>11. ASSUME NEW r \in Asks, P!Free(r) PROVE P!Claimed'
  BY <1>11 DEF P!Free, P!Goto, P!Astray, P!Well, P!Freed
<1>12. ASSUME NEW r \in Asks, P!Die(r) PROVE P!Claimed'
  BY <1>12 DEF P!Die, P!Goto, P!Astray
<1> QED BY <1>1, <1>2, <1>3, <1>4, <1>5, <1>6, <1>7, <1>8, <1>9, <1>10, <1>11, <1>12 DEF P!Next

(* Whoever left has a task that is over, stopped or was passed.                    *)
LEMMA PreviewLeft == ASSUME P!ConstantsOK, P!IInv, [P!Next]_(P!vars) PROVE P!LeftRightly'
<1> USE DEF P!ConstantsOK, P!IInv, P!TypeOK, P!LeftRightly, P!Claimed, P!NewestIsHeard, P!Over, P!Left
<1>1. CASE UNCHANGED P!vars
  BY <1>1 DEF P!vars
<1>2. CASE P!Expire
  BY <1>2 DEF P!Expire
<1>3. ASSUME NEW r \in Asks, P!Claim(r) PROVE P!LeftRightly'
  BY <1>3 DEF P!Claim, P!Goto, P!Astray, P!Well
<1>4. ASSUME NEW r \in Asks, P!Send(r) PROVE P!LeftRightly'
  BY <1>4 DEF P!Send, P!Goto, P!Astray, P!Well
<1>5. ASSUME NEW r \in Asks, P!Revoke(r) PROVE P!LeftRightly'
  BY <1>5 DEF P!Revoke, P!Goto, P!Astray, P!Well, P!Stop
<1>6. ASSUME NEW r \in Asks, P!Begin(r) PROVE P!LeftRightly'
  BY <1>6 DEF P!Begin
<1>7. ASSUME NEW r \in Asks, P!End(r) PROVE P!LeftRightly'
  BY <1>7 DEF P!End
<1>8. ASSUME NEW r \in Asks, P!Answered(r) PROVE P!LeftRightly'
  BY <1>8 DEF P!Answered, P!Goto
<1>9. ASSUME NEW r \in Asks, P!Superseded(r) PROVE P!LeftRightly'
  BY <1>9 DEF P!Superseded, P!Goto
<1>10. ASSUME NEW r \in Asks, P!TimedOut(r) PROVE P!LeftRightly'
  BY <1>10 DEF P!TimedOut, P!Goto, P!Stop
<1>11. ASSUME NEW r \in Asks, P!Free(r) PROVE P!LeftRightly'
  BY <1>11 DEF P!Free, P!Goto, P!Astray, P!Well, P!Freed
<1>12. ASSUME NEW r \in Asks, P!Die(r) PROVE P!LeftRightly'
  BY <1>12 DEF P!Die, P!Goto, P!Astray
<1> QED BY <1>1, <1>2, <1>3, <1>4, <1>5, <1>6, <1>7, <1>8, <1>9, <1>10, <1>11, <1>12 DEF P!Next

(* The slot stays with the last that claimed it.                                   *)
LEMMA PreviewHeld == ASSUME P!ConstantsOK, P!IInv, [P!Next]_(P!vars) PROVE P!HeldByTheLast'
<1> USE DEF P!ConstantsOK, P!IInv, P!TypeOK, P!HeldByTheLast, P!Claimed, P!LeftRightly, P!NewestIsHeard, P!Over, P!Left
<1>1. CASE UNCHANGED P!vars
  BY <1>1 DEF P!vars
<1>2. CASE P!Expire
  BY <1>2 DEF P!Expire
<1>3. ASSUME NEW r \in Asks, P!Claim(r) PROVE P!HeldByTheLast'
  BY <1>3 DEF P!Claim, P!Goto, P!Astray, P!Well
<1>4. ASSUME NEW r \in Asks, P!Send(r) PROVE P!HeldByTheLast'
  BY <1>4 DEF P!Send, P!Goto, P!Astray, P!Well
<1>5. ASSUME NEW r \in Asks, P!Revoke(r) PROVE P!HeldByTheLast'
  BY <1>5 DEF P!Revoke, P!Goto, P!Astray, P!Well, P!Stop
<1>6. ASSUME NEW r \in Asks, P!Begin(r) PROVE P!HeldByTheLast'
  BY <1>6 DEF P!Begin
<1>7. ASSUME NEW r \in Asks, P!End(r) PROVE P!HeldByTheLast'
  BY <1>7 DEF P!End
<1>8. ASSUME NEW r \in Asks, P!Answered(r) PROVE P!HeldByTheLast'
  BY <1>8 DEF P!Answered, P!Goto
<1>9. ASSUME NEW r \in Asks, P!Superseded(r) PROVE P!HeldByTheLast'
  BY <1>9 DEF P!Superseded, P!Goto
<1>10. ASSUME NEW r \in Asks, P!TimedOut(r) PROVE P!HeldByTheLast'
  BY <1>10 DEF P!TimedOut, P!Goto, P!Stop
<1>11. ASSUME NEW r \in Asks, P!Free(r) PROVE P!HeldByTheLast'
  BY <1>11 DEF P!Free, P!Goto, P!Astray, P!Well, P!Freed
<1>12. ASSUME NEW r \in Asks, P!Die(r) PROVE P!HeldByTheLast'
  BY <1>12 DEF P!Die, P!Goto, P!Astray
<1> QED BY <1>1, <1>2, <1>3, <1>4, <1>5, <1>6, <1>7, <1>8, <1>9, <1>10, <1>11, <1>12 DEF P!Next

(* Whoever goes on to wait stopped the task it took the slot from.                 *)
LEMMA PreviewStopped == ASSUME P!ConstantsOK, P!IInv, [P!Next]_(P!vars) PROVE P!TakenThenStopped'
<1> USE DEF P!ConstantsOK, P!IInv, P!TypeOK, P!TakenThenStopped, P!Claimed, P!Left
<1>1. CASE UNCHANGED P!vars
  BY <1>1 DEF P!vars
<1>2. CASE P!Expire
  BY <1>2 DEF P!Expire
<1>3. ASSUME NEW r \in Asks, P!Claim(r) PROVE P!TakenThenStopped'
  BY <1>3 DEF P!Claim, P!Goto, P!Astray, P!Well
<1>4. ASSUME NEW r \in Asks, P!Send(r) PROVE P!TakenThenStopped'
  BY <1>4 DEF P!Send, P!Goto, P!Astray, P!Well
<1>5. ASSUME NEW r \in Asks, P!Revoke(r) PROVE P!TakenThenStopped'
  BY <1>5 DEF P!Revoke, P!Goto, P!Astray, P!Well, P!Stop
<1>6. ASSUME NEW r \in Asks, P!Begin(r) PROVE P!TakenThenStopped'
  BY <1>6 DEF P!Begin
<1>7. ASSUME NEW r \in Asks, P!End(r) PROVE P!TakenThenStopped'
  BY <1>7 DEF P!End
<1>8. ASSUME NEW r \in Asks, P!Answered(r) PROVE P!TakenThenStopped'
  BY <1>8 DEF P!Answered, P!Goto
<1>9. ASSUME NEW r \in Asks, P!Superseded(r) PROVE P!TakenThenStopped'
  BY <1>9 DEF P!Superseded, P!Goto
<1>10. ASSUME NEW r \in Asks, P!TimedOut(r) PROVE P!TakenThenStopped'
  BY <1>10 DEF P!TimedOut, P!Goto, P!Stop
<1>11. ASSUME NEW r \in Asks, P!Free(r) PROVE P!TakenThenStopped'
  BY <1>11 DEF P!Free, P!Goto, P!Astray, P!Well, P!Freed
<1>12. ASSUME NEW r \in Asks, P!Die(r) PROVE P!TakenThenStopped'
  BY <1>12 DEF P!Die, P!Goto, P!Astray
<1> QED BY <1>1, <1>2, <1>3, <1>4, <1>5, <1>6, <1>7, <1>8, <1>9, <1>10, <1>11, <1>12 DEF P!Next

(* The next to claim takes it from the last.                                       *)
LEMMA PreviewTaken == ASSUME P!ConstantsOK, P!IInv, [P!Next]_(P!vars) PROVE P!NextTookIt'
<1> USE DEF P!ConstantsOK, P!IInv, P!TypeOK, P!NextTookIt, P!Claimed, P!HeldByTheLast, P!Over, P!Left
<1>1. CASE UNCHANGED P!vars
  BY <1>1 DEF P!vars
<1>2. CASE P!Expire
  BY <1>2 DEF P!Expire
<1>3. ASSUME NEW r \in Asks, P!Claim(r) PROVE P!NextTookIt'
  BY <1>3, SMTT(30) DEF P!Claim, P!Goto, P!Astray, P!Well
<1>4. ASSUME NEW r \in Asks, P!Send(r) PROVE P!NextTookIt'
  BY <1>4 DEF P!Send, P!Goto, P!Astray, P!Well
<1>5. ASSUME NEW r \in Asks, P!Revoke(r) PROVE P!NextTookIt'
  BY <1>5 DEF P!Revoke, P!Goto, P!Astray, P!Well, P!Stop
<1>6. ASSUME NEW r \in Asks, P!Begin(r) PROVE P!NextTookIt'
  BY <1>6 DEF P!Begin
<1>7. ASSUME NEW r \in Asks, P!End(r) PROVE P!NextTookIt'
  BY <1>7 DEF P!End
<1>8. ASSUME NEW r \in Asks, P!Answered(r) PROVE P!NextTookIt'
  BY <1>8 DEF P!Answered, P!Goto
<1>9. ASSUME NEW r \in Asks, P!Superseded(r) PROVE P!NextTookIt'
  BY <1>9 DEF P!Superseded, P!Goto
<1>10. ASSUME NEW r \in Asks, P!TimedOut(r) PROVE P!NextTookIt'
  BY <1>10 DEF P!TimedOut, P!Goto, P!Stop
<1>11. ASSUME NEW r \in Asks, P!Free(r) PROVE P!NextTookIt'
  BY <1>11 DEF P!Free, P!Goto, P!Astray, P!Well, P!Freed
<1>12. ASSUME NEW r \in Asks, P!Die(r) PROVE P!NextTookIt'
  BY <1>12 DEF P!Die, P!Goto, P!Astray
<1> QED BY <1>1, <1>2, <1>3, <1>4, <1>5, <1>6, <1>7, <1>8, <1>9, <1>10, <1>11, <1>12 DEF P!Next

(* Only a request another came after is told so.                                   *)
LEMMA PreviewHeard == ASSUME P!ConstantsOK, P!IInv, [P!Next]_(P!vars) PROVE P!NewestIsHeard'
<1> USE DEF P!ConstantsOK, P!IInv, P!TypeOK, P!NewestIsHeard, P!Claimed, P!LeftRightly, P!HeldByTheLast, P!Left
<1>1. CASE UNCHANGED P!vars
  BY <1>1 DEF P!vars
<1>2. CASE P!Expire
  BY <1>2 DEF P!Expire
<1>3. ASSUME NEW r \in Asks, P!Claim(r) PROVE P!NewestIsHeard'
  BY <1>3 DEF P!Claim, P!Goto, P!Astray, P!Well
<1>4. ASSUME NEW r \in Asks, P!Send(r) PROVE P!NewestIsHeard'
  BY <1>4 DEF P!Send, P!Goto, P!Astray, P!Well
<1>5. ASSUME NEW r \in Asks, P!Revoke(r) PROVE P!NewestIsHeard'
  BY <1>5 DEF P!Revoke, P!Goto, P!Astray, P!Well, P!Stop
<1>6. ASSUME NEW r \in Asks, P!Begin(r) PROVE P!NewestIsHeard'
  BY <1>6 DEF P!Begin
<1>7. ASSUME NEW r \in Asks, P!End(r) PROVE P!NewestIsHeard'
  BY <1>7 DEF P!End
<1>8. ASSUME NEW r \in Asks, P!Answered(r) PROVE P!NewestIsHeard'
  BY <1>8 DEF P!Answered, P!Goto
<1>9. ASSUME NEW r \in Asks, P!Superseded(r) PROVE P!NewestIsHeard'
  BY <1>9 DEF P!Superseded, P!Goto
<1>10. ASSUME NEW r \in Asks, P!TimedOut(r) PROVE P!NewestIsHeard'
  BY <1>10 DEF P!TimedOut, P!Goto, P!Stop
<1>11. ASSUME NEW r \in Asks, P!Free(r) PROVE P!NewestIsHeard'
  BY <1>11 DEF P!Free, P!Goto, P!Astray, P!Well, P!Freed
<1>12. ASSUME NEW r \in Asks, P!Die(r) PROVE P!NewestIsHeard'
  BY <1>12 DEF P!Die, P!Goto, P!Astray
<1> QED BY <1>1, <1>2, <1>3, <1>4, <1>5, <1>6, <1>7, <1>8, <1>9, <1>10, <1>11, <1>12 DEF P!Next


LEMMA PreviewInit == ASSUME P!ConstantsOK, P!Init PROVE P!IInv
<1> USE DEF P!ConstantsOK, P!Init
<1>1. P!TypeOK BY DEF P!TypeOK
<1>2. P!Claimed BY DEF P!Claimed
<1>3. P!LeftRightly BY DEF P!LeftRightly
<1>4. P!HeldByTheLast BY DEF P!HeldByTheLast
<1>5. P!TakenThenStopped BY DEF P!TakenThenStopped
<1>6. P!NextTookIt BY DEF P!NextTookIt
<1>7. P!NewestIsHeard BY DEF P!NewestIsHeard
<1> QED BY <1>1, <1>2, <1>3, <1>4, <1>5, <1>6, <1>7 DEF P!IInv

(* Between a request that waits and one it came after, somebody took the slot from *)
(* the latter, and stopped its task, is about to, or had something happen to it.   *)
LEMMA PreviewOlder == ASSUME P!ConstantsOK, P!IInv PROVE P!OlderAreStopped
<1> SUFFICES ASSUME NEW q \in Asks, NEW r \in Asks,
                    at[r] = "wait", r \in later[q], pTask[q] \in {"queued", "running"}, q \notin revoked,
                    q \notin stray
             PROVE  \E s \in later[q] : /\ s = r \/ r \in later[s]
                                        /\ s \in stray \/ at[s] \in {"send", "revoke"}
  BY DEF P!OlderAreStopped
<1>1. ~P!Over(q)
  BY DEF P!Over
<1>2. PICK s \in later[q] : (s = r \/ r \in later[s]) /\ (s \in stray \/ previous[s] = q)
  BY <1>1 DEF P!IInv, P!NextTookIt
<1>3. s \in Asks /\ q # None
  BY DEF P!IInv, P!TypeOK, P!ConstantsOK
<1>4. previous[s] = q => at[s] \in {"send", "revoke"} \/ s \in stray
  BY <1>3 DEF P!IInv, P!TakenThenStopped
<1> QED BY <1>2, <1>4

LEMMA PreviewInvariance == ASSUME P!ConstantsOK PROVE P!Spec => []P!IInv
<1>1. P!Init => P!IInv BY PreviewInit
<1>2. P!IInv /\ [P!Next]_(P!vars) => P!IInv'
  BY PreviewTypes, PreviewClaimed, PreviewLeft, PreviewHeld, PreviewStopped, PreviewTaken, PreviewHeard DEF P!IInv
<1> QED BY <1>1, <1>2, PTL DEF P!Spec

(* Of the requests of one slot (preview_slots.py): who is told it was superseded, or*)
(* is stopped, has another after it, or its own claim was not answered; and when a  *)
(* request waits, the tasks of those before it are over or told to stop, but for    *)
(* those a fault happened to, or a request in between has yet to stop or never will.*)
THEOREM OnlyTheLastCounts == ASSUME P!ConstantsOK PROVE P!Spec => []P!OnlyTheNewest
<1>1. P!Spec => []P!IInv BY PreviewInvariance
<1>2. P!IInv => P!OnlyTheNewest BY PreviewOlder DEF P!IInv, P!OnlyTheNewest
<1> QED BY <1>1, <1>2, PTL

--------------------------------------------------------------------------------
(* The behaviours of MCEngine                                                 *)

(* Each part's behaviours, in those of the run: another part's step leaves it alone.*)
LEMMA Parts == MCSpec => Spec /\ P!Spec /\ X!Spec /\ L!Spec
<1>1. MCInit => Init /\ P!Init /\ X!Init /\ L!Init
  BY DEF MCInit
<1>2. [MCNext]_allVars => [Next]_vars
  BY DEF MCNext, allVars, vars
<1>3. [MCNext]_allVars => [P!Next]_(P!vars)
  BY DEF MCNext, allVars, pv, P!vars
<1>4. [MCNext]_allVars => [X!Next]_(X!vars)
  BY DEF MCNext, allVars, xv, X!vars
<1>5. [MCNext]_allVars => [L!Next]_(L!vars)
  BY DEF MCNext, allVars, lv, L!vars
<1> QED BY <1>1, <1>2, <1>3, <1>4, <1>5, PTL DEF MCSpec, Spec, P!Spec, X!Spec, L!Spec

(* The state of every part of the engine keeps its type.                           *)
THEOREM EngineTypes == MCSpec => []TypesOK
<1>1. Spec => []IInv
  BY ConstantsAssumption, Invariance
<1>2. P!Spec => []P!IInv
  BY ConstantsAssumption, PreviewInvariance
<1>3. X!Spec => []X!IInv
  BY ConstantsAssumption, ExportsInvariance
<1>4. L!Spec => []L!IInv
  BY ConstantsAssumption, WorkersInvariance
<1>5. IInv /\ P!IInv /\ X!IInv /\ L!IInv => TypesOK
  BY DEF IInv, P!IInv, X!IInv, L!IInv, TypesOK
<1> QED BY <1>1, <1>2, <1>3, <1>4, <1>5, Parts, PTL

(* The same of the slots (preview_slots.py, on_preview_worker) beside the rest of   *)
(* the engine.                                                                     *)
THEOREM PreviewsOfTheNewest == MCSpec => []OnlyTheNewest
<1>1. P!Spec => []P!OnlyTheNewest
  BY ConstantsAssumption, OnlyTheLastCounts
<1>2. P!OnlyTheNewest => OnlyTheNewest
  BY DEF OnlyTheNewest
<1> QED BY <1>1, <1>2, Parts, PTL

(* A person's exports keep the cap (export_slots.admit), those counted that waited  *)
(* within what their place allows for, beside the rest.                            *)
THEOREM ExportsWithinTheCap == MCSpec => []CapHolds
<1>1. X!Spec => []X!CapHolds
  BY ConstantsAssumption, NeverPastTheCap
<1>2. X!CapHolds => CapHolds
  BY DEF CapHolds
<1> QED BY <1>1, <1>2, Parts, PTL

(* No live task is said to be lost (worker_pool.lost), with at most one outage of   *)
(* a bounded length, beside the rest.                                              *)
THEOREM LostWithTheirWorker == MCSpec => []LostIsGone
<1>1. L!Spec => []L!LostIsGone
  BY ConstantsAssumption, OnlyTheGoneAreLost
<1>2. L!LostIsGone => LostIsGone
  BY DEF LostIsGone
<1> QED BY <1>1, <1>2, Parts, PTL
=================================================================================
