------------------------------- MODULE TileCache -------------------------------
(* The cache of one tile's numbers (src/backend/app/reports/tile_cache.py).       *)
(*                                                                                *)
(* A request asks the engine's API, which looks for the value named by the tile   *)
(* and by the generation of what it reads; whoever finds none takes the value's   *)
(* lock and sends the work to a worker, which reads the dataset's rows with a     *)
(* cache and a lock of their own: an entry in Valkey, saying of which generation  *)
(* they are, and a file on the bucket, whose name does not.  A refresh by hand    *)
(* writes a new generation.  Keys may expire, files be swept, work fail and       *)
(* processes die, and any call of Valkey or of the bucket may go unanswered,      *)
(* `Losses` times in all.  Valkey is asked as a courtesy (_safely): without an    *)
(* answer, and for a few seconds after, nothing is found, every lock is had, and  *)
(* nothing is written or given back.                                              *)
EXTENDS Naturals

CONSTANTS Requests,
          Gens,                 \* generations after the first, 0
          Changes,              \* how many times the source changes
          Losses,               \* how many keys, files, works, processes or answers are lost
          None, Failed

ConstantsOK == /\ Gens \in Nat /\ Changes \in Nat /\ Losses \in Nat
               /\ None \notin Requests /\ None \notin Nat
               /\ Failed # None /\ Failed \notin Nat

VARIABLES src,                  \* the version of the source's data
          gen, named,           \* the generation Valkey has, and the last one named
          floor,                \* by generation: what it promises, the source's version then
          value,                \* by generation: a version, Failed or None
          vlock, rlock,         \* who holds the value's lock and the rows'
          entry,                \* the rows' entry, [gen, says], or None
          file,                 \* the version of the rows in the file, or None
          strayed,              \* rows were written by who had not, or no more, their lock
          api, hash,            \* by request: where the API is, the generation it named
          wrk, ver, data,       \* and its worker, the generation it read, its rows
          works, spare, lost

vars == <<src, gen, named, floor, value, vlock, rlock, entry, file, strayed, api, hash,
          wrk, ver, data, works, spare, lost>>
keys == <<value, entry, file, strayed>>
shared == <<src, gen, named, floor>>
asks == <<api, hash>>
tasks == <<wrk, ver, data>>
locks == <<vlock, rlock>>
counts == <<works, spare, lost>>

G == 0..Gens
Versions == 0..Changes

TypeOK ==
  /\ src \in Versions /\ gen \in G /\ named \in G /\ floor \in [G -> Versions]
  /\ value \in [G -> Versions \union {Failed, None}]
  /\ vlock \in [G -> Requests \union {None}] /\ rlock \in Requests \union {None}
  /\ entry \in [gen : G, says : {"rows", "error"}] \union {None}
  /\ file \in Versions \union {None} /\ strayed \in BOOLEAN
  /\ api \in [Requests -> {"new", "look", "take", "locked", "waits", "answered", "dead"}]
  /\ wrk \in [Requests -> {"none", "version", "look", "take", "recheck", "read", "upload",
                           "remember", "file", "again", "ended", "failed", "dead"}]
  /\ hash \in [Requests -> G] /\ ver \in [Requests -> G]
  /\ data \in [Requests -> Versions]
  /\ works \in [G -> Nat] /\ spare \in [G -> Nat] /\ lost \in 0..Losses

Init ==
  /\ src = 0 /\ gen = 0 /\ named = 0 /\ floor = [g \in G |-> 0]
  /\ value = [g \in G |-> None] /\ entry = None /\ file = None /\ strayed = FALSE
  /\ vlock = [g \in G |-> None] /\ rlock = None
  /\ api = [r \in Requests |-> "new"] /\ hash = [r \in Requests |-> 0]
  /\ wrk = [r \in Requests |-> "none"] /\ ver = [r \in Requests |-> 0]
  /\ data = [r \in Requests |-> 0]
  /\ works = [g \in G |-> 0] /\ spare = [g \in G |-> 0] /\ lost = 0

ToApi(r, at) == api' = [api EXCEPT ![r] = at]
ToWrk(r, at) == wrk' = [wrk EXCEPT ![r] = at]
Lose == lost < Losses /\ lost' = lost + 1
Spare(g) == spare' = [spare EXCEPT ![g] = @ + 1]
Holds(r) == vlock[hash[r]] = r

(* `_RELEASE`: only one's own lock is given back; unanswered, it stays for a while.*)
Unlock(r) == vlock' = [vlock EXCEPT ![hash[r]] = IF @ = r THEN None ELSE @]
UnlockRows(r) == rlock' = IF rlock = r THEN None ELSE rlock
GiveBack(r) == (Unlock(r) /\ UNCHANGED lost) \/ (Lose /\ UNCHANGED vlock)
GiveBackRows(r) == (UnlockRows(r) /\ UNCHANGED lost) \/ (Lose /\ UNCHANGED rlock)
--------------------------------------------------------------------------------
(* The source's data change.                                                      *)
SourceChanges == src < Changes /\ src' = src + 1
                 /\ UNCHANGED <<gen, named, floor, keys, locks, asks, tasks, counts>>

(* `_asked`: the tile's name has the generation Valkey has.                       *)
Ask(r) == api[r] = "new" /\ ToApi(r, "look") /\ hash' = [hash EXCEPT ![r] = gen]
          /\ UNCHANGED <<shared, keys, locks, tasks, counts>>

(* A refresh by hand: a new generation is written first.                          *)
Refresh(r) ==
  /\ api[r] = "new" /\ named < Gens
  /\ named' = named + 1 /\ gen' = named + 1 /\ floor' = [floor EXCEPT ![named + 1] = src]
  /\ hash' = [hash EXCEPT ![r] = named + 1] /\ ToApi(r, "look")
  /\ UNCHANGED <<src, keys, locks, tasks, counts>>

(* `_once`: the value is there, or its lock is asked for.                         *)
Look(r) ==
  /\ api[r] = "look"
  /\ ToApi(r, IF value[hash[r]] # None THEN "answered" ELSE "take")
  /\ UNCHANGED <<shared, keys, locks, hash, tasks, counts>>

Take(r) ==
  /\ api[r] = "take"
  /\ IF vlock[hash[r]] = None
     THEN vlock' = [vlock EXCEPT ![hash[r]] = r] /\ ToApi(r, "locked")
     ELSE UNCHANGED vlock /\ \E at \in {"look", "answered"} : ToApi(r, at)   \* busy, too long
  /\ UNCHANGED <<shared, keys, rlock, hash, tasks, counts>>

(* Without an answer there is nobody to wait for: the tile is worked out with no  *)
(* lock, as one without a generation when that went unanswered already, and as one *)
(* of a generation that was not written when a refresh's did; such a one promises *)
(* no more than the one Valkey has.                                               *)
WorkAnyway(r, g) ==
  /\ Lose /\ ToApi(r, "waits") /\ ToWrk(r, "version") /\ Spare(g)
  /\ works' = [works EXCEPT ![g] = @ + 1]
  /\ UNCHANGED <<src, gen, keys, locks, ver, data>>

Unanswered(r) ==
  /\ api[r] \in {"look", "take"} /\ WorkAnyway(r, hash[r])
  /\ UNCHANGED <<named, floor, hash>>

AskUnanswered(r) ==
  /\ api[r] = "new" /\ WorkAnyway(r, 0) /\ hash' = [hash EXCEPT ![r] = 0]
  /\ UNCHANGED <<named, floor>>

RefreshUnwritten(r) ==
  /\ api[r] = "new" /\ named < Gens /\ WorkAnyway(r, named + 1)
  /\ named' = named + 1 /\ floor' = [floor EXCEPT ![named + 1] = floor[gen]]
  /\ hash' = [hash EXCEPT ![r] = named + 1]

(* Slip: no look under the lock.                                                  *)
NotLookedAgain(r) == FALSE

(* `_worked_out`: who held the lock may have finished between the look and it.    *)
WorkedOut(r) == value[hash[r]] # None

Recheck(r) ==
  /\ api[r] = "locked"
  /\ IF WorkedOut(r)
     THEN ToApi(r, "answered") /\ GiveBack(r) /\ UNCHANGED <<wrk, works>>
     ELSE /\ ToApi(r, "waits") /\ ToWrk(r, "version")
          /\ works' = [works EXCEPT ![hash[r]] = @ + 1] /\ UNCHANGED <<vlock, lost>>
  /\ UNCHANGED <<shared, keys, rlock, hash, ver, data, spare>>

(* That look unanswered, it is worked out whatever there is.                      *)
RecheckUnanswered(r) ==
  /\ api[r] = "locked" /\ WorkAnyway(r, hash[r]) /\ UNCHANGED <<named, floor, hash>>

(* `_keep_value`: what is too large is not kept, nor anything when Valkey is full *)
(* or does not answer; and then the lock is given back.                           *)
Keep(r, v) ==
  /\ \/ value' = [value EXCEPT ![hash[r]] = v] /\ GiveBack(r) /\ UNCHANGED spare
     \/ /\ Lose /\ UNCHANGED value /\ (Unlock(r) \/ UNCHANGED vlock)
        /\ IF Holds(r) THEN Spare(hash[r]) ELSE UNCHANGED spare
  /\ ToApi(r, "answered")
  /\ UNCHANGED <<shared, entry, file, strayed, rlock, hash, tasks, works>>

(* The worker's answer.                                                           *)
KeepValue(r) == api[r] = "waits" /\ wrk[r] = "ended" /\ Keep(r, data[r])

(* The work failed, its worker died, or it was waited for too long, when the worker*)
(* may go on: those waiting get the failure.                                      *)
KeepFailure(r) == api[r] = "waits" /\ wrk[r] # "ended" /\ Keep(r, Failed)
--------------------------------------------------------------------------------
(* `read_rows`: the generation the rows must be of, read first.                   *)
Version(r) == wrk[r] = "version" /\ ver' = [ver EXCEPT ![r] = gen] /\ ToWrk(r, "look")
              /\ UNCHANGED <<shared, keys, locks, asks, data, counts>>

(* `_rows_kept`: the entry counts when it is of that generation.                  *)
Kept(r) == entry # None /\ entry.gen = ver[r]
After(r, found, missing) == IF ~Kept(r) THEN missing
                            ELSE IF entry.says = "error" THEN "failed" ELSE found

LookForRows(r) == wrk[r] = "look" /\ ToWrk(r, After(r, "file", "take"))
                  /\ UNCHANGED <<shared, keys, locks, asks, ver, data, counts>>

(* `_from_file`: a file that is gone, or a bucket that does not answer, takes its *)
(* entry away, and the source is read once the lock is had.                       *)
FromFile(r) ==
  /\ wrk[r] \in {"file", "again"}
  /\ \/ /\ file # None /\ data' = [data EXCEPT ![r] = file] /\ ToWrk(r, "ended")
        /\ GiveBackRows(r) /\ UNCHANGED entry
     \/ /\ \/ file = None /\ entry' = None /\ UNCHANGED lost
           \/ Lose /\ entry' \in {None, entry}
        /\ ToWrk(r, IF wrk[r] = "again" THEN "read" ELSE "take") /\ UNCHANGED <<data, rlock>>
  /\ UNCHANGED <<shared, value, file, strayed, vlock, asks, ver, works, spare>>

TakeRows(r) ==
  /\ wrk[r] = "take"
  /\ IF rlock = None THEN rlock' = r /\ ToWrk(r, "recheck")
     ELSE UNCHANGED rlock /\ \E at \in {"look", "failed"} : ToWrk(r, at)   \* busy, too long
  /\ UNCHANGED <<shared, keys, vlock, asks, ver, data, counts>>

RecheckRows(r) ==
  /\ wrk[r] = "recheck" /\ ToWrk(r, After(r, "again", "read"))
  /\ IF After(r, "again", "read") = "failed" THEN GiveBackRows(r) ELSE UNCHANGED <<rlock, lost>>
  /\ UNCHANGED <<shared, keys, vlock, asks, ver, data, works, spare>>

(* Without an answer the source is read, with the lock or not.                    *)
RowsUnanswered(r) ==
  /\ wrk[r] \in {"version", "look", "take", "recheck"} /\ Lose /\ ToWrk(r, "read")
  /\ ver' = [ver EXCEPT ![r] = IF wrk[r] = "version" THEN 0 ELSE @]
  /\ UNCHANGED <<shared, keys, locks, asks, data, works, spare>>

(* Slip: the entry says the generation there is when it is written.               *)
GenerationAtTheEnd(r) == gen

(* `_read_and_keep`: the source is read, or fails and that is remembered.         *)
Generation(r) == ver[r]

Read(r) ==
  /\ wrk[r] = "read"
  /\ \/ data' = [data EXCEPT ![r] = src] /\ ToWrk(r, "upload")
        /\ UNCHANGED <<entry, rlock, lost>>
     \/ /\ Lose /\ entry' \in {[gen |-> Generation(r), says |-> "error"], entry}
        /\ ToWrk(r, "failed") /\ (UnlockRows(r) \/ UNCHANGED rlock) /\ UNCHANGED data
  /\ UNCHANGED <<shared, value, file, strayed, vlock, asks, ver, works, spare>>

Stray(r) == IF rlock = r THEN UNCHANGED strayed ELSE strayed' = TRUE

Upload(r) ==
  /\ wrk[r] = "upload"
  /\ \/ file' = data[r] /\ Stray(r) /\ ToWrk(r, "remember") /\ UNCHANGED <<rlock, lost>>
     \/ /\ Lose /\ ToWrk(r, "ended") /\ (UnlockRows(r) \/ UNCHANGED rlock)   \* not kept
        /\ UNCHANGED <<file, strayed>>
  /\ UNCHANGED <<shared, value, entry, vlock, asks, ver, data, works, spare>>

Remember(r) ==
  /\ wrk[r] = "remember" /\ ToWrk(r, "ended")
  /\ \/ /\ entry' = [gen |-> Generation(r), says |-> "rows"] /\ Stray(r) /\ GiveBackRows(r)
     \/ Lose /\ (UnlockRows(r) \/ UNCHANGED rlock) /\ UNCHANGED <<entry, strayed>>
  /\ UNCHANGED <<shared, value, file, vlock, asks, ver, data, works, spare>>
--------------------------------------------------------------------------------
(* A key's time ends, or the sweep or the room asked for takes a file away.       *)
ValueExpires(g) == /\ Lose /\ value[g] # None /\ value' = [value EXCEPT ![g] = None] /\ Spare(g)
                   /\ UNCHANGED <<shared, entry, file, strayed, locks, asks, tasks, works>>
EntryExpires == /\ Lose /\ entry # None /\ entry' = None
                /\ UNCHANGED <<shared, value, file, strayed, locks, asks, tasks, works, spare>>
FileSwept == /\ Lose /\ file # None /\ file' = None
             /\ UNCHANGED <<shared, value, entry, strayed, locks, asks, tasks, works, spare>>

(* Who dies while working a tile out leaves it to be worked out again.            *)
ApiDies(r) == /\ Lose /\ api[r] \in {"locked", "waits"} /\ ToApi(r, "dead")
              /\ IF api[r] = "waits" /\ Holds(r) THEN Spare(hash[r]) ELSE UNCHANGED spare
              /\ UNCHANGED <<shared, keys, locks, hash, tasks, works>>
WorkerDies(r) == /\ Lose /\ wrk[r] \notin {"none", "ended", "failed", "dead"} /\ ToWrk(r, "dead")
                 /\ UNCHANGED <<shared, keys, locks, asks, ver, data, works, spare>>

(* A lock ends by itself when nobody renews it (_kept): its holder is gone, or its*)
(* renewals go unanswered while it works.                                         *)
LockEnds(r) == /\ Holds(r) /\ Unlock(r)
               /\ \/ api[r] \in {"answered", "dead"} /\ UNCHANGED <<spare, lost>>
                  \/ api[r] = "waits" /\ Lose /\ Spare(hash[r])
               /\ UNCHANGED <<shared, keys, rlock, asks, tasks, works>>
RowsLockEnds(r) == /\ rlock = r /\ rlock' = None
                   /\ \/ wrk[r] \in {"ended", "failed", "dead"} /\ UNCHANGED lost
                      \/ Lose
                   /\ UNCHANGED <<shared, keys, vlock, asks, tasks, works, spare>>

Next ==
  \/ SourceChanges \/ EntryExpires \/ FileSwept
  \/ \E g \in G : ValueExpires(g)
  \/ \E r \in Requests :
       \/ Ask(r) \/ Refresh(r) \/ Look(r) \/ Take(r) \/ Recheck(r)
       \/ Unanswered(r) \/ AskUnanswered(r) \/ RefreshUnwritten(r) \/ RecheckUnanswered(r)
       \/ KeepValue(r) \/ KeepFailure(r) \/ Version(r) \/ LookForRows(r) \/ FromFile(r)
       \/ TakeRows(r) \/ RecheckRows(r) \/ RowsUnanswered(r)
       \/ Read(r) \/ Upload(r) \/ Remember(r)
       \/ ApiDies(r) \/ WorkerDies(r) \/ LockEnds(r) \/ RowsLockEnds(r)

Spec == Init /\ [][Next]_vars
--------------------------------------------------------------------------------
(* The numbers kept under a generation were read from the source after that       *)
(* generation was written: a refresh is never answered with what was there        *)
(* before it, however the reads of others, begun before it, end, until a worker   *)
(* that has lost the rows' lock, or never had it, writes them.                    *)
FreshAfterRefresh == ~strayed => \A g \in G : value[g] \in Versions => value[g] >= floor[g]

(* One computation per key: a tile is worked out again only for each value that   *)
(* expired or was not kept, each request that died or lost the lock while working *)
(* it out, and each that worked it out because Valkey did not answer.             *)
WorkedOutOnce == \A g \in G : works[g] <= 1 + spare[g]

(* Why the numbers are fresh: none is used before its generation is named, a      *)
(* worker looks for rows that promise what its request's generation does, and     *)
(* until rows are written without their lock, what a worker read, will read in the*)
(* file or, with the lock, is about to put there is of its generation.            *)
Ordered ==
  /\ gen <= named
  /\ \A g \in G : /\ floor[g] <= src
                  /\ IF g <= named THEN floor[g] <= floor[gen] ELSE value[g] = None
  /\ entry # None => entry.gen <= named
  /\ \A r \in Requests :
       /\ hash[r] <= named /\ ver[r] <= named
       /\ wrk[r] \in {"look", "take", "recheck", "file", "again"} => floor[hash[r]] <= floor[ver[r]]
       /\ api[r] = "new" => wrk[r] = "none"
Rows == entry # None /\ entry.says = "rows"
Writer(r) == rlock = r /\ wrk[r] \in {"upload", "remember"}
Readers == {r \in Requests : wrk[r] \in {"file", "again"}}
OwnRows ==
  \A r \in Requests : wrk[r] \in {"upload", "remember"} =>
     data[r] >= floor[ver[r]] /\ data[r] >= floor[hash[r]]
FileRecent ==
  /\ Rows /\ file # None => file >= floor[entry.gen]
  /\ \A r \in Readers : file # None => file >= floor[ver[r]]
  /\ \A r \in Requests : wrk[r] = "ended" => data[r] >= floor[hash[r]]
  /\ \A q \in Requests : Writer(q) =>
       /\ Rows => data[q] >= floor[entry.gen]
       /\ \A r \in Readers : data[q] >= floor[ver[r]]
       /\ wrk[q] = "remember" /\ file # None => file >= floor[ver[q]]
Recent == OwnRows /\ (~strayed => FileRecent)

(* And why they are worked out once: who may work a tile out has its lock, and    *)
(* besides what was lost only one was worked out, whose value is kept, or awaited *)
(* by who has the lock.                                                           *)
Exclusive == \A r \in Requests : api[r] = "locked" => Holds(r)
Awaited(g) == value[g] # None \/ \E r \in Requests : api[r] = "waits" /\ hash[r] = g /\ vlock[g] = r
Counted == \A g \in G : works[g] <= spare[g] + (IF Awaited(g) THEN 1 ELSE 0)

IInv == TypeOK /\ Ordered /\ Recent /\ FreshAfterRefresh /\ Exclusive /\ Counted
================================================================================
