------------------------- MODULE ScheduleSlotsProofs -------------------------
(***************************************************************************)
(* A slot is fired once, for any number of processes, requests and users,  *)
(* any schedules, crashes and failures, until a fire that failed moves the *)
(* slot without a condition.                                               *)
(***************************************************************************)
EXTENDS ScheduleSlots, TLAPS

\* The next slot, when there is one, is after the instant.
LEMMA NextFireAhead ==
  ASSUME NEW spec, NEW now \in Nat
  PROVE  /\ NextFire(spec, now) \in Nat
         /\ NextFire(spec, now) # None => /\ spec \in Schedules
                                          /\ NextFire(spec, now) \in Slots[spec]
                                          /\ NextFire(spec, now) > now
<1> DEFINE ahead == IF spec \in Schedules THEN {t \in Slots[spec] : t > now} ELSE {}
<1>1. CASE \E t \in ahead : \A u \in ahead : t <= u
  <2>1. NextFire(spec, now) \in ahead
    BY <1>1 DEF NextFire
  <2> QED
    BY <2>1, ConstantsAssumption
<1>2. CASE ~ \E t \in ahead : \A u \in ahead : t <= u
  <2>1. NextFire(spec, now) = None
    BY <1>2 DEF NextFire
  <2> QED
    BY <2>1 DEF None
<1> QED
  BY <1>1, <1>2

\* The slot moved forward stays within the columns.
LEMMA ForwardTypes ==
  ASSUME NEW spec, NEW now \in Nat, row \in Columns, Forward(spec, now)
  PROVE  /\ row' \in Columns
         /\ row'.next # None => row'.next > now
  BY NextFireAhead DEF Forward, Columns, Texts, Authors, None

\* What a request computes is within the columns, and to come.
LEMMA ScheduledAhead ==
  ASSUME NEW s \in Texts, NEW u \in Authors, clock \in Nat
  PROVE  /\ Scheduled(s, u, clock) \in Columns
         /\ Scheduled(s, u, clock).next # None => Scheduled(s, u, clock).next > clock
  BY NextFireAhead DEF Scheduled, Columns, Texts, Authors

\* Nothing scheduled is within the columns too.
LEMMA OffType == Off \in Columns
  BY DEF Off, Columns, Texts, Authors, None

\* What a tick of a process remembers.
TickState == [at : {"idle", "look", "read", "author", "disable", "take",
                    "launch", "advance", "write"},
              now : 0..Horizon, seen : 0..Horizon, spec : Texts, by : Authors]

\* The types, one variable at a time.
LEMMA TypesSplit ==
  SlotTypes <=> /\ clock \in 0..Horizon
                /\ row \in Columns
                /\ live \in BOOLEAN
                /\ active \subseteq Users
                /\ tick \in [Procs -> TickState]
                /\ \A p \in Procs : tick[p].at \notin {"idle", "look"} => tick[p].seen \in 1..tick[p].now
                /\ held \in [Requests -> [at : {"idle", "set", "save", "zone"}, read : Columns, row : Columns]]
                /\ fired \in [1..Horizon -> 0..2]
                /\ upsets \in Nat /\ blind \in BOOLEAN
  BY DEF SlotTypes, TickState

\* A tick that has not begun is well formed.
LEMMA NoTickType == NoTick \in TickState
  BY ConstantsAssumption DEF NoTick, TickState, Texts, Authors, None

\* The initial state satisfies the invariant.
LEMMA InitIInv == Init => IInv
<1> SUFFICES ASSUME Init PROVE IInv
  OBVIOUS
<1>1. row \in Columns
  <2>1. ASSUME NEW s \in Schedules, NEW u \in Users PROVE Scheduled(s, u, 0) \in Columns
    BY NextFireAhead DEF Scheduled, Columns, Texts, Authors
  <2> QED
    BY <2>1, OffType DEF Init
<1>2. tick \in [Procs -> TickState] /\ \A p \in Procs : tick[p].at = "idle" /\ tick[p].now = 0
  BY NoTickType DEF Init, NoTick
<1>3. held \in [Requests -> [at : {"idle", "set", "save", "zone"}, read : Columns, row : Columns]]
  BY OffType DEF Init, NoHold
<1>4. SlotTypes
  <2>1. clock \in 0..Horizon /\ fired \in [1..Horizon -> 0..2]
    BY ConstantsAssumption DEF Init
  <2>2. live \in BOOLEAN /\ active \subseteq Users /\ upsets \in Nat /\ blind \in BOOLEAN
    BY DEF Init
  <2>3. \A p \in Procs : tick[p].at \notin {"idle", "look"} => tick[p].seen \in 1..tick[p].now
    BY <1>2
  <2> QED
    BY <1>1, <1>2, <1>3, <2>1, <2>2, <2>3, TypesSplit
<1>5. InTime /\ Calm /\ HeldAhead
  BY <1>2 DEF Init, InTime, Calm, HeldAhead, NoHold, Off, None
<1>6. FiredBehind /\ LaunchedBehind
  BY <1>2 DEF Init, FiredBehind, LaunchedBehind, At
<1> QED
  BY <1>4, <1>5, <1>6 DEF IInv

\* A step of a tick that only moves the tick of its process along.
LEMMA TickMoves ==
  ASSUME IInv, NEW p \in Procs, NEW x \in TickState,
         tick' = [tick EXCEPT ![p] = x],
         x.at # "launch", x.now <= clock,
         x.at \notin {"idle", "look"} => x.seen \in 1..x.now,
         UNCHANGED <<clock, held, fired>>,
         row' \in Columns, live' \in BOOLEAN, active' \subseteq Users, upsets' \in Nat,
         blind' \in BOOLEAN, row'.next # None => row' = row
  PROVE  IInv'
<1>1. tick'[p] = x /\ \A q \in Procs : q # p => tick'[q] = tick[q]
  BY TypesSplit DEF IInv
<1>2. SlotTypes'
  <2>1. tick' \in [Procs -> TickState]
    BY TypesSplit DEF IInv
  <2>2. \A q \in Procs : tick'[q].at \notin {"idle", "look"} => tick'[q].seen \in 1..tick'[q].now
    BY <1>1, TypesSplit DEF IInv
  <2> QED
    BY <2>1, <2>2, TypesSplit DEF SlotTypes, IInv, TickState
<1>3. InTime' /\ Calm' /\ HeldAhead'
  BY <1>1 DEF IInv, InTime, Calm, HeldAhead
<1>4. \A t : Behind(t) => Behind(t)'
  BY DEF Behind
<1>5. \A q \in Procs : At(q, "launch")' => q # p /\ At(q, "launch") /\ tick'[q] = tick[q]
  BY <1>1 DEF At
<1>6. FiredBehind'
  BY <1>4, <1>5 DEF IInv, FiredBehind
<1>7. LaunchedBehind'
  BY <1>4, <1>5 DEF IInv, LaunchedBehind
<1> QED
  BY <1>2, <1>3, <1>6, <1>7 DEF IInv

\* The steps of a tick that only move it along.
LEMMA QuietTicks ==
  ASSUME IInv, NEW p \in Procs,
         \/ BeginTick(p) \/ Look(p) \/ ReadRow(p) \/ CheckAuthor(p) \/ Disable(p)
         \/ Fail(p) \/ AdvanceRead(p) \/ Crash(p)
  PROVE  IInv'
<1>1. tick[p] \in TickState /\ clock \in 0..Horizon /\ row \in Columns /\ tick[p].now <= clock
  BY TypesSplit DEF IInv, InTime
<1>2. tick[p].at \notin {"idle", "look"} => tick[p].seen \in 1..tick[p].now
  BY TypesSplit DEF IInv
<1>3. live \in BOOLEAN /\ active \subseteq Users /\ upsets \in Nat /\ blind \in BOOLEAN
  BY TypesSplit DEF IInv
<1>4. NoTick \in TickState /\ NoTick.at = "idle" /\ NoTick.now <= clock
  BY <1>1, NoTickType DEF NoTick
<1>5. CASE BeginTick(p)
  <2> DEFINE x == [NoTick EXCEPT !.at = "look", !.now = clock]
  <2>1. x \in TickState /\ x.at = "look" /\ x.now = clock
    BY <1>1, <1>4 DEF TickState, NoTick
  <2>2. tick' = [tick EXCEPT ![p] = x]
    BY <1>5 DEF BeginTick
  <2> HIDE DEF x
  <2>3. clock <= clock /\ UNCHANGED <<clock, row, live, active, held, fired, upsets, blind>>
    BY <1>1, <1>5 DEF BeginTick
  <2> QED
    BY <1>1, <1>3, <2>1, <2>2, <2>3, TickMoves
<1>6. CASE Look(p)
  <2>1. CASE Due(p)
    <3> DEFINE x == [tick[p] EXCEPT !.at = "read", !.seen = row.next]
    <3>1. row.next \in 1..tick[p].now
      <4>1. row.next \in Nat /\ tick[p].now \in Nat
        BY <1>1 DEF Columns, TickState
      <4> QED
        BY <2>1, <4>1, SMT DEF Due, None
    <3>a. row.next \in 0..Horizon
      BY <1>1, <3>1, ConstantsAssumption DEF TickState
    <3>2. x \in TickState /\ x.at = "read" /\ x.now = tick[p].now /\ x.seen = row.next
      BY <1>1, <3>a DEF TickState
    <3>3. tick' = [tick EXCEPT ![p] = x]
      BY <1>6, <2>1, TypesSplit DEF Look, IInv
    <3> HIDE DEF x
    <3> QED
      BY <1>1, <1>3, <1>6, <3>1, <3>2, <3>3, TickMoves DEF Look
  <2>2. CASE ~Due(p)
    BY <1>1, <1>3, <1>4, <1>6, <2>2, TickMoves DEF Look, EndTick
  <2> QED
    BY <2>1, <2>2
<1>7. CASE ReadRow(p)
  <2> DEFINE x == [tick[p] EXCEPT !.at = "author", !.spec = row.spec, !.by = row.by]
  <2>1. x \in TickState /\ x.at = "author" /\ x.now = tick[p].now /\ x.seen = tick[p].seen
    BY <1>1 DEF TickState, Columns
  <2>2. tick' = [tick EXCEPT ![p] = x]
    BY <1>7, TypesSplit DEF ReadRow, IInv
  <2>3. x.seen \in 1..x.now
    BY <1>2, <1>7, <2>1 DEF ReadRow, At
  <2> HIDE DEF x
  <2> QED
    BY <1>1, <1>3, <1>7, <2>1, <2>2, <2>3, TickMoves DEF ReadRow
<1>8. CASE CheckAuthor(p)
  <2> DEFINE x == [tick[p] EXCEPT !.at = IF tick[p].by \in active THEN "take" ELSE "disable"]
  <2>1. x \in TickState /\ x.at \in {"take", "disable"} /\ x.now = tick[p].now /\ x.seen = tick[p].seen
    BY <1>1 DEF TickState
  <2>2. tick' = [tick EXCEPT ![p] = x]
    BY <1>8, TypesSplit DEF CheckAuthor, Goto, IInv
  <2>3. x.seen \in 1..x.now
    BY <1>2, <1>8, <2>1 DEF CheckAuthor, At
  <2> HIDE DEF x
  <2> QED
    BY <1>1, <1>3, <1>8, <2>1, <2>2, <2>3, TickMoves DEF CheckAuthor
<1>9. CASE Disable(p)
  <2>1. Off.next = None
    BY DEF Off
  <2> QED
    BY <1>1, <1>3, <1>4, <1>9, <2>1, OffType, TickMoves DEF Disable, EndTick
<1>10. CASE Crash(p)
  <2>1. upsets' \in Nat /\ UNCHANGED <<clock, row, live, active, held, fired, blind>>
    BY <1>3, <1>10 DEF Crash, Upset
  <2>2. tick' = [tick EXCEPT ![p] = NoTick]
    BY <1>10 DEF Crash, EndTick
  <2> QED
    BY <1>1, <1>3, <1>4, <2>1, <2>2, TickMoves
<1>11. CASE Fail(p)
  <2>1. upsets' \in Nat /\ UNCHANGED <<clock, row, live, active, held, fired, blind>>
    BY <1>3, <1>11 DEF Fail, Upset
  <2>2. CASE EndTick(p)
    BY <1>1, <1>3, <1>4, <2>1, <2>2, TickMoves DEF EndTick
  <2>3. CASE Goto(p, "advance")
    <3> DEFINE x == [tick[p] EXCEPT !.at = "advance"]
    <3>1. x \in TickState /\ x.at = "advance" /\ x.now = tick[p].now /\ x.seen = tick[p].seen
      BY <1>1 DEF TickState
    <3>2. tick' = [tick EXCEPT ![p] = x]
      BY <2>3, TypesSplit DEF Goto, IInv
    <3>3. x.seen \in 1..x.now
      BY <1>2, <1>11, <3>1 DEF Fail
    <3> HIDE DEF x
    <3> QED
      BY <1>1, <1>3, <2>1, <3>1, <3>2, <3>3, TickMoves
  <2> QED
    BY <1>11, <2>2, <2>3 DEF Fail
<1>12. CASE AdvanceRead(p)
  <2> DEFINE x == [tick[p] EXCEPT !.at = "write", !.spec = row.spec]
  <2>1. x \in TickState /\ x.at = "write" /\ x.now = tick[p].now /\ x.seen = tick[p].seen
    BY <1>1 DEF TickState, Columns
  <2>2. tick' = [tick EXCEPT ![p] = x]
    BY <1>12, TypesSplit DEF AdvanceRead, IInv
  <2>3. x.seen \in 1..x.now
    BY <1>2, <1>12, <2>1 DEF AdvanceRead, At
  <2> HIDE DEF x
  <2> QED
    BY <1>1, <1>3, <1>12, <2>1, <2>2, <2>3, TickMoves DEF AdvanceRead
<1> QED
  BY <1>5, <1>6, <1>7, <1>8, <1>9, <1>10, <1>11, <1>12

\* Taking a slot leaves what was behind behind, and the slot with it.
LEMMA TakenBehind ==
  ASSUME IInv, NEW p \in Procs, At(p, "take"), StillThere(p),
         Forward(tick[p].spec, tick[p].now), UNCHANGED clock
  PROVE  /\ row' \in Columns
         /\ tick[p].seen \in 1..Horizon
         /\ \A t : t = tick[p].seen => Behind(t)'
         /\ \A t \in Nat : Behind(t) => Behind(t)' /\ t # tick[p].seen
<1>1. /\ tick[p] \in TickState /\ clock \in 0..Horizon /\ row \in Columns
      /\ tick[p].now <= clock /\ tick[p].seen \in 1..tick[p].now
  BY TypesSplit DEF IInv, InTime, At
<1>2. tick[p].now \in Nat /\ tick[p].seen \in Nat /\ row.next \in Nat /\ clock \in Nat
  BY <1>1 DEF TickState, Columns
<1>3. row' \in Columns /\ (row'.next # None => row'.next > tick[p].now)
  BY <1>1, <1>2, ForwardTypes
<1>4. row'.next \in Nat
  BY <1>3 DEF Columns
<1>5. tick[p].seen \in 1..Horizon
  BY <1>1, <1>2, ConstantsAssumption
<1>6. row.next = tick[p].seen /\ row.next # None
  BY DEF StillThere
<1>7. tick[p].seen <= clock' /\ (row'.next # None => tick[p].seen < row'.next)
  BY <1>1, <1>2, <1>3, <1>4
<1> QED
  BY <1>1, <1>2, <1>3, <1>4, <1>5, <1>6, <1>7 DEF Behind

\* A process launches: the slot it took, behind the next one, is fired for the first time.
LEMMA FireKeeps ==
  ASSUME IInv, NEW p \in Procs, NEW t \in 1..Horizon, tick[p].seen = t,
         tick[p].at \in {"take", "launch"},
         fired[t] = 0, \A q \in Procs \ {p} : At(q, "launch") => tick[q].seen # t,
         Fire(p), UNCHANGED <<clock, active, held>>, upsets' \in Nat, blind' \in BOOLEAN,
         NEW x \in TickState, tick' = [tick EXCEPT ![p] = x], x.at # "launch", x.now <= clock,
         x.at \notin {"idle", "look"} => x.seen \in 1..x.now,
         row' \in Columns, Behind(t)',
         \A u \in Nat : Behind(u) => Behind(u)'
  PROVE  IInv'
<1>1. tick'[p] = x /\ \A q \in Procs : q # p => tick'[q] = tick[q]
  BY TypesSplit DEF IInv
<1>2. fired' \in [1..Horizon -> 0..2]
  <2>1. fired \in [1..Horizon -> 0..2]
    BY TypesSplit DEF IInv
  <2> QED
    BY <2>1 DEF Fire
<1>3. \A u \in 1..Horizon : fired'[u] > 0 => (u = t /\ fired'[u] = 1) \/ (fired[u] > 0 /\ fired'[u] = fired[u])
  <2>1. fired \in [1..Horizon -> 0..2]
    BY TypesSplit DEF IInv
  <2> QED
    BY <2>1 DEF Fire
<1>4. SlotTypes'
  <2>1. tick' \in [Procs -> TickState]
    BY TypesSplit DEF IInv
  <2>2. \A q \in Procs : tick'[q].at \notin {"idle", "look"} => tick'[q].seen \in 1..tick'[q].now
    BY <1>1, TypesSplit DEF IInv
  <2>3. live' \in BOOLEAN
    BY DEF Fire
  <2> QED
    BY <1>2, <2>1, <2>2, <2>3, TypesSplit DEF SlotTypes, IInv, TickState
<1>5. InTime' /\ Calm' /\ HeldAhead'
  BY <1>1 DEF IInv, InTime, Calm, HeldAhead
<1>6. \A q \in Procs : At(q, "launch")' => q # p /\ At(q, "launch") /\ tick'[q] = tick[q]
  BY <1>1 DEF At
<1>7. FiredBehind'
  <2> SUFFICES ASSUME NEW u \in 1..Horizon, fired'[u] > 0
               PROVE  /\ fired'[u] = 1 /\ Behind(u)'
                      /\ \A q \in Procs : At(q, "launch")' => tick'[q].seen # u
    BY DEF FiredBehind
  <2>1. CASE u = t /\ fired'[u] = 1
    BY <1>6, <2>1
  <2>2. CASE fired[u] > 0 /\ fired'[u] = fired[u]
    <3>1. fired[u] = 1 /\ Behind(u) /\ \A q \in Procs : At(q, "launch") => tick[q].seen # u
      BY <2>2 DEF IInv, FiredBehind
    <3>2. u \in Nat
      BY ConstantsAssumption
    <3> QED
      BY <1>6, <2>2, <3>1, <3>2
  <2> QED
    BY <1>3, <2>1, <2>2
<1>8. LaunchedBehind'
  <2>1. \A q \in Procs : At(q, "launch") => tick[q].seen \in Nat
    BY TypesSplit DEF IInv, TickState
  <2>2. \A q \in Procs : At(q, "launch") => Behind(tick[q].seen)
    BY DEF IInv, LaunchedBehind
  <2>3. \A q \in Procs : \A u : At(q, "launch")' /\ u = tick'[q].seen => Behind(u)'
    BY <1>6, <2>1, <2>2
  <2>4. \A q \in Procs : At(q, "launch")' => \A r \in Procs \ {q} : At(r, "launch")' => tick'[r].seen # tick'[q].seen
    BY <1>6 DEF IInv, LaunchedBehind
  <2> QED
    BY <2>3, <2>4 DEF LaunchedBehind, Behind, At
<1> QED
  BY <1>4, <1>5, <1>7, <1>8 DEF IInv

\* Where a take leaves its tick: ended, launching, or on its way to move the slot forward.
LEMMA TakeTick ==
  ASSUME IInv, NEW p \in Procs, Take(p), StillThere(p)
  PROVE  \E x \in TickState :
            /\ tick' = [tick EXCEPT ![p] = x]
            /\ x.at \in {"idle", "launch", "advance"} /\ x.now <= clock
            /\ Queued => x.at # "launch"
            /\ x.at # "idle" => x.seen = tick[p].seen /\ x.seen \in 1..x.now
<1>1. /\ tick[p] \in TickState /\ tick \in [Procs -> TickState] /\ clock \in 0..Horizon
      /\ tick[p].now <= clock /\ tick[p].seen \in 1..tick[p].now
  BY TypesSplit DEF IInv, InTime, Take, At
<1>2. CASE EndTick(p)
  <2>1. NoTick \in TickState /\ NoTick.at = "idle" /\ NoTick.now <= clock
    BY <1>1, NoTickType DEF NoTick
  <2> QED
    BY <1>2, <2>1 DEF EndTick
<1>3. ASSUME NEW label \in {"launch", "advance"}, Goto(p, label), Queued => label # "launch"
      PROVE  \E x \in TickState :
                /\ tick' = [tick EXCEPT ![p] = x]
                /\ x.at \in {"idle", "launch", "advance"} /\ x.now <= clock
                /\ Queued => x.at # "launch"
                /\ x.at # "idle" => x.seen = tick[p].seen /\ x.seen \in 1..x.now
  <2> DEFINE x == [tick[p] EXCEPT !.at = label]
  <2>1. x \in TickState /\ x.at = label /\ x.now = tick[p].now /\ x.seen = tick[p].seen
    BY <1>1 DEF TickState
  <2>2. tick' = [tick EXCEPT ![p] = x]
    BY <1>1, <1>3 DEF Goto
  <2> HIDE DEF x
  <2> QED
    BY <1>1, <1>3, <2>1, <2>2
<1>4. EndTick(p) \/ Goto(p, "advance") \/ (Goto(p, "launch") /\ ~Queued)
  BY DEF Take
<1> QED
  BY <1>2, <1>3, <1>4

\* The slot of the row taken: fired with the take, or about to be launched.
LEMMA TakeKeeps == ASSUME IInv, NEW p \in Procs, Take(p) PROVE IInv'
<1>1. /\ tick[p] \in TickState /\ clock \in 0..Horizon /\ row \in Columns
      /\ tick[p].now <= clock /\ tick[p].seen \in 1..tick[p].now
      /\ live \in BOOLEAN /\ active \subseteq Users /\ upsets \in Nat /\ blind \in BOOLEAN
      /\ fired \in [1..Horizon -> 0..2]
  BY TypesSplit DEF IInv, InTime, Take, At
<1>2. At(p, "take") /\ UNCHANGED <<clock, active, held>>
  BY DEF Take
<1>3. CASE ~StillThere(p)
  <2>1. EndTick(p) /\ UNCHANGED <<row, live, fired, upsets, blind>>
    BY <1>3 DEF Take
  <2>2. tick' = [tick EXCEPT ![p] = NoTick]
    BY <2>1 DEF EndTick
  <2>3. NoTick \in TickState /\ NoTick.at = "idle" /\ NoTick.now <= clock
    BY <1>1, NoTickType DEF NoTick
  <2> QED
    BY <1>1, <1>2, <2>1, <2>2, <2>3, TickMoves
<1>4. CASE StillThere(p)
  <2>1. /\ Forward(tick[p].spec, tick[p].now) /\ upsets' \in Nat /\ blind' \in BOOLEAN
        /\ IF Queued THEN Fire(p) ELSE UNCHANGED <<live, fired>>
    BY <1>1, <1>4 DEF Take, Upset
  <2>x. PICK x \in TickState :
           /\ tick' = [tick EXCEPT ![p] = x]
           /\ x.at \in {"idle", "launch", "advance"} /\ x.now <= clock
           /\ Queued => x.at # "launch"
           /\ x.at # "idle" => x.seen = tick[p].seen /\ x.seen \in 1..x.now
    BY <1>4, TakeTick
  <2>2. /\ row' \in Columns
        /\ tick[p].seen \in 1..Horizon
        /\ \A t : t = tick[p].seen => Behind(t)'
        /\ \A t \in Nat : Behind(t) => Behind(t)' /\ t # tick[p].seen
    BY <1>2, <1>4, <2>1, TakenBehind
  <2>3. \A t \in 1..Horizon : fired[t] > 0 => t # tick[p].seen
    <3>1. \A t \in 1..Horizon : t \in Nat
      BY ConstantsAssumption
    <3> QED
      BY <2>2, <3>1 DEF IInv, FiredBehind
  <2>4. fired[tick[p].seen] = 0
    BY <1>1, <2>2, <2>3
  <2>5. \A q \in Procs : At(q, "launch") => tick[q].seen # tick[p].seen /\ tick[q].seen \in Nat
    <3>1. \A q \in Procs : At(q, "launch") => tick[q].seen \in Nat
      BY TypesSplit DEF IInv, TickState
    <3>2. \A q \in Procs : \A t : At(q, "launch") /\ t = tick[q].seen => Behind(t)
      BY DEF IInv, LaunchedBehind
    <3> QED
      BY <2>2, <3>1, <3>2
  <2>6. CASE Queued
    <3>1. Fire(p) /\ x.at # "launch" /\ (x.at \notin {"idle", "look"} => x.seen \in 1..x.now)
      BY <2>1, <2>6, <2>x
    <3>2. tick[p].at \in {"take", "launch"}
      BY <1>2 DEF At
    <3>3. PICK t \in 1..Horizon : tick[p].seen = t
      BY <2>2
    <3>4. fired[t] = 0 /\ Behind(t)' /\ \A q \in Procs \ {p} : At(q, "launch") => tick[q].seen # t
      BY <2>2, <2>4, <2>5, <3>3
    <3> QED
      BY <1>2, <2>1, <2>2, <2>x, <3>1, <3>2, <3>3, <3>4, FireKeeps
  <2>7. CASE ~Queued
    <3>1. tick' = [tick EXCEPT ![p] = x] /\ UNCHANGED <<live, fired>>
      BY <2>1, <2>7, <2>x
    <3>2. /\ x.at # "look" /\ x.now <= clock
          /\ x.at # "idle" => x.seen = tick[p].seen /\ x.seen \in 1..x.now
      BY <2>x
    <3>3. tick'[p] = x /\ \A q \in Procs : q # p => tick'[q] = tick[q]
      BY <3>1, TypesSplit DEF IInv
    <3>4. SlotTypes'
      <4>1. tick' \in [Procs -> TickState]
        BY <3>1, <3>2, TypesSplit DEF IInv
      <4>2. \A q \in Procs : tick'[q].at \notin {"idle", "look"} => tick'[q].seen \in 1..tick'[q].now
        BY <1>1, <3>2, <3>3, TypesSplit DEF IInv
      <4> QED
        BY <1>2, <2>1, <2>2, <3>1, <4>1, <4>2, TypesSplit DEF SlotTypes, IInv, TickState
    <3>5. InTime' /\ Calm' /\ HeldAhead'
      <4>1. InTime'
        BY <1>1, <1>2, <3>2, <3>3 DEF IInv, InTime
      <4>2. Calm'
        BY <1>2, <3>2, <3>3 DEF IInv, Calm
      <4>3. HeldAhead'
        BY <1>2 DEF IInv, HeldAhead
      <4> QED
        BY <4>1, <4>2, <4>3
    <3>6. FiredBehind'
      <4> SUFFICES ASSUME NEW u \in 1..Horizon, fired[u] > 0
                   PROVE  /\ fired[u] = 1 /\ Behind(u)'
                          /\ \A q \in Procs : At(q, "launch")' => tick'[q].seen # u
        BY <3>1 DEF FiredBehind
      <4>1. fired[u] = 1 /\ Behind(u) /\ \A q \in Procs : At(q, "launch") => tick[q].seen # u
        BY DEF IInv, FiredBehind
      <4>2. u \in Nat
        BY ConstantsAssumption
      <4> QED
        BY <2>2, <3>2, <3>3, <4>1, <4>2 DEF At
    <3>7. LaunchedBehind'
      <4>1. \A q \in Procs : \A u : At(q, "launch")' /\ u = tick'[q].seen => Behind(u)'
        <5> SUFFICES ASSUME NEW q \in Procs, NEW u, At(q, "launch")', u = tick'[q].seen
                     PROVE  Behind(u)'
          OBVIOUS
        <5>1. CASE q = p
          <6>1. x.at = "launch"
            BY <3>3, <5>1 DEF At
          <6> QED
            BY <2>2, <3>2, <3>3, <5>1, <6>1
        <5>2. CASE q # p
          <6>1. At(q, "launch") /\ u = tick[q].seen
            BY <3>3, <5>2 DEF At
          <6>2. Behind(u) /\ u \in Nat
            BY <2>5, <6>1 DEF IInv, LaunchedBehind
          <6> QED
            BY <2>2, <6>2
        <5> QED
          BY <5>1, <5>2
      <4>2. \A q \in Procs : At(q, "launch")' =>
              \A r \in Procs \ {q} : At(r, "launch")' => tick'[r].seen # tick'[q].seen
        BY <2>5, <3>2, <3>3 DEF IInv, LaunchedBehind, At
      <4> QED
        BY <4>1, <4>2 DEF LaunchedBehind, Behind, At
    <3> QED
      BY <3>4, <3>5, <3>6, <3>7 DEF IInv
  <2> QED
    BY <2>6, <2>7
<1> QED
  BY <1>3, <1>4

\* The slot taken before is launched.
LEMMA LaunchKeeps == ASSUME IInv, NEW p \in Procs, Launch(p) PROVE IInv'
<1>1. /\ tick[p].seen \in 1..tick[p].now /\ tick[p] \in TickState /\ clock \in 0..Horizon
      /\ row \in Columns /\ fired \in [1..Horizon -> 0..2]
  BY TypesSplit DEF IInv, Launch, At
<1>2. At(p, "launch") /\ Fire(p) /\ EndTick(p) /\ UNCHANGED <<clock, row, active, held, upsets, blind>>
  BY DEF Launch
<1>3. PICK t \in 1..Horizon : tick[p].seen = t
  <2>1. tick[p].now \in 0..Horizon
    BY <1>1 DEF TickState
  <2> QED
    BY <1>1, <2>1, ConstantsAssumption
<1>4. \A u : Behind(u) => Behind(u)'
  <2>1. clock' = clock /\ row' = row
    BY <1>2
  <2> QED
    BY <2>1 DEF Behind
<1>5. Behind(t)
  BY <1>2, <1>3 DEF IInv, LaunchedBehind
<1>6. fired[t] = 0
  BY <1>1, <1>2, <1>3 DEF IInv, FiredBehind
<1>7. \A q \in Procs \ {p} : At(q, "launch") => tick[q].seen # t
  BY <1>2, <1>3 DEF IInv, LaunchedBehind
<1>8. tick[p].at \in {"take", "launch"}
  BY <1>2 DEF At
<1>9. Behind(t)' /\ row' \in Columns
  BY <1>1, <1>2, <1>4, <1>5
<1>10. /\ NoTick \in TickState /\ tick' = [tick EXCEPT ![p] = NoTick]
       /\ NoTick.at = "idle" /\ NoTick.now <= clock /\ upsets' \in Nat /\ blind' \in BOOLEAN
  BY <1>1, <1>2, NoTickType, TypesSplit DEF EndTick, NoTick, IInv
<1> QED
  BY <1>2, <1>3, <1>4, <1>6, <1>7, <1>8, <1>9, <1>10, FireKeeps

\* A step that leaves the ticks and the launches alone, and writes no slot that has come.
LEMMA WorldMoves ==
  ASSUME IInv, UNCHANGED <<tick, fired>>, SlotTypes', Calm', HeldAhead',
         clock' \in Nat, clock' >= clock, row'.next # None => row'.next = row.next \/ row'.next > clock
  PROVE  IInv'
<1>1. /\ clock \in Nat /\ tick \in [Procs -> TickState] /\ row \in Columns /\ row' \in Columns
  BY TypesSplit, ConstantsAssumption DEF IInv, SlotTypes
<1>2. \A t \in Nat : Behind(t) => Behind(t)'
  BY <1>1 DEF Behind, Columns
<1>3. InTime'
  BY <1>1 DEF IInv, InTime, TickState
<1>4. FiredBehind'
  <2>1. \A t \in 1..Horizon : t \in Nat
    BY ConstantsAssumption
  <2> QED
    BY <1>2, <2>1 DEF IInv, FiredBehind, At
<1>5. LaunchedBehind'
  <2>1. \A q \in Procs : tick[q].seen \in Nat
    BY <1>1 DEF TickState
  <2>2. \A q \in Procs : \A u : At(q, "launch") /\ u = tick[q].seen => Behind(u)
    BY DEF IInv, LaunchedBehind
  <2>3. \A q \in Procs : \A u : At(q, "launch") /\ u = tick[q].seen => Behind(u)'
    BY <1>2, <2>1, <2>2
  <2>4. \A q \in Procs : At(q, "launch") => \A r \in Procs \ {q} : At(r, "launch") => tick[r].seen # tick[q].seen
    BY DEF IInv, LaunchedBehind
  <2> QED
    BY <2>3, <2>4 DEF LaunchedBehind, Behind, At
<1> QED
  BY <1>3, <1>4, <1>5 DEF IInv

\* The users, the clock and the runs: what a request writes is off, or to come.
LEMMA WorldKeeps ==
  ASSUME IInv,
         \/ \E q \in Requests : SetSchedule(q) \/ EditOwner(q) \/ ChangeZone(q) \/ Write(q)
         \/ \E u \in Users : Deactivate(u)
         \/ Pass \/ RunEnds
  PROVE  IInv'
<1> DEFINE HoldState == [at : {"idle", "set", "save", "zone"}, read : Columns, row : Columns]
<1>1. /\ clock \in 0..Horizon /\ clock \in Nat /\ row \in Columns /\ held \in [Requests -> HoldState]
      /\ active \subseteq Users /\ upsets \in Nat /\ blind \in BOOLEAN
  BY TypesSplit, ConstantsAssumption DEF IInv
<1>2. Off \in Columns /\ Off.next = None /\ NoHold \in HoldState /\ NoHold.at = "idle" /\ NoHold.row = Off
  BY OffType DEF Off, NoHold
\* A request computes what it will write.
<1>3. ASSUME NEW q \in Requests, NEW kind \in {"set", "save", "zone"}, NEW r \in Columns,
             Hold(q, kind, r), kind = "save" => r = Off,
             r.next # None => r.next > clock,
             UNCHANGED <<clock, row, live, active, tick, fired, upsets, blind>>
      PROVE  IInv'
  <2> DEFINE x == [at |-> kind, read |-> row, row |-> r]
  <2>1. /\ held' = [held EXCEPT ![q] = x] /\ x \in HoldState /\ x.row = r
        /\ x.at \in {"idle", "save"} => x.row = Off
    BY <1>1, <1>3 DEF Hold
  <2> HIDE DEF x
  <2>2. held'[q] = x /\ \A o \in Requests : o # q => held'[o] = held[o]
    BY <1>1, <2>1
  <2>3. held' \in [Requests -> HoldState]
    BY <1>1, <2>1
  <2>4. SlotTypes'
    BY <1>3, <2>3, TypesSplit DEF SlotTypes, IInv, TickState
  <2>5. Calm'
    BY <1>3, <2>1, <2>2 DEF IInv, Calm
  <2>6. HeldAhead'
    BY <1>3, <2>1, <2>2 DEF IInv, HeldAhead
  <2> QED
    BY <1>1, <1>3, <2>4, <2>5, <2>6, WorldMoves
<1>4. ASSUME NEW q \in Requests, SetSchedule(q) PROVE IInv'
  <2>1. CASE Hold(q, "set", Off)
    BY <1>2, <1>3, <1>4, <2>1 DEF SetSchedule
  <2>2. CASE \E s \in Schedules, u \in active : Hold(q, "set", Scheduled(s, u, clock))
    <3>1. PICK s \in Schedules, u \in active : Hold(q, "set", Scheduled(s, u, clock))
      BY <2>2
    <3>2. s \in Texts /\ u \in Authors
      BY <1>1 DEF Texts, Authors
    <3> QED
      BY <1>1, <1>3, <1>4, <3>1, <3>2, ScheduledAhead DEF SetSchedule
  <2> QED
    BY <1>4, <2>1, <2>2 DEF SetSchedule
<1>5. ASSUME NEW q \in Requests, ChangeZone(q) PROVE IInv'
  <2>1. row.spec \in Texts /\ row.by \in Authors
    BY <1>1 DEF Columns
  <2> QED
    BY <1>1, <1>3, <1>5, <2>1, ScheduledAhead DEF ChangeZone
<1>6. ASSUME NEW q \in Requests, Write(q) PROVE IInv'
  <2>1. /\ held[q].row \in Columns /\ held[q].read \in Columns
        /\ held[q].row.next # None => held[q].row.next > clock
    BY <1>1 DEF IInv, HeldAhead
  <2>2. row' \in Columns /\ row'.next \in {row.next, held[q].row.next}
    BY <1>1, <1>6, <2>1 DEF Write, Written, Columns
  <2>3. held' = [held EXCEPT ![q] = NoHold] /\ UNCHANGED <<clock, live, active, tick, fired, upsets, blind>>
    BY <1>6 DEF Write
  <2>4. held'[q] = NoHold /\ \A o \in Requests : o # q => held'[o] = held[o]
    BY <1>1, <2>3
  <2>5. held' \in [Requests -> HoldState]
    BY <1>1, <1>2, <2>3
  <2>6. SlotTypes'
    BY <2>2, <2>3, <2>5, TypesSplit DEF SlotTypes, IInv, TickState
  <2>7. Calm'
    BY <1>2, <2>3, <2>4 DEF IInv, Calm
  <2>8. HeldAhead'
    BY <1>2, <2>3, <2>4 DEF IInv, HeldAhead
  <2> QED
    BY <1>1, <2>1, <2>2, <2>3, <2>6, <2>7, <2>8, WorldMoves
<1>7. ASSUME NEW u \in Users, Deactivate(u) PROVE IInv'
  <2>1. active' \subseteq Users /\ upsets' \in Nat /\ UNCHANGED <<clock, row, live, tick, held, fired, blind>>
    BY <1>1, <1>7 DEF Deactivate, Upset
  <2>2. SlotTypes'
    BY <2>1, TypesSplit DEF SlotTypes, IInv, TickState
  <2>3. Calm' /\ HeldAhead'
    BY <2>1 DEF IInv, Calm, HeldAhead
  <2> QED
    BY <1>1, <2>1, <2>2, <2>3, WorldMoves
<1>8. ASSUME Pass PROVE IInv'
  <2>1. clock' \in 0..Horizon /\ clock' = clock + 1 /\ UNCHANGED <<row, live, active, tick, held, fired, upsets, blind>>
    BY <1>1, <1>8, ConstantsAssumption DEF Pass
  <2>2. SlotTypes'
    BY <2>1, TypesSplit DEF SlotTypes, IInv, TickState
  <2>3. Calm'
    BY <2>1 DEF IInv, Calm
  \* Only the requests with no slot to write are still there.
  <2>4. \A q \in Requests : held[q].row = Off
    BY <1>1, <1>8 DEF IInv, Calm, Pass
  <2>5. HeldAhead'
    BY <1>2, <2>1, <2>4 DEF HeldAhead
  <2> QED
    BY <1>1, <2>1, <2>2, <2>3, <2>5, WorldMoves
<1>9. ASSUME RunEnds PROVE IInv'
  <2>1. live' \in BOOLEAN /\ UNCHANGED <<clock, row, active, tick, held, fired, upsets, blind>>
    BY <1>9 DEF RunEnds
  <2>2. SlotTypes'
    BY <2>1, TypesSplit DEF SlotTypes, IInv, TickState
  <2>3. Calm' /\ HeldAhead'
    BY <2>1 DEF IInv, Calm, HeldAhead
  <2> QED
    BY <1>1, <2>1, <2>2, <2>3, WorldMoves
<1>10. ASSUME NEW q \in Requests, EditOwner(q) PROVE IInv'
  BY <1>1, <1>2, <1>3, <1>10 DEF EditOwner
<1> QED
  BY <1>4, <1>5, <1>6, <1>7, <1>8, <1>9, <1>10

\* Once blind, for ever; and a step that is not the unconditional write leaves `blind`.
LEMMA Sighted ==
  ASSUME [Next]_vars, ~blind'
  PROVE  ~blind /\ \A p \in Procs : ~AdvanceWrite(p)
<1>1. \A p \in Procs : ~AdvanceWrite(p)
  BY DEF AdvanceWrite
<1>2. CASE \E p \in Procs : BeginTick(p) \/ TickGoesOn(p) \/ Fail(p) \/ Crash(p)
  BY <1>1, <1>2 DEF BeginTick, TickGoesOn, Look, ReadRow, CheckAuthor, Disable, Take, Launch,
                    AdvanceRead, Fail, Crash, Upset
<1>3. CASE \E q \in Requests : SetSchedule(q) \/ EditOwner(q) \/ ChangeZone(q) \/ Write(q)
  BY <1>1, <1>3 DEF SetSchedule, EditOwner, ChangeZone, Write
<1>4. CASE (\E u \in Users : Deactivate(u)) \/ Pass \/ RunEnds \/ UNCHANGED vars
  BY <1>1, <1>4 DEF Deactivate, Upset, Pass, RunEnds, vars
<1> QED
  BY <1>1, <1>2, <1>3, <1>4 DEF Next

\* Every step but the unconditional write keeps the invariant.
LEMMA StepKeeps ==
  ASSUME IInv, [Next]_vars, \A p \in Procs : ~AdvanceWrite(p) PROVE IInv'
<1>1. ASSUME NEW p \in Procs, BeginTick(p) \/ TickGoesOn(p) \/ Fail(p) \/ Crash(p) PROVE IInv'
  BY <1>1, QuietTicks, TakeKeeps, LaunchKeeps DEF TickGoesOn
<1>2. CASE UNCHANGED vars
  BY <1>2 DEF vars, IInv, SlotTypes, InTime, Calm, HeldAhead, FiredBehind, LaunchedBehind, Behind, At
<1> QED
  BY <1>1, <1>2, WorldKeeps DEF Next

\* Until a slot is moved blindly, the slots fired, and those about to be launched, are
\* behind the next one.
THEOREM Invariance == Spec => [](~blind => IInv)
<1>1. (~blind => IInv) /\ [Next]_vars => (~blind => IInv)'
  BY StepKeeps, Sighted
<1>2. Init => (~blind => IInv)
  BY InitIInv
<1> QED
  BY <1>1, <1>2, PTL DEF Spec

\* A slot is fired once (_take_ds_slot), whatever users save meanwhile, whoever dies and
\* whatever fails, until a fire that failed moves the slot (_advance_ds).
THEOREM FiredOnce == Spec => []SlotFiredOnce
<1>1. (~blind => IInv) => SlotFiredOnce
  <2>1. IInv => \A t \in 1..Horizon : fired[t] \in 0..2
    BY TypesSplit DEF IInv
  <2> QED
    BY <2>1 DEF IInv, FiredBehind, SlotFiredOnce
<1> QED
  BY Invariance, <1>1, PTL
-----------------------------------------------------------------------------
\* What a tick that goes for a slot knows, and the columns, without their records.
LEMMA TickFacts ==
  ASSUME IInv, NEW p \in Procs
  PROVE  /\ row \in Columns /\ row.next \in Nat /\ clock \in Nat
         /\ tick[p].now \in Nat /\ tick[p].now <= clock
         /\ At(p, "read") \/ At(p, "author") \/ At(p, "take") =>
               tick[p].seen \in Nat /\ 1 <= tick[p].seen /\ tick[p].seen <= clock
<1>1. /\ tick[p] \in TickState /\ clock \in 0..Horizon /\ row \in Columns /\ tick[p].now <= clock
      /\ tick[p].at \notin {"idle", "look"} => tick[p].seen \in 1..tick[p].now
  BY TypesSplit DEF IInv, InTime
<1>2. tick[p].now \in Nat /\ row.next \in Nat /\ clock \in Nat
  BY <1>1 DEF TickState, Columns
<1> QED
  BY <1>1, <1>2 DEF At

\* A step that leaves the row, and reads with each tick what is there.
LEMMA RowStays ==
  ASSUME IInv, OfOneText, row' = row, HeldKnown',
         \A p \in Procs :
            \/ tick'[p] = tick[p]
            \/ tick'[p].at \notin {"read", "author", "take"}
            \/ tick'[p].at = "read" /\ tick'[p].seen = row.next
            \/ /\ At(p, "read") /\ tick'[p].at = "author"
               /\ tick'[p].seen = tick[p].seen /\ tick'[p].spec = row.spec
            \/ /\ At(p, "author") /\ tick'[p].at = "take"
               /\ tick'[p].seen = tick[p].seen /\ tick'[p].spec = tick[p].spec
  PROVE  OfOneText'
<1>1. NotBack'
  <2> SUFFICES ASSUME NEW p \in Procs, At(p, "read")' \/ At(p, "author")' \/ At(p, "take")'
               PROVE  row.next = None \/ row.next >= tick'[p].seen
    BY DEF NotBack
  <2>1. row.next \in Nat
    BY TickFacts
  <2> QED
    BY <2>1 DEF At, OfOneText, NotBack
<1>2. AsRead'
  BY DEF At, OfOneText, AsRead
<1>3. OfItsText'
  BY DEF OfOneText, OfItsText
<1> QED
  BY <1>1, <1>2, <1>3 DEF OfOneText

\* What is held stays known as long as neither it nor the row changes, time or not.
LEMMA HeldStays ==
  ASSUME IInv, HeldKnown, row' = row, held' = held, clock' \in Nat, clock' >= clock
  PROVE  HeldKnown'
<1> SUFFICES ASSUME NEW q \in Requests, held[q].at # "idle"
             PROVE  /\ row.spec \in {held[q].read.spec, NoText}
                    /\ row.next \in {held[q].read.next, None} \/ held[q].read.next <= clock'
                    /\ held[q].row # Off =>
                          /\ held[q].row.spec \in Schedules /\ held[q].row.next # None
                          /\ held[q].row.next \in Slots[held[q].row.spec]
  BY DEF HeldKnown
<1>1. held[q].read.next \in Nat /\ clock \in Nat
  BY TypesSplit DEF IInv, Columns
<1> QED
  BY <1>1 DEF HeldKnown

\* The steps of a tick but the take and the turning off leave the row.
LEMMA TicksRead ==
  ASSUME IInv, OfOneText, NEW p \in Procs,
         \/ BeginTick(p) \/ Look(p) \/ ReadRow(p) \/ CheckAuthor(p) \/ Launch(p)
         \/ Fail(p) \/ AdvanceRead(p) \/ Crash(p)
  PROVE  OfOneText'
<1>1. row' = row /\ held' = held /\ clock' = clock
  BY DEF BeginTick, Look, ReadRow, CheckAuthor, Launch, Fail, AdvanceRead, Crash
<1>2. HeldKnown'
  BY <1>1, TickFacts, HeldStays DEF OfOneText
<1>3. tick \in [Procs -> TickState]
  BY TypesSplit DEF IInv
<1>4. \A q \in Procs \ {p} : tick'[q] = tick[q]
  BY <1>3 DEF BeginTick, Look, ReadRow, CheckAuthor, Launch, Fail, AdvanceRead, Crash, EndTick, Goto
<1>5. \/ tick'[p].at \notin {"read", "author", "take"}
      \/ tick'[p].at = "read" /\ tick'[p].seen = row.next
      \/ /\ At(p, "read") /\ tick'[p].at = "author"
         /\ tick'[p].seen = tick[p].seen /\ tick'[p].spec = row.spec
      \/ /\ At(p, "author") /\ tick'[p].at = "take"
         /\ tick'[p].seen = tick[p].seen /\ tick'[p].spec = tick[p].spec
  <2>1. CASE BeginTick(p)
    BY <1>3, <2>1 DEF BeginTick, NoTick
  <2>2. CASE Look(p)
    BY <1>3, <2>2 DEF Look, EndTick, NoTick, TickState
  <2>3. CASE ReadRow(p)
    BY <1>3, <2>3 DEF ReadRow, TickState
  <2>4. CASE CheckAuthor(p)
    BY <1>3, <2>4 DEF CheckAuthor, Goto, TickState
  <2>5. CASE Launch(p) \/ Crash(p)
    BY <1>3, <2>5 DEF Launch, Crash, EndTick, NoTick
  <2>6. CASE Fail(p)
    BY <1>3, <2>6 DEF Fail, Goto, EndTick, NoTick, TickState
  <2>7. CASE AdvanceRead(p)
    BY <1>3, <2>7 DEF AdvanceRead, TickState
  <2> QED
    BY <2>1, <2>2, <2>3, <2>4, <2>5, <2>6, <2>7
<1> QED
  BY <1>1, <1>2, <1>4, <1>5, RowStays

\* Turned off, the row has no slot.
LEMMA DisableReads ==
  ASSUME IInv, OfOneText, NEW p \in Procs, Disable(p) PROVE OfOneText'
<1>1. row' = Off /\ held' = held /\ clock' = clock /\ tick \in [Procs -> TickState]
  BY TypesSplit DEF Disable, IInv
<1>2. \A q \in Procs : tick'[q] = tick[q] \/ tick'[q].at = "idle"
  BY <1>1 DEF Disable, EndTick, NoTick
<1>3. Off.spec = NoText /\ Off.next = None
  BY DEF Off
<1>4. NotBack' /\ OfItsText'
  BY <1>1, <1>3 DEF NotBack, OfItsText
<1>5. AsRead'
  BY <1>1, <1>3 DEF AsRead
<1>6. HeldKnown'
  BY <1>1, <1>3 DEF OfOneText, HeldKnown
<1> QED
  BY <1>4, <1>5, <1>6 DEF OfOneText

\* The take writes a slot of the text it read, which is the row's.
LEMMA TakeReads ==
  ASSUME IInv, OfOneText, NEW p \in Procs, Take(p) PROVE OfOneText'
<1>1. held' = held /\ clock' = clock /\ At(p, "take") /\ tick \in [Procs -> TickState]
  BY TypesSplit DEF Take, IInv
<1>3. \A q \in Procs : tick'[q] = tick[q] \/ tick'[q].at \in {"idle", "launch", "advance"}
  BY <1>1 DEF Take, EndTick, Goto, NoTick, TickState
<1>4. CASE ~StillThere(p)
  <2>1. row' = row
    BY <1>4 DEF Take
  <2>2. HeldKnown'
    BY <1>1, <2>1, TickFacts, HeldStays DEF OfOneText
  <2> QED
    BY <1>3, <2>1, <2>2, RowStays
<1>5. CASE StillThere(p)
  <2> DEFINE spec == tick[p].spec
             next == NextFire(spec, tick[p].now)
  <2>1. Forward(spec, tick[p].now)
    BY <1>5 DEF Take
  <2>2. /\ row.next = tick[p].seen /\ row.next # None /\ row.next <= tick[p].now
        /\ row \in Columns /\ row.next \in Nat /\ clock \in Nat /\ tick[p].now \in Nat /\ tick[p].now <= clock
    BY <1>5, TickFacts DEF StillThere
  <2>3. /\ next \in Nat
        /\ next # None => spec \in Schedules /\ next \in Slots[spec] /\ next > tick[p].now
    BY <2>2, NextFireAhead
  <2>4. row.spec \in {spec, NoText}
    BY <1>1, <2>2 DEF OfOneText, AsRead
  <2>5. row'.next = next /\ row'.spec = (IF next # None THEN row.spec ELSE NoText)
    BY <2>1, <2>2 DEF Forward, Columns
  <2> HIDE DEF next, spec
  <2>6. OfItsText'
    BY <2>3, <2>4, <2>5 DEF OfItsText
  <2>7. ASSUME NEW q \in Procs, At(q, "read")' \/ At(q, "author")' \/ At(q, "take")'
        PROVE  /\ tick'[q] = tick[q] /\ tick[q].seen \in Nat /\ 1 <= tick[q].seen
               /\ row'.next = None \/ row'.next > tick[q].seen
    <3>1. tick'[q] = tick[q]
      BY <1>3, <2>7 DEF At
    <3>2. tick[q].seen \in Nat /\ 1 <= tick[q].seen
      BY <2>7, <3>1, TickFacts DEF At
    <3>3. row.next >= tick[q].seen
      BY <2>2, <2>7, <3>1 DEF At, OfOneText, NotBack
    <3> QED
      BY <2>2, <2>3, <2>5, <3>1, <3>2, <3>3
  <2>8. NotBack'
    BY <2>2, <2>3, <2>5, <2>7 DEF NotBack
  <2>9. AsRead'
    <3> SUFFICES ASSUME NEW q \in Procs, (At(q, "author") \/ At(q, "take"))', row'.next = tick'[q].seen
                 PROVE  FALSE
      BY DEF AsRead
    <3>1. tick'[q] = tick[q] /\ tick[q].seen \in Nat /\ 1 <= tick[q].seen
      BY <2>7
    <3>2. row'.next = None \/ row'.next > tick[q].seen
      BY <2>7
    <3> QED
      BY <3>1, <3>2 DEF None
  <2>10. HeldKnown'
    <3> SUFFICES ASSUME NEW q \in Requests, held[q].at # "idle"
                 PROVE  /\ row'.spec \in {held[q].read.spec, NoText}
                        /\ row'.next \in {held[q].read.next, None} \/ held[q].read.next <= clock
                        /\ held[q].row # Off =>
                              /\ held[q].row.spec \in Schedules /\ held[q].row.next # None
                              /\ held[q].row.next \in Slots[held[q].row.spec]
      BY <1>1 DEF HeldKnown
    <3>1. /\ row.spec \in {held[q].read.spec, NoText}
          /\ row.next \in {held[q].read.next, None} \/ held[q].read.next <= clock
          /\ held[q].row # Off =>
                /\ held[q].row.spec \in Schedules /\ held[q].row.next # None
                /\ held[q].row.next \in Slots[held[q].row.spec]
      BY DEF OfOneText, HeldKnown
    <3>2. row.next = held[q].read.next => held[q].read.next <= clock
      BY <2>2
    <3> QED
      BY <2>2, <2>5, <3>1, <3>2
  <2> QED
    BY <2>6, <2>8, <2>9, <2>10 DEF OfOneText
<1> QED
  BY <1>4, <1>5

\* What a request reads, it knows.
LEMMA HoldReads ==
  ASSUME IInv, OfOneText, NEW q \in Requests,
         SetSchedule(q) \/ EditOwner(q) \/ ChangeZone(q)
  PROVE  OfOneText'
<1>1. row' = row /\ tick' = tick /\ clock' = clock
  BY DEF SetSchedule, EditOwner, ChangeZone
<1>2. clock \in Nat /\ row \in Columns /\ held \in [Requests -> [at : {"idle", "set", "save", "zone"}, read : Columns, row : Columns]]
  BY TypesSplit DEF IInv
<1>3. PICK new, kind :
         /\ Hold(q, kind, new)
         /\ new = Off \/ \E s, u : NextFire(s, clock) # None /\ new = Scheduled(s, u, clock)
  <2>1. CASE SetSchedule(q)
    BY <2>1 DEF SetSchedule
  <2>2. CASE EditOwner(q)
    BY <2>2 DEF EditOwner
  <2>3. CASE ChangeZone(q)
    BY <2>3 DEF ChangeZone
  <2> QED
    BY <2>1, <2>2, <2>3
<1>4. new # Off => new.spec \in Schedules /\ new.next # None /\ new.next \in Slots[new.spec]
  BY <1>2, <1>3, NextFireAhead DEF Scheduled
<1>5. held'[q] = [at |-> kind, read |-> row, row |-> new] /\ \A r \in Requests \ {q} : held'[r] = held[r]
  BY <1>2, <1>3 DEF Hold
<1>6. HeldKnown'
  BY <1>1, <1>4, <1>5 DEF OfOneText, HeldKnown
<1> QED
  BY <1>1, <1>6, RowStays

\* A request writes a slot to come, or none, or leaves the slot it read.
LEMMA WriteReads ==
  ASSUME IInv, OfOneText, NEW q \in Requests, Write(q), \A r, s \in Requests : r = s
  PROVE  OfOneText'
<1> DEFINE read == held[q].read
           new  == held[q].row
<1>1. /\ held[q].at # "idle" /\ clock' = clock /\ tick' = tick
      /\ row'.spec = Written(read.spec, new.spec, row.spec)
      /\ row'.next = Written(read.next, new.next, row.next)
      /\ held' = [held EXCEPT ![q] = NoHold]
  BY DEF Write
<1>2. /\ clock \in Nat /\ row.next \in Nat /\ read \in Columns /\ read.next \in Nat /\ new.next \in Nat
      /\ held \in [Requests -> [at : {"idle", "set", "save", "zone"}, read : Columns, row : Columns]]
  <2>1. /\ clock \in Nat /\ row \in Columns
        /\ held \in [Requests -> [at : {"idle", "set", "save", "zone"}, read : Columns, row : Columns]]
    BY TypesSplit DEF IInv
  <2>2. held[q] \in [at : {"idle", "set", "save", "zone"}, read : Columns, row : Columns]
    BY <2>1
  <2>3. read \in Columns /\ new \in Columns
    BY <2>2
  <2> HIDE DEF read, new
  <2> QED
    BY <2>1, <2>3 DEF Columns
<1>3. /\ row.spec \in {read.spec, NoText}
      /\ row.next \in {read.next, None} \/ read.next <= clock
      /\ new # Off => new.spec \in Schedules /\ new.next # None /\ new.next \in Slots[new.spec]
  BY <1>1 DEF OfOneText, HeldKnown
<1>4. new.next # None => new.next > clock
  BY DEF IInv, HeldAhead
<1>5. Off.spec = NoText /\ Off.next = None
  BY DEF Off
<1> HIDE DEF read, new
<1>6. CASE new = Off
  <2>1. row'.spec = NoText
    BY <1>1, <1>3, <1>5, <1>6 DEF Written
  <2>2. row'.next = row.next \/ row'.next = None
    BY <1>1, <1>5, <1>6 DEF Written
  <2>3. NotBack'
    BY <1>1, <2>2 DEF OfOneText, NotBack, At
  <2>4. AsRead' /\ OfItsText'
    BY <2>1 DEF AsRead, OfItsText
  <2>5. HeldKnown'
    BY <1>1, <1>2 DEF HeldKnown, NoHold
  <2> QED
    BY <2>3, <2>4, <2>5 DEF OfOneText
<1>7. CASE new # Off
  <2>1. row'.next = new.next \/ row'.next = None
    BY <1>1, <1>2, <1>3, <1>4, <1>7 DEF Written
  <2>2. row'.spec \in {new.spec, NoText}
    BY <1>1, <1>3 DEF Written
  <2>3. OfItsText'
    BY <1>3, <1>7, <2>1, <2>2 DEF OfItsText
  <2>4. row'.next = None \/ row'.next > clock
    BY <1>4, <2>1
  <2>5. row'.next \in Nat
    BY <1>2, <2>1 DEF None
  <2>6. NotBack'
    <3> SUFFICES ASSUME NEW p \in Procs, At(p, "read") \/ At(p, "author") \/ At(p, "take")
                 PROVE  row'.next = None \/ row'.next >= tick[p].seen
      BY <1>1 DEF NotBack, At
    <3>1. tick[p].seen \in Nat /\ tick[p].seen <= clock
      BY TickFacts
    <3> QED
      BY <1>2, <2>4, <2>5, <3>1
  <2>7. AsRead'
    <3> SUFFICES ASSUME NEW p \in Procs, At(p, "author") \/ At(p, "take"), row'.next = tick[p].seen
                 PROVE  FALSE
      BY <1>1 DEF AsRead, At
    <3>1. tick[p].seen \in Nat /\ 1 <= tick[p].seen /\ tick[p].seen <= clock
      BY TickFacts
    <3> QED
      BY <1>2, <2>4, <2>5, <3>1 DEF None
  <2>8. HeldKnown'
    BY <1>1, <1>2 DEF HeldKnown, NoHold
  <2> QED
    BY <2>3, <2>6, <2>7, <2>8 DEF OfOneText
<1> QED
  BY <1>6, <1>7

\* The initial row's slot is of its text.
LEMMA InitOfOneText == Init => OfOneText
<1> SUFFICES ASSUME Init PROVE OfOneText
  OBVIOUS
<1>1. NotBack /\ AsRead
  BY DEF Init, NotBack, AsRead, At, NoTick
<1>2. HeldKnown
  BY DEF Init, HeldKnown, NoHold
<1>3. OfItsText
  <2>1. CASE row = Off
    BY <2>1 DEF OfItsText, Off
  <2>2. ASSUME NEW s \in Schedules, NEW u \in Users, row = Scheduled(s, u, 0) PROVE OfItsText
    <3>1. row.spec = s /\ row.next = NextFire(s, 0)
      BY <2>2 DEF Scheduled
    <3> QED
      BY <3>1, NextFireAhead DEF OfItsText
  <2> QED
    BY <2>1, <2>2 DEF Init
<1> QED
  BY <1>1, <1>2, <1>3 DEF OfOneText

LEMMA StepOfOneText ==
  ASSUME IInv, OfOneText, [Next]_vars, \A p \in Procs : ~AdvanceWrite(p), \A r, s \in Requests : r = s
  PROVE  OfOneText'
<1>1. ASSUME NEW p \in Procs, BeginTick(p) \/ TickGoesOn(p) \/ Fail(p) \/ Crash(p) PROVE OfOneText'
  BY <1>1, TicksRead, DisableReads, TakeReads DEF TickGoesOn
<1>2. ASSUME NEW q \in Requests, SetSchedule(q) \/ EditOwner(q) \/ ChangeZone(q) \/ Write(q)
      PROVE  OfOneText'
  BY <1>2, HoldReads, WriteReads
<1>3. CASE \/ \E u \in Users : Deactivate(u)
           \/ Pass \/ RunEnds \/ UNCHANGED vars
  <2>1. clock \in Nat
    BY TypesSplit DEF IInv
  <2>2. row' = row /\ tick' = tick /\ held' = held /\ clock' \in {clock, clock + 1}
    BY <1>3 DEF Deactivate, Pass, RunEnds, vars
  <2>3. HeldKnown'
    BY <2>1, <2>2, HeldStays DEF OfOneText
  <2> QED
    BY <2>2, <2>3, RowStays
<1> QED
  BY <1>1, <1>2, <1>3 DEF Next

\* Until a slot is moved blindly, the next slot is one of the schedule that is set
\* (_take_slot), where one request at a time is in flight: two that read the same row may
\* each leave a column of the other's.
THEOREM OfItsSchedule ==
  ASSUME \A r, s \in Requests : r = s
  PROVE  Spec => []SlotOfItsSchedule
<1>1. /\ ~blind => IInv
      /\ ~blind => OfOneText
      /\ [Next]_vars
      => (~blind => OfOneText)'
  BY StepOfOneText, Sighted
<1>2. Spec => [](~blind => IInv)
  BY Invariance
<1>3. (~blind => OfOneText) => SlotOfItsSchedule
  BY DEF OfOneText, SlotOfItsSchedule
<1>4. Init => (~blind => OfOneText)
  BY InitOfOneText
<1> QED
  BY <1>1, <1>2, <1>3, <1>4, PTL DEF Spec
=============================================================================
