---------------------------- MODULE ScheduleSlots ----------------------------
(***************************************************************************)
(* One schedule and the scheduler processes that fire it                   *)
(* (gateway/app/services/scheduler.py), with the requests of the users who  *)
(* edit it or what it is the schedule of (gateway/app/routes/flows.py).    *)
(*                                                                         *)
(* A schedule is three columns of a row: its text, its author and its next *)
(* slot.  Every process looks for the slots that are due at each of its    *)
(* ticks; the one that moves the slot forward with an UPDATE conditional   *)
(* on the slot it read launches the run.  An action is one statement or    *)
(* one transaction; `now` is read once per tick and grows stale with it.   *)
(***************************************************************************)
EXTENDS Naturals

CONSTANTS
    Procs,      \* the scheduler processes
    Requests,   \* the requests in flight on the row's owner
    Users,      \* who may be a schedule's author
    Schedules,  \* the texts of schedules
    Slots,      \* when each of them fires
    Queued,     \* the run is queued by the take's transaction (a flow, a group,
                \* a script), or launched after it (a datasource, an SQL script)
    Horizon,    \* the last instant (bound)
    Edits,      \* what users do: "schedule", "save", "zone"
    Upsets,     \* what may go wrong: "crash", "fail", "deactivate"
    MaxUpsets,  \* how many times (bound)
    NoText, Nobody

ASSUME ConstantsAssumption ==
    /\ Slots \in [Schedules -> SUBSET (Nat \ {0})]
    /\ Queued \in BOOLEAN /\ Horizon \in Nat /\ MaxUpsets \in Nat
    /\ Edits \subseteq {"schedule", "save", "zone"}
    /\ Upsets \subseteq {"crash", "fail", "deactivate"}
    /\ NoText \notin Schedules /\ Nobody \notin Users

VARIABLES
    clock,
    row,     \* the schedule's columns
    live,    \* a run of it is queued or going
    active,  \* the authors that may still run it
    tick,    \* the scheduler's tick of each process, in its memory
    held,    \* what each request read, and is about to write
    fired,   \* history: how many runs each slot was fired for (2: or more)
    upsets,  \* history: the upsets so far
    blind    \* history: a failure has moved the slot without a condition

vars == <<clock, row, live, active, tick, held, fired, upsets, blind>>

None == 0   \* no slot: NULL
Off  == [spec |-> NoText, by |-> Nobody, next |-> None]

NoTick == [at |-> "idle", now |-> 0, seen |-> None, spec |-> NoText, by |-> Nobody]
NoHold == [at |-> "idle", read |-> Off, row |-> Off]

\* The first slot strictly after the instant; none for a text that never fires again.
NextFire(spec, now) ==
    LET ahead == IF spec \in Schedules THEN {t \in Slots[spec] : t > now} ELSE {}
    IN IF \E t \in ahead : \A u \in ahead : t <= u
       THEN CHOOSE t \in ahead : \A u \in ahead : t <= u ELSE None

Scheduled(s, u, now) == [spec |-> s, by |-> u, next |-> NextFire(s, now)]

Init == /\ clock = 0
        /\ row \in {Off} \union {Scheduled(s, u, 0) : s \in Schedules, u \in Users}
        /\ live = FALSE
        /\ active = Users
        /\ tick = [p \in Procs |-> NoTick]
        /\ held = [q \in Requests |-> NoHold]
        /\ fired = [t \in 1..Horizon |-> 0]
        /\ upsets = 0
        /\ blind = FALSE

Upset(kind) == kind \in Upsets /\ upsets < MaxUpsets /\ upsets' = upsets + 1 /\ UNCHANGED blind

(***************************************************************************)
(* A tick.                                                                 *)
(***************************************************************************)
At(p, label)   == tick[p].at = label
Goto(p, label) == tick' = [tick EXCEPT ![p].at = label]
EndTick(p)     == tick' = [tick EXCEPT ![p] = NoTick]

BeginTick(p) ==
    /\ At(p, "idle")
    /\ tick' = [tick EXCEPT ![p] = [NoTick EXCEPT !.at = "look", !.now = clock]]
    /\ UNCHANGED <<clock, row, live, active, held, fired, upsets, blind>>

Due(p) == row.spec # NoText /\ row.next # None /\ row.next <= tick[p].now

Look(p) ==
    /\ At(p, "look")
    /\ IF Due(p) THEN tick' = [tick EXCEPT ![p].at = "read", ![p].seen = row.next]
                 ELSE EndTick(p)
    /\ UNCHANGED <<clock, row, live, active, held, fired, upsets, blind>>

ReadRow(p) ==
    /\ At(p, "read")
    /\ tick' = [tick EXCEPT ![p].at = "author", ![p].spec = row.spec, ![p].by = row.by]
    /\ UNCHANGED <<clock, row, live, active, held, fired, upsets, blind>>

CheckAuthor(p) ==
    /\ At(p, "author")
    /\ Goto(p, IF tick[p].by \in active THEN "take" ELSE "disable")
    /\ UNCHANGED <<clock, row, live, active, held, fired, upsets, blind>>

\* The author is gone, or may no longer run it.
Disable(p) ==
    /\ At(p, "disable")
    /\ row' = Off
    /\ EndTick(p)
    /\ UNCHANGED <<clock, live, active, held, fired, upsets, blind>>

\* The slot written forward from the tick's instant: off when there is none.
Forward(spec, now) ==
    row' = IF NextFire(spec, now) # None THEN [row EXCEPT !.next = NextFire(spec, now)]
           ELSE [row EXCEPT !.spec = NoText, !.next = None]

\* A run for the slot, unless one is going already.
Fire(p) == /\ live' = TRUE
           /\ fired' = IF live \/ fired[tick[p].seen] = 2 THEN fired
                       ELSE [fired EXCEPT ![tick[p].seen] = @ + 1]

\* Slip: the slot taken as it was read.
StillThereAsRead(p) == TRUE

\* The condition of the take's UPDATE.
StillThere(p) == row.next = tick[p].seen /\ row.next # None /\ row.next <= tick[p].now

\* Slip: with a run still going, the transaction is rolled back.
TakeUnlessLive(p) ==
    /\ At(p, "take")
    /\ IF StillThere(p) /\ ~live
       THEN /\ Forward(tick[p].spec, tick[p].now)
            /\ IF Queued THEN Fire(p) /\ EndTick(p)
               ELSE Goto(p, "launch") /\ UNCHANGED <<live, fired>>
       ELSE EndTick(p) /\ UNCHANGED <<row, live, fired>>
    /\ UNCHANGED <<clock, active, held, upsets, blind>>

\* The answer of the commit may be lost: the tick takes it for a failure.
Take(p) ==
    /\ At(p, "take")
    /\ \/ /\ StillThere(p)
          /\ Forward(tick[p].spec, tick[p].now)
          /\ IF Queued THEN Fire(p) ELSE UNCHANGED <<live, fired>>
          /\ \/ /\ IF Queued THEN EndTick(p) ELSE Goto(p, "launch")
                /\ UNCHANGED <<upsets, blind>>
             \/ (Goto(p, "advance") \/ EndTick(p)) /\ Upset("fail")
       \/ /\ ~StillThere(p)
          /\ EndTick(p)
          /\ UNCHANGED <<row, live, fired, upsets, blind>>
    /\ UNCHANGED <<clock, active, held>>

Launch(p) ==
    /\ At(p, "launch")
    /\ Fire(p)
    /\ EndTick(p)
    /\ UNCHANGED <<clock, row, active, held, upsets, blind>>

\* The database or the engine fails the fire: the slot is to be moved forward.  When
\* the session is lost with it, so is the moving forward, and the tick ends.
Fail(p) ==
    /\ tick[p].at \in {"read", "author", "disable", "take", "launch"}
    /\ Goto(p, "advance") \/ EndTick(p)
    /\ Upset("fail")
    /\ UNCHANGED <<clock, row, live, active, held, fired>>

AdvanceRead(p) ==
    /\ At(p, "advance")
    /\ tick' = [tick EXCEPT ![p].at = "write", ![p].spec = row.spec]
    /\ UNCHANGED <<clock, row, live, active, held, fired, upsets, blind>>

\* An UPDATE without a condition, from the instant the tick began.
AdvanceWrite(p) ==
    /\ At(p, "write")
    /\ Forward(tick[p].spec, tick[p].now)
    /\ EndTick(p)
    /\ blind' = TRUE
    /\ UNCHANGED <<clock, live, active, held, fired, upsets>>

\* Killed, and started again by whoever supervises it.
Crash(p) ==
    /\ ~At(p, "idle")
    /\ EndTick(p)
    /\ Upset("crash")
    /\ UNCHANGED <<clock, row, live, active, held, fired>>

(***************************************************************************)
(* The users and the rest of the world.                                    *)
(***************************************************************************)
Hold(q, kind, r) == held' = [held EXCEPT ![q] = [at |-> kind, read |-> row, row |-> r]]

\* The schedule set, or turned off: its first slot is computed, then the row written.
SetSchedule(q) ==
    /\ "schedule" \in Edits
    /\ held[q].at = "idle"
    /\ \/ Hold(q, "set", Off)
       \/ \E s \in Schedules, u \in active : /\ NextFire(s, clock) # None
                                             /\ Hold(q, "set", Scheduled(s, u, clock))
    /\ UNCHANGED <<clock, row, live, active, tick, fired, upsets, blind>>

\* Its owner saved by someone else, so as to make the author run more: turned off.
EditOwner(q) ==
    /\ "save" \in Edits
    /\ held[q].at = "idle" /\ row.spec # NoText
    /\ Hold(q, "save", Off)
    /\ UNCHANGED <<clock, row, live, active, tick, fired, upsets, blind>>

\* The time zone changed: the next slot again, of the text as it is read.
ChangeZone(q) ==
    /\ "zone" \in Edits
    /\ held[q].at = "idle" /\ NextFire(row.spec, clock) # None
    /\ Hold(q, "zone", Scheduled(row.spec, row.by, clock))
    /\ UNCHANGED <<clock, row, live, active, tick, fired, upsets, blind>>

\* The session writes the columns whose value differs from the one it read.
Written(read, value, now) == IF value = read THEN now ELSE value

Write(q) ==
    LET read == held[q].read
        new  == held[q].row
    IN /\ held[q].at # "idle"
       /\ row' = [spec |-> Written(read.spec, new.spec, row.spec),
                  by   |-> Written(read.by, new.by, row.by),
                  next |-> Written(read.next, new.next, row.next)]
       /\ held' = [held EXCEPT ![q] = NoHold]
       /\ UNCHANGED <<clock, live, active, tick, fired, upsets, blind>>

\* A request that computed a slot from the clock writes it within the same instant
\* (an instant stands for a minute).
Pass == /\ clock < Horizon
        /\ \A q \in Requests : held[q].at \notin {"set", "zone"}
        /\ clock' = clock + 1
        /\ UNCHANGED <<row, live, active, tick, held, fired, upsets, blind>>

RunEnds == /\ live
           /\ live' = FALSE
           /\ UNCHANGED <<clock, row, active, tick, held, fired, upsets, blind>>

Deactivate(u) == /\ u \in active
                 /\ active' = active \ {u}
                 /\ Upset("deactivate")
                 /\ UNCHANGED <<clock, row, live, tick, held, fired>>

(***************************************************************************)
(* The specification.                                                      *)
(***************************************************************************)
TickGoesOn(p) == \/ Look(p) \/ ReadRow(p) \/ CheckAuthor(p) \/ Disable(p) \/ Take(p)
                 \/ Launch(p) \/ AdvanceRead(p) \/ AdvanceWrite(p)

Next == \/ \E p \in Procs : BeginTick(p) \/ TickGoesOn(p) \/ Fail(p) \/ Crash(p)
        \/ \E q \in Requests : SetSchedule(q) \/ EditOwner(q) \/ ChangeZone(q) \/ Write(q)
        \/ \E u \in Users : Deactivate(u)
        \/ Pass \/ RunEnds

Spec     == Init /\ [][Next]_vars

\* The loop ticks for ever; a started process goes on.  Nothing says that time
\* passes, a run ends or a request writes.
FairSpec == Spec /\ \A p \in Procs : WF_vars(BeginTick(p)) /\ WF_vars(TickGoesOn(p))

-----------------------------------------------------------------------------
Texts   == Schedules \union {NoText}
Authors == Users \union {Nobody}
Columns == [spec : Texts, by : Authors, next : Nat]

\* The type invariant: a tick that goes for a slot has one, which has come.
SlotTypes ==
    /\ clock \in 0..Horizon
    /\ row \in Columns
    /\ live \in BOOLEAN
    /\ active \subseteq Users
    /\ tick \in [Procs -> [at : {"idle", "look", "read", "author", "disable", "take",
                                 "launch", "advance", "write"},
                           now : 0..Horizon, seen : 0..Horizon, spec : Texts, by : Authors]]
    /\ \A p \in Procs : tick[p].at \notin {"idle", "look"} => tick[p].seen \in 1..tick[p].now
    /\ held \in [Requests -> [at : {"idle", "set", "save", "zone"}, read : Columns, row : Columns]]
    /\ fired \in [1..Horizon -> 0..2]
    /\ upsets \in Nat
    /\ blind \in BOOLEAN

(***************************************************************************)
(* A slot is fired once, however many processes find it due and whichever  *)
(* of them dies (_take_slot: take first, launch after), until a fire that   *)
(* failed moves the slot as it pleases (_advance_flow).                     *)
(***************************************************************************)
SlotFiredOnce == ~blind => \A t \in 1..Horizon : fired[t] <= 1

(***************************************************************************)
(* The next slot is one of the schedule that is set now: a process that    *)
(* read the schedule before it was replaced does not write a slot of the   *)
(* old one over it (_take_slot), until a fire that failed has written one.   *)
(***************************************************************************)
OfItsText == row.next # None /\ row.spec # NoText => row.next \in Slots[row.spec]

SlotOfItsSchedule == ~blind => OfItsText

(***************************************************************************)
(* A slot that is due is spent: fired, skipped or turned off.  It never    *)
(* stays in the past for ever, to be looked at by every tick.              *)
(***************************************************************************)
PastDue(t) == row.spec # NoText /\ row.next = t /\ t <= clock

EverySlotIsSpent == \A t \in 1..Horizon : []<>~PastDue(t)

-----------------------------------------------------------------------------
(***************************************************************************)
(* The invariant the theorem rests on, until a slot is moved blindly: the   *)
(* slots fired, and those taken and about to be launched, are all behind    *)
(* the next one, which no two of them share.                               *)
(***************************************************************************)
Behind(t) == t <= clock /\ (row.next # None => t < row.next)

FiredBehind ==
    \A t \in 1..Horizon : fired[t] > 0 =>
        /\ fired[t] = 1 /\ Behind(t)
        /\ \A p \in Procs : At(p, "launch") => tick[p].seen # t

LaunchedBehind ==
    \A p \in Procs : At(p, "launch") =>
        /\ Behind(tick[p].seen)
        /\ \A q \in Procs \ {p} : At(q, "launch") => tick[q].seen # tick[p].seen

\* What a request will write is yet to come.
HeldAhead == \A q \in Requests : held[q].row.next # None => held[q].row.next > clock

InTime == \A p \in Procs : tick[p].now <= clock

Calm == \A q \in Requests : held[q].at \in {"idle", "save"} => held[q].row = Off

IInv == SlotTypes /\ InTime /\ Calm /\ HeldAhead /\ FiredBehind /\ LaunchedBehind

-----------------------------------------------------------------------------
(***************************************************************************)
(* And, where besides one request at a time is in flight, the next slot is *)
(* of its schedule: it never goes back behind a slot a tick has seen, so   *)
(* that a slot still there is still of the text read with it; and a column *)
(* a request does not write is as the request read it, or turned off.      *)
(***************************************************************************)
NotBack == \A p \in Procs :
    At(p, "read") \/ At(p, "author") \/ At(p, "take") =>
        row.next = None \/ row.next >= tick[p].seen

AsRead == \A p \in Procs :
    (At(p, "author") \/ At(p, "take")) /\ row.next = tick[p].seen =>
        row.spec \in {tick[p].spec, NoText}

HeldKnown == \A q \in Requests : held[q].at # "idle" =>
    LET read == held[q].read
        new  == held[q].row
    IN /\ row.spec \in {read.spec, NoText}
       /\ row.next \in {read.next, None} \/ read.next <= clock
       /\ new # Off => new.spec \in Schedules /\ new.next # None /\ new.next \in Slots[new.spec]

OfOneText == NotBack /\ AsRead /\ HeldKnown /\ OfItsText
=============================================================================
