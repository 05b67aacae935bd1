----------------------------- MODULE AdvisoryCap -----------------------------
(***************************************************************************)
(* The daily cap of services/llm_advisor.py. Every advisory, scheduled or    *)
(* asked for on the dashboard, reserves a row before it calls a provider;    *)
(* an advisory lock keeps the count and the reservation of one session       *)
(* together. A row is dated by the clock its session read at its start, and  *)
(* the clock may jump.                                                       *)
(***************************************************************************)
EXTENDS Integers, Sequences, FiniteSets, Functions

CONSTANTS
    Callers,      \* sessions inside generate_advisory
    NoCaller,
    Day,          \* ticks of 24 hours
    Cap,          \* config llm_calls_per_day
    MaxTime,      \* bound on the clock
    MaxJumps,     \* bound on backward jumps of the clock
    MaxCrashes    \* bound on crashes

ASSUME CallerAssumption == NoCaller \notin Callers
ASSUME CapAssumption    == /\ Day \in Nat \ {0} /\ Cap \in Nat
                           /\ {MaxTime, MaxJumps, MaxCrashes} \subseteq Nat

VARIABLES
    clock, jumps, crashes,
    rows,      \* llm_advisories, in insertion order
    lock,      \* who holds pg_advisory_xact_lock(CAP_LOCK_ID)
    caller     \* session -> where it is, and the time it read at its start

vars == <<clock, jumps, crashes, rows, lock, caller>>

\* A row: created_at, status, and the provider calls made for it.
Row(t, status, calls) == [at |-> t, status |-> status, calls |-> calls]
Idle == [pc |-> "idle", now |-> 0, row |-> 0, tried |-> 0]

Init ==
    /\ clock = 0 /\ jumps = 0 /\ crashes = 0
    /\ rows = <<>>
    /\ lock = NoCaller
    /\ caller = [c \in Callers |-> Idle]

\* count_calls_today: in the calendar day of t, and in the 24 hours before t.
\* Neither count ends at t. (RollingOpen: the off-by-one of `>` for `>=`.)
Since(t)       == {i \in 1..Len(rows) : rows[i].at >= t}
Today(t)       == Since(t - (t % Day))
RollingOpen(t) == Since(t - Day + 1)
Rolling(t)     == Since(t - Day)

-----------------------------------------------------------------------------
\* generate_advisory: the clock is read, the prompt built, the lock awaited.
Begins(c) ==
    /\ caller[c].pc = "idle"
    /\ caller' = [caller EXCEPT ![c] = [Idle EXCEPT !.pc = "waiting",
                                                    !.now = clock]]
    /\ UNCHANGED <<clock, jumps, crashes, rows, lock>>

\* pg_advisory_xact_lock. (LocksAnyway: the count without it.)
LocksAnyway(c) ==
    /\ caller[c].pc = "waiting"
    /\ caller' = [caller EXCEPT ![c].pc = "locked"]
    /\ UNCHANGED <<clock, jumps, crashes, rows, lock>>

Locks(c) ==
    /\ caller[c].pc = "waiting"
    /\ lock = NoCaller
    /\ lock' = c
    /\ caller' = [caller EXCEPT ![c].pc = "locked"]
    /\ UNCHANGED <<clock, jumps, crashes, rows>>

\* At the cap the session ends, and with it the transaction and the lock.
\* (CountsOpenEnded: a refused session that leaves its transaction open.)
CountsOpenEnded(c) ==
    /\ caller[c].pc = "locked"
    /\ IF Cardinality(Today(caller[c].now)) >= Cap
            \/ Cardinality(Rolling(caller[c].now)) >= Cap
         THEN caller' = [caller EXCEPT ![c] = Idle]
         ELSE caller' = [caller EXCEPT ![c].pc = "granted"]
    /\ UNCHANGED <<clock, jumps, crashes, rows, lock>>

Counts(c) ==
    /\ caller[c].pc = "locked"
    /\ IF Cardinality(Today(caller[c].now)) >= Cap
            \/ Cardinality(Rolling(caller[c].now)) >= Cap
         THEN /\ caller' = [caller EXCEPT ![c] = Idle]
              /\ lock' = NoCaller
         ELSE /\ caller' = [caller EXCEPT ![c].pc = "granted"]
              /\ UNCHANGED lock
    /\ UNCHANGED <<clock, jumps, crashes, rows>>

\* The reservation is committed, which releases the lock.
Reserves(c) ==
    /\ caller[c].pc = "granted"
    /\ rows' = Append(rows, Row(caller[c].now, "pending", 0))
    /\ lock' = NoCaller
    /\ caller' = [caller EXCEPT ![c] = [pc |-> "calling", now |-> @.now,
                                       row |-> Len(rows) + 1, tried |-> 0]]
    /\ UNCHANGED <<clock, jumps, crashes>>

\* call_provider: the preferred one answers, or is unavailable (a missing key
\* makes no call at all), and then the other one is tried.
Answered(c) ==
    /\ caller[c].pc = "calling"
    /\ rows' = [rows EXCEPT ![caller[c].row] = Row(@.at, "ok", @.calls + 1)]
    /\ caller' = [caller EXCEPT ![c] = Idle]
    /\ UNCHANGED <<clock, jumps, crashes, lock>>

Unavailable(c, called) ==
    /\ caller[c].pc = "calling"
    /\ rows' = [rows EXCEPT ![caller[c].row] =
                  Row(@.at, IF caller[c].tried = 1 THEN "failed" ELSE @.status,
                      @.calls + called)]
    /\ caller' = [caller EXCEPT ![c] =
                    IF @.tried = 1 THEN Idle ELSE [@ EXCEPT !.tried = 1]]
    /\ UNCHANGED <<clock, jumps, crashes, lock>>

-----------------------------------------------------------------------------
Tick ==
    /\ clock < MaxTime
    /\ clock' = clock + 1
    /\ UNCHANGED <<jumps, crashes, rows, lock, caller>>

ClockJumps(t) ==
    /\ jumps < MaxJumps
    /\ t < clock
    /\ jumps' = jumps + 1
    /\ clock' = t
    /\ UNCHANGED <<crashes, rows, lock, caller>>

\* The process dies; its transactions end.
Crash ==
    /\ crashes < MaxCrashes
    /\ crashes' = crashes + 1
    /\ lock' = NoCaller
    /\ caller' = [c \in Callers |-> Idle]
    /\ UNCHANGED <<clock, jumps, rows>>

Step(c) == \/ Locks(c) \/ Counts(c) \/ Reserves(c)
           \/ Answered(c) \/ \E called \in {0, 1} : Unavailable(c, called)

Next == \/ \E c \in Callers : Begins(c) \/ Step(c)
        \/ Tick \/ (\E t \in 0..MaxTime : ClockJumps(t)) \/ Crash

Spec == Init /\ [][Next]_vars

\* Postgres grants the lock to every waiter in turn; providers time out.
FairSpec == Spec /\ \A c \in Callers : /\ SF_vars(Locks(c))
                                       /\ WF_vars(Step(c))

-----------------------------------------------------------------------------
(* Properties *)

CallerStates == [pc: {"idle", "waiting", "locked", "granted", "calling"},
                 now: 0..MaxTime, row: Nat, tried: {0, 1}]

TypeOK ==
    /\ clock \in 0..MaxTime /\ jumps \in 0..MaxJumps /\ crashes \in 0..MaxCrashes
    /\ rows \in Seq([at: 0..MaxTime, status: {"pending", "ok", "failed"}, calls: Nat])
    /\ lock \in Callers \cup {NoCaller}
    /\ caller \in [Callers -> CallerStates]
    /\ \A c \in Callers : caller[c].pc = "calling" => caller[c].row \in 1..Len(rows)

\* The reservations dated within one period of 24 hours.
Window(w) == {i \in 1..Len(rows) : w <= rows[i].at /\ rows[i].at <= w + Day}

\* No 24 hours, wherever they begin, hold more reservations than the cap,
\* however many sessions ask at once and however the clock jumps.
WindowCapped == \A w \in 0..MaxTime : Cardinality(Window(w)) <= Cap

\* Who has counted holds the lock, and the room it found is still there.
CountHolds ==
    \A c \in Callers :
        /\ caller[c].pc \in {"locked", "granted"} => lock = c
        /\ caller[c].pc = "granted" => Cardinality(Rolling(caller[c].now)) < Cap

IndInv == TypeOK /\ CountHolds /\ WindowCapped

\* A session gets its turn, and its answer.
CallersFinish == \A c \in Callers : caller[c].pc = "waiting" ~> caller[c].pc = "idle"

\* "The limit bounds calls made": in no 24 hours are the providers called more
\* often than the cap allows.
CallsCapped ==
    \A w \in 0..MaxTime :
        SumFunctionOnSet([i \in 1..Len(rows) |-> rows[i].calls], Window(w)) <= Cap

\* A session is refused only when its own day is full: the rolling count is
\* "a backstop against a clock that jumps backwards".
RefusedOnlyWhenDayFull ==
    [][\A c \in Callers :
          caller[c].pc = "locked" /\ caller'[c].pc = "idle" /\ crashes' = crashes
            => Cardinality(Today(caller[c].now)) >= Cap]_vars
=============================================================================
