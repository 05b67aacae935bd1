--------------------------- MODULE AdvisoryProofs ---------------------------
(***************************************************************************)
(* The cap of AdvisoryCap for every number of sessions, every cap, every      *)
(* length of a day and any number of jumps of the clock.                     *)
(***************************************************************************)
EXTENDS AdvisoryCap, FiniteSetTheorems, TLAPS

USE CapAssumption, CallerAssumption

RowStates == [at: 0..MaxTime, status: {"pending", "ok", "failed"}, calls: Nat]

\* The counted sets are finite.
LEMMA CountsAreFinite ==
    ASSUME rows \in Seq(RowStates), NEW S \in SUBSET (1..Len(rows))
    PROVE  IsFiniteSet(S) /\ Cardinality(S) \in Nat
<1>1. Len(rows) \in Nat
  OBVIOUS
<1>2. IsFiniteSet(1..Len(rows))
  BY <1>1, FS_Interval
<1> QED
  BY <1>2, FS_Subset, FS_CardinalityType

\* Every count is the same as long as no row is added and no date changes.
LEMMA SameDatesSameCounts ==
    ASSUME IndInv, TypeOK',
           Len(rows') = Len(rows),
           \A i \in 1..Len(rows) : rows'[i].at = rows[i].at
    PROVE  /\ \A w : Window(w)' = Window(w)
           /\ \A t : Rolling(t)' = Rolling(t)
  BY DEF Window, Rolling, Since

\* With the same dates, who has counted or holds a grant is all that matters.
LEMMA SameDatesInv ==
    ASSUME IndInv, TypeOK',
           Len(rows') = Len(rows),
           \A i \in 1..Len(rows) : rows'[i].at = rows[i].at,
           \A c \in Callers :
              /\ caller'[c].pc \in {"locked", "granted"} => lock' = c
              /\ caller'[c].pc = "granted"
                    => Cardinality(Rolling(caller'[c].now)) < Cap
    PROVE  IndInv'
<1>1. /\ \A w : Window(w)' = Window(w)
      /\ \A t : Rolling(t)' = Rolling(t)
  BY SameDatesSameCounts
<1>2. WindowCapped'
  <2>1. WindowCapped
    BY DEF IndInv
  <2> QED
    BY <1>1, <2>1 DEF WindowCapped
<1>3. CountHolds'
  <2>1. \A c \in Callers : Rolling(caller[c].now)' = Rolling(caller'[c].now)
    <3>1. Len(rows') = Len(rows)
      OBVIOUS
    <3> QED
      BY <3>1 DEF Rolling, Since
  <2> QED
    BY <2>1 DEF CountHolds
<1> QED
  BY <1>2, <1>3 DEF IndInv

LEMMA InitInv == Init => IndInv
<1> SUFFICES ASSUME Init PROVE IndInv
  OBVIOUS
<1>1. TypeOK
  BY DEF Init, TypeOK, Idle, CallerStates
<1>2. CountHolds
  BY DEF Init, CountHolds, Idle
<1>3. WindowCapped
  <2>1. \A w \in 0..MaxTime : Window(w) = {}
    BY DEF Init, Window
  <2>2. Cardinality({}) = 0
    BY FS_EmptySet
  <2> QED
    BY <2>1, <2>2 DEF WindowCapped
<1> QED
  BY <1>1, <1>2, <1>3 DEF IndInv

LEMMA BeginsInv ==
    ASSUME IndInv, NEW c \in Callers, Begins(c)
    PROVE  IndInv'
<1>1. TypeOK'
  BY DEF IndInv, TypeOK, Begins, Idle, CallerStates
<1>2. \A d \in Callers :
         /\ caller'[d].pc \in {"locked", "granted"}
               => caller'[d] = caller[d]
  BY DEF IndInv, TypeOK, Begins, Idle, CallerStates
<1> QED
  BY <1>1, <1>2, SameDatesInv DEF IndInv, CountHolds, Begins

LEMMA LocksInv ==
    ASSUME IndInv, NEW c \in Callers, Locks(c)
    PROVE  IndInv'
<1>1. TypeOK'
  BY DEF IndInv, TypeOK, Locks, CallerStates
<1>2. \A d \in Callers : caller[d].pc \notin {"locked", "granted"}
  BY DEF IndInv, CountHolds, Locks
<1>3. \A d \in Callers : /\ caller'[d].pc # "granted"
                         /\ caller'[d].pc = "locked" => d = c
  BY <1>2 DEF IndInv, TypeOK, Locks, CallerStates
<1> QED
  BY <1>1, <1>3, SameDatesInv DEF Locks

LEMMA CountsInv ==
    ASSUME IndInv, NEW c \in Callers, Counts(c)
    PROVE  IndInv'
<1>1. TypeOK'
  <2>0. caller[c] \in CallerStates
    BY DEF IndInv, TypeOK
  <2>1. /\ Idle \in CallerStates /\ Idle.pc # "calling"
        /\ [caller[c] EXCEPT !.pc = "granted"] \in CallerStates
        /\ [caller[c] EXCEPT !.pc = "granted"].pc # "calling"
    BY <2>0 DEF Idle, CallerStates
  <2>2. PICK s \in CallerStates :
           s.pc # "calling" /\ caller' = [caller EXCEPT ![c] = s]
    BY <2>1 DEF Counts
  <2>3. lock' \in Callers \cup {NoCaller}
    BY DEF IndInv, TypeOK, Counts
  <2> QED
    BY <2>2, <2>3 DEF IndInv, TypeOK, Counts
<1>2. lock = c /\ \A d \in Callers \ {c} : caller[d].pc \notin {"locked", "granted"}
  BY DEF IndInv, CountHolds, Counts
<1>3. \A d \in Callers \ {c} : caller'[d] = caller[d]
  BY DEF IndInv, TypeOK, Counts
<1> DEFINE full == \/ Cardinality(Today(caller[c].now)) >= Cap
                   \/ Cardinality(Rolling(caller[c].now)) >= Cap
<1>4. CASE full
  <2>1. \A d \in Callers : caller'[d].pc \notin {"locked", "granted"}
    <3>1. caller'[c].pc = "idle"
      BY <1>4 DEF IndInv, TypeOK, Counts, Idle
    <3> QED
      BY <1>2, <1>3, <3>1
  <2> QED
    BY <1>1, <2>1, SameDatesInv DEF Counts
<1>5. CASE ~full
  <2>1. caller'[c].pc = "granted" /\ caller'[c].now = caller[c].now /\ lock' = c
    BY <1>2, <1>5 DEF IndInv, TypeOK, Counts, CallerStates
  <2>2. Cardinality(Rolling(caller[c].now)) < Cap
    <3>1. Rolling(caller[c].now) \in SUBSET (1..Len(rows))
      BY DEF Rolling, Since
    <3>2. Cardinality(Rolling(caller[c].now)) \in Nat
      BY <3>1, CountsAreFinite DEF IndInv, TypeOK, RowStates
    <3> QED
      BY <1>5, <3>2
  <2>3. \A d \in Callers :
           /\ caller'[d].pc \in {"locked", "granted"} => lock' = d
           /\ caller'[d].pc = "granted"
                 => Cardinality(Rolling(caller'[d].now)) < Cap
    BY <1>2, <1>3, <2>1, <2>2
  <2> QED
    BY <1>1, <2>3, SameDatesInv DEF Counts
<1> QED
  BY <1>4, <1>5

\* The step the cap rests on: the reservation falls in no window that the
\* open-ended rolling count did not cover.
LEMMA ReservesInv ==
    ASSUME IndInv, NEW c \in Callers, Reserves(c)
    PROVE  IndInv'
<1> DEFINE now == caller[c].now
           n == Len(rows) + 1
<1>0. /\ rows \in Seq(RowStates) /\ Len(rows) \in Nat
      /\ now \in 0..MaxTime /\ Row(now, "pending", 0) \in RowStates
  BY DEF IndInv, TypeOK, CallerStates, RowStates, Row
<1>1. /\ rows' \in Seq(RowStates) /\ Len(rows') = n /\ rows'[n].at = now
      /\ \A i \in 1..Len(rows) : rows'[i] = rows[i]
  BY <1>0 DEF Reserves, Row
<1>2. TypeOK'
  <2>1. caller' \in [Callers -> CallerStates]
    <3>1. [pc |-> "calling", now |-> now, row |-> n, tried |-> 0] \in CallerStates
      BY <1>0 DEF CallerStates
    <3> QED
      BY <3>1 DEF IndInv, TypeOK, Reserves
  <2>2. \A d \in Callers : caller'[d].pc = "calling" => caller'[d].row \in 1..Len(rows')
    BY <1>0, <1>1 DEF IndInv, TypeOK, Reserves, CallerStates
  <2> QED
    BY <1>1, <2>1, <2>2 DEF IndInv, TypeOK, Reserves, RowStates
<1>3. CountHolds'
  <2>1. \A d \in Callers \ {c} : caller[d].pc \notin {"locked", "granted"}
    BY DEF IndInv, CountHolds, Reserves
  <2>2. \A d \in Callers : caller'[d].pc \notin {"locked", "granted"}
    BY <2>1 DEF IndInv, TypeOK, Reserves, CallerStates
  <2> QED
    BY <2>2 DEF CountHolds
<1>4. WindowCapped'
  <2> SUFFICES ASSUME NEW w \in 0..MaxTime
               PROVE  Cardinality(Window(w)') <= Cap
    BY DEF WindowCapped
  <2>1. IsFiniteSet(Window(w)) /\ Cardinality(Window(w)) \in Nat
    <3>1. Window(w) \in SUBSET (1..Len(rows))
      BY DEF Window
    <3> QED
      BY <1>0, <3>1, CountsAreFinite
  <2>2. CASE w <= now /\ now <= w + Day
    <3>1. Window(w)' = Window(w) \cup {n}
      BY <1>0, <1>1, <2>2 DEF Window
    <3>2. Window(w) \in SUBSET Rolling(now)
      <4> SUFFICES ASSUME NEW i \in Window(w) PROVE i \in Rolling(now)
        OBVIOUS
      <4>1. /\ i \in 1..Len(rows) /\ w <= rows[i].at
            /\ rows[i] \in RowStates
        BY <1>0 DEF Window
      <4>2. rows[i].at \in Int
        BY <4>1 DEF RowStates
      <4>3. rows[i].at >= now - Day
        BY <1>0, <2>2, <4>1, <4>2
      <4> QED
        BY <4>1, <4>3 DEF Rolling, Since
    <3>3. Rolling(now) \in SUBSET (1..Len(rows))
      BY DEF Rolling, Since
    <3>4. IsFiniteSet(Rolling(now)) /\ Cardinality(Rolling(now)) \in Nat
      BY <1>0, <3>3, CountsAreFinite
    <3>5. Cardinality(Window(w)) <= Cardinality(Rolling(now))
      BY <3>2, <3>4, FS_Subset
    <3>6. Cardinality(Rolling(now)) < Cap
      BY DEF IndInv, CountHolds, Reserves
    <3>7. Cardinality(Window(w) \cup {n}) <= Cardinality(Window(w)) + 1
      <4>1. Cardinality(Window(w) \cup {n})
              = IF n \in Window(w) THEN Cardinality(Window(w))
                                   ELSE Cardinality(Window(w)) + 1
        BY <2>1, FS_AddElement
      <4> QED
        BY <2>1, <4>1
    <3>8. Cardinality(Window(w)) + 1 <= Cap
      BY <2>1, <3>4, <3>5, <3>6
    <3>9. IsFiniteSet(Window(w) \cup {n}) /\ Cardinality(Window(w) \cup {n}) \in Nat
      BY <2>1, FS_AddElement, FS_CardinalityType
    <3> QED
      BY <2>1, <3>1, <3>7, <3>8, <3>9
  <2>3. CASE ~(w <= now /\ now <= w + Day)
    <3>1. Window(w)' = Window(w)
      BY <1>0, <1>1, <2>3, SMTT(30) DEF Window
    <3> QED
      BY <3>1 DEF IndInv, WindowCapped
  <2> QED
    BY <2>2, <2>3
<1> QED
  BY <1>2, <1>3, <1>4 DEF IndInv

\* An answer or a refusal changes one row's status and its session only.
LEMMA CallsInv ==
    ASSUME IndInv, NEW c \in Callers, NEW called \in {0, 1},
           Answered(c) \/ Unavailable(c, called)
    PROVE  IndInv'
<1> DEFINE r == caller[c].row
<1>0. rows \in Seq(RowStates) /\ r \in 1..Len(rows) /\ caller[c].pc = "calling"
  BY DEF IndInv, TypeOK, RowStates, Answered, Unavailable
<1>1. PICK new \in RowStates :
         new.at = rows[r].at /\ rows' = [rows EXCEPT ![r] = new]
  <2>0. rows[r] \in RowStates
    BY <1>0
  <2>1. CASE Answered(c)
    <3> DEFINE new == Row(rows[r].at, "ok", rows[r].calls + 1)
    <3>1. new \in RowStates /\ new.at = rows[r].at
      BY <2>0 DEF RowStates, Row
    <3>2. rows' = [rows EXCEPT ![r] = new]
      BY <2>1 DEF Answered
    <3> QED
      BY <3>1, <3>2
  <2>2. CASE Unavailable(c, called)
    <3> DEFINE status == IF caller[c].tried = 1 THEN "failed" ELSE rows[r].status
               new    == Row(rows[r].at, status, rows[r].calls + called)
    <3>1. status \in {"pending", "ok", "failed"}
      BY <2>0 DEF RowStates
    <3>2. new \in RowStates /\ new.at = rows[r].at
      BY <2>0, <3>1 DEF RowStates, Row
    <3>3. rows' = [rows EXCEPT ![r] = new]
      BY <2>2 DEF Unavailable
    <3> QED
      BY <3>2, <3>3
  <2> QED
    BY <2>1, <2>2
<1>2. /\ rows' \in Seq(RowStates) /\ Len(rows') = Len(rows)
      /\ \A i \in 1..Len(rows) : rows'[i].at = rows[i].at
  BY <1>0, <1>1
<1>3. PICK ended \in CallerStates :
         /\ ended.pc \notin {"locked", "granted"}
         /\ ended.pc = "calling" => ended.row = r
         /\ caller' = [caller EXCEPT ![c] = ended]
  <2>0. caller[c] \in CallerStates
    BY DEF IndInv, TypeOK
  <2>1. CASE Answered(c)
    <3>1. Idle \in CallerStates /\ Idle.pc = "idle"
      BY DEF Idle, CallerStates
    <3> QED
      BY <2>1, <3>1 DEF Answered
  <2>2. CASE Unavailable(c, called)
    <3>1. CASE caller[c].tried = 1
      <4>1. Idle \in CallerStates /\ Idle.pc = "idle"
        BY DEF Idle, CallerStates
      <4> QED
        BY <2>2, <3>1, <4>1 DEF Unavailable
    <3>2. CASE caller[c].tried # 1
      <4> DEFINE again == [caller[c] EXCEPT !.tried = 1]
      <4>1. again \in CallerStates /\ again.pc = "calling" /\ again.row = r
        BY <1>0, <2>0 DEF CallerStates
      <4>2. caller' = [caller EXCEPT ![c] = again]
        BY <2>2, <3>2 DEF Unavailable
      <4> QED
        BY <4>1, <4>2
    <3> QED
      BY <3>1, <3>2
  <2> QED
    BY <2>1, <2>2
<1>4. lock' = lock /\ clock' = clock /\ jumps' = jumps /\ crashes' = crashes
  BY DEF Answered, Unavailable
<1>5. TypeOK'
  BY <1>0, <1>2, <1>3, <1>4 DEF IndInv, TypeOK, RowStates
<1>6. \A d \in Callers :
         caller'[d].pc \in {"locked", "granted"} => caller'[d] = caller[d]
  BY <1>3 DEF IndInv, TypeOK
<1> QED
  BY <1>2, <1>4, <1>5, <1>6, SameDatesInv DEF IndInv, CountHolds

LEMMA ClockInv ==
    ASSUME IndInv, Tick \/ (\E t \in 0..MaxTime : ClockJumps(t))
    PROVE  IndInv'
<1>1. TypeOK'
  <2>1. CASE Tick
    BY <2>1 DEF IndInv, TypeOK, Tick
  <2>2. ASSUME NEW t \in 0..MaxTime, ClockJumps(t) PROVE TypeOK'
    BY <2>2 DEF IndInv, TypeOK, ClockJumps
  <2> QED
    BY <2>1, <2>2
<1>2. UNCHANGED <<rows, lock, caller>>
  BY DEF Tick, ClockJumps
<1> QED
  BY <1>1, <1>2, SameDatesInv DEF IndInv, CountHolds

LEMMA CrashInv ==
    ASSUME IndInv, Crash
    PROVE  IndInv'
<1>1. TypeOK'
  BY DEF IndInv, TypeOK, Crash, Idle, CallerStates
<1> QED
  BY <1>1, SameDatesInv DEF Crash, Idle

\* Every step keeps the invariant.
LEMMA Inductive == IndInv /\ [Next]_vars => IndInv'
<1> SUFFICES ASSUME IndInv, [Next]_vars PROVE IndInv'
  OBVIOUS
<1>1. ASSUME NEW c \in Callers, Begins(c) \/ Step(c) PROVE IndInv'
  <2>1. CASE Begins(c)
    BY <2>1, BeginsInv
  <2>2. CASE Locks(c)
    BY <2>2, LocksInv
  <2>3. CASE Counts(c)
    BY <2>3, CountsInv
  <2>4. CASE Reserves(c)
    BY <2>4, ReservesInv
  <2>5. ASSUME NEW called \in {0, 1}, Answered(c) \/ Unavailable(c, called)
        PROVE  IndInv'
    BY <2>5, CallsInv
  <2> QED
    BY <1>1, <2>1, <2>2, <2>3, <2>4, <2>5 DEF Step
<1>2. CASE Tick \/ (\E t \in 0..MaxTime : ClockJumps(t))
  BY <1>2, ClockInv
<1>3. CASE Crash
  BY <1>3, CrashInv
<1>4. CASE UNCHANGED vars
  BY <1>4 DEF vars, IndInv, TypeOK, CountHolds, WindowCapped, Window, Rolling, Since
<1> QED
  BY <1>1, <1>2, <1>3, <1>4 DEF Next

\* The invariant of count, lock and windows holds in every state.
THEOREM InvariantHolds == Spec => []IndInv
<1> QED
  BY InitInv, Inductive, PTL DEF Spec

\* The daily cap of reserve_call_slot: no 24 hours, wherever they begin, hold
\* more reserved calls than llm_calls_per_day, with any number of sessions and
\* any jumps of the clock.
THEOREM CapHolds == Spec => []WindowCapped
<1>1. IndInv => WindowCapped
  BY DEF IndInv
<1> QED
  BY <1>1, InvariantHolds, PTL
=============================================================================
