---------------------------- MODULE PromotionGate ----------------------------
(***************************************************************************)
(* services/promotion_gate.py: the record of paper trading that stands       *)
(* between a simulation and real money, how evaluate_gate reads it, query    *)
(* after query, and the two that ask it: switch_stage, and every live entry  *)
(* (assert_stage_permitted). Meanwhile the loop, a liquidation and the        *)
(* heartbeat go on writing the record they read the stage for.               *)
(*                                                                          *)
(* One symbol. The thresholds are constants: an edit of them takes the PIN    *)
(* a switch takes. Equity is whatever the account was worth when it was read. *)
(* Of a live entry only the last of its two evaluations is here. The order    *)
(* of late rows is PositionExits', the halt ControlPlane's.                  *)
(***************************************************************************)
EXTENDS FifoMatching

CONSTANTS
    Cost, Prices,   \* what a lot step is bought for (bound: always the same), and
                    \* may be sold for
    Fee,            \* of one lot step, bought or sold
    Equities,       \* what the account may be worth
    MinDays, MinTrades,           \* min_paper_trading_days, min_trade_count
    MinWins, MaxDrawdown,         \* min_win_rate, max_drawdown_pct, in percent
    MaxQty, MaxRows, MaxSnapshots, MaxDay    \* bounds

ASSUME GateAssumption ==
    /\ Prices \cup Equities \cup {Cost} \subseteq Nat \ {0} /\ Fee \in Nat
    /\ {MinDays, MinTrades} \subseteq Nat \ {0}   \* GATE_BOUNDS
    /\ {MinWins, MaxDrawdown} \subseteq 0..100
    /\ {MaxQty, MaxRows, MaxSnapshots, MaxDay} \subseteq Nat

VARIABLES
    current_stage,  \* "paper" or "live"
    trades,         \* executed rows of both stages: [stage, side, quantity, price, day]
    snapshots,      \* wallet_snapshots of both: [stage, value, day]
    day,
    worker,         \* who writes the record, for the stage it read
    gate            \* the evaluation of a switch and that of a live entry

vars == <<current_stage, trades, snapshots, day, worker, gate>>

Workers == {"loop", "sale", "beat"}
Idle    == [pc |-> "none", stage |-> "paper", side |-> "sell", quantity |-> 0]

\* `met`: the criteria judged so far are; `calm`: nothing has been at work on the
\* paper record since it began
NoReading == [pc |-> "none", now |-> 0, met |-> FALSE, calm |-> FALSE]

Init ==
    /\ current_stage = "paper"
    /\ trades = <<>> /\ snapshots = <<>>
    /\ day = 0
    /\ worker = [w \in Workers |-> Idle]
    /\ gate = [g \in {"switch", "entry"} |-> NoReading]

-----------------------------------------------------------------------------
(* The four criteria *)

\* load_trade_records, and match_fifo of it
Records(stage) ==
    SelectSeq([i \in DOMAIN trades |-> [id |-> i, side |-> trades[i].side,
                                        quantity |-> trades[i].quantity]],
              LAMBDA t : trades[t.id].stage = stage)
Matched(stage) == MatchFifo(Records(stage))

\* is_win: net of fees
IsWin(entry, exit) == trades[exit].price - trades[entry].price > 2 * Fee
Wins(closed) == SelectSeq(closed, LAMBDA c : IsWin(c.entry, c.exit))

\* first_entry_at, from what is closed and what is open
FirstEntries(match) == {trades[c.entry].day : c \in Range(match.closed)}
                         \cup {trades[l.id].day : l \in Range(match.lots)}

Equity(stage) == SelectSeq(snapshots, LAMBDA s : s.stage = stage)

\* paper_trading_days: since the first entry or, before any, the first snapshot
None == -1
PaperDays(now) ==
    LET entries == FirstEntries(Matched("paper"))
    IN  IF entries # {} THEN now - Min(entries)
        ELSE IF Equity("paper") # <<>> THEN now - Equity("paper")[1].day
        ELSE None

\* equity_drawdown_pct: the worst fall from the running peak, as the fraction
\* drop/of. (Before it, the fall from the peak that is left at the end.)
LastFall(stage) ==
    LET Next1(f, s) == LET peak == Max({f.peak, s.value})
                       IN  [peak |-> peak, drop |-> peak - s.value, of |-> peak]
    IN  FoldLeft(Next1, [peak |-> 1, drop |-> 0, of |-> 1], Equity(stage))
WorstFall(stage) ==
    LET Next1(f, s) == LET peak == Max({f.peak, s.value})
                       IN  IF (peak - s.value) * f.of > f.drop * peak
                           THEN [peak |-> peak, drop |-> peak - s.value, of |-> peak]
                           ELSE [f EXCEPT !.peak = peak]
    IN  FoldLeft(Next1, [peak |-> 1, drop |-> 0, of |-> 1], Equity(stage))

DrawdownWithin(stage) ==
    /\ Len(Equity(stage)) >= 2
    /\ 100 * WorstFall(stage).drop <= MaxDrawdown * WorstFall(stage).of

-----------------------------------------------------------------------------
(* evaluate_gate *)

\* What has begun on the paper record disturbs the evaluations under way.
Disturbed(stage) ==
    [g \in DOMAIN gate |-> [gate[g] EXCEPT !.calm = @ /\ stage # "paper"]]

NoPaperWork == \A w \in Workers : worker[w].pc # "none" => worker[w].stage # "paper"

Begins(g) == [gate EXCEPT ![g] = [pc |-> "trades", now |-> day, met |-> TRUE,
                                  calm |-> NoPaperWork]]

\* One of its queries returns, and what it is for is judged.
Judges(g, from, to, met) ==
    /\ gate[g].pc = from
    /\ gate' = [gate EXCEPT ![g].pc = to, ![g].met = @ /\ met]
    /\ UNCHANGED <<current_stage, trades, snapshots, day, worker>>

\* min_trade_count and min_win_rate: absent data fails.
ReadsTrades(g) ==
    LET closed == Matched("paper").closed
    IN  Judges(g, "trades", "entries",
               /\ Len(closed) >= MinTrades
               /\ Len(closed) > 0 /\ 100 * Len(Wins(closed)) >= MinWins * Len(closed))

\* min_paper_trading_days: the trades are read anew.
ReadsEntries(g) ==
    LET days == PaperDays(gate[g].now)
    IN  Judges(g, "entries", "equity", days # None /\ days >= MinDays)

\* max_drawdown_pct, and the verdict: the switch goes on to its commit, the
\* entry is sent, or they are refused.
ReadsEquity(g) ==
    /\ gate[g].pc = "equity"
    /\ LET passed == gate[g].met /\ DrawdownWithin("paper")
       IN  /\ gate' = [gate EXCEPT ![g] = IF passed /\ g = "switch"
                                          THEN [@ EXCEPT !.pc = "passed"] ELSE NoReading]
           /\ worker' = IF g = "switch" THEN worker
                        ELSE IF passed THEN [worker EXCEPT !["loop"].pc = "sent"]
                        ELSE [worker EXCEPT !["loop"] = Idle]
    /\ UNCHANGED <<current_stage, trades, snapshots, day>>

(* switch_stage, to live through the gate, and back without it *)

SwitchRequest ==
    /\ current_stage = "paper"
    /\ gate["switch"].pc = "none"
    /\ gate' = Begins("switch")
    /\ UNCHANGED <<current_stage, trades, snapshots, day, worker>>

SwitchCommit ==
    /\ gate["switch"].pc = "passed"
    /\ current_stage' = "live"
    /\ gate' = [gate EXCEPT !["switch"] = NoReading]
    /\ UNCHANGED <<trades, snapshots, day, worker>>

BackToPaper ==
    /\ current_stage = "live"
    /\ current_stage' = "paper"
    /\ UNCHANGED <<trades, snapshots, day, worker, gate>>

-----------------------------------------------------------------------------
(* The record: the loop's orders, a liquidation, the heartbeat *)

\* The holding: no symbol is held that no row accounts for.
Held(stage) == FoldLeft(LAMBDA sum, t : sum + IF t.side = "buy" THEN t.quantity
                                                               ELSE -t.quantity,
                        0, Records(stage))

Starts(w, job) == /\ worker[w].pc = "none"
                  /\ worker' = [worker EXCEPT ![w] = job]

\* An entry. In paper it is sent; in live the gate is asked first. (Before it,
\* an entry for which nothing is asked.)
EnterUnasked(q) ==
    /\ Starts("loop", [pc |-> "sent", stage |-> current_stage, side |-> "buy",
                       quantity |-> q])
    /\ gate' = Disturbed(current_stage)
    /\ UNCHANGED <<current_stage, trades, snapshots, day>>
Enter(q) ==
    /\ Starts("loop", [pc |-> IF current_stage = "live" THEN "asking" ELSE "sent",
                       stage |-> current_stage, side |-> "buy", quantity |-> q])
    /\ gate' = IF current_stage = "live" THEN Begins("entry") ELSE Disturbed("paper")
    /\ UNCHANGED <<current_stage, trades, snapshots, day>>

\* An exit sells what remains of a lot, a liquidation all of the holding.
Sells(w, quantities) ==
    /\ worker[w].pc = "none"
    /\ \E q \in quantities :
         Starts(w, [pc |-> "sent", stage |-> current_stage, side |-> "sell",
                    quantity |-> q])
    /\ gate' = Disturbed(current_stage)
    /\ UNCHANGED <<current_stage, trades, snapshots, day>>

Exit      == Sells("loop", {l.remaining : l \in Range(Matched(current_stage).lots)})
Liquidate == Sells("sale", {Held(current_stage)} \ {0})

\* The order executes and its row is committed, or it fails.
Executes(w) ==
    /\ worker[w].pc = "sent"
    /\ LET job == worker[w]
       IN  \/ /\ Len(trades) < MaxRows
              /\ job.side = "sell" => job.quantity <= Held(job.stage)
              /\ \E p \in IF job.side = "buy" THEN {Cost} ELSE Prices :
                   trades' = Append(trades, [stage |-> job.stage, side |-> job.side,
                                             quantity |-> job.quantity, price |-> p,
                                             day |-> day])
              /\ worker' = [worker EXCEPT ![w].pc = "recorded"]
           \/ /\ worker' = [worker EXCEPT ![w] = Idle]
              /\ UNCHANGED trades
    /\ UNCHANGED <<current_stage, snapshots, day, gate>>

Snapshot(stage) ==
    /\ Len(snapshots) < MaxSnapshots
    /\ \E v \in Equities :
         snapshots' = Append(snapshots, [stage |-> stage, value |-> v, day |-> day])

\* snapshot_wallet after the fill; none if the account cannot be read
SnapshotAfterFill(w) ==
    /\ worker[w].pc = "recorded"
    /\ Snapshot(worker[w].stage) \/ UNCHANGED snapshots
    /\ worker' = [worker EXCEPT ![w] = Idle]
    /\ UNCHANGED <<current_stage, trades, day, gate>>

\* heartbeat_job reads the stage, then the account, and writes the day's
\* baseline (ensure_daily_baseline).
Heartbeat ==
    /\ Starts("beat", [Idle EXCEPT !.pc = "reading", !.stage = current_stage])
    /\ gate' = Disturbed(current_stage)
    /\ UNCHANGED <<current_stage, trades, snapshots, day>>

Baseline ==
    /\ worker["beat"].pc = "reading"
    /\ \/ /\ \A s \in Range(Equity(worker["beat"].stage)) : s.day # day
          /\ Snapshot(worker["beat"].stage)
       \/ UNCHANGED snapshots
    /\ worker' = [worker EXCEPT !["beat"] = Idle]
    /\ UNCHANGED <<current_stage, trades, day, gate>>

NewDay ==
    /\ day < MaxDay
    /\ day' = day + 1
    /\ UNCHANGED <<current_stage, trades, snapshots, worker, gate>>

Next ==
    \/ \E g \in DOMAIN gate : ReadsTrades(g) \/ ReadsEntries(g) \/ ReadsEquity(g)
    \/ SwitchRequest \/ SwitchCommit \/ BackToPaper
    \/ \E q \in 1..MaxQty : Enter(q)
    \/ Exit \/ Liquidate
    \/ \E w \in {"loop", "sale"} : Executes(w) \/ SnapshotAfterFill(w)
    \/ Heartbeat \/ Baseline \/ NewDay

Spec == Init /\ [][Next]_vars

-----------------------------------------------------------------------------
(* Properties *)

\* What the record has to show, stated on its own: lot steps as a queue gives
\* them, and falls between any two snapshots.
Falls(stage) ==
    LET s == Equity(stage)
    IN  \E i, j \in DOMAIN s :
          i < j /\ 100 * (s[i].value - s[j].value) > MaxDrawdown * s[i].value
Positions ==
    Range(Units(Records("paper")).pairs)
Earned ==
    /\ \E i \in DOMAIN trades : /\ trades[i].stage = "paper" /\ trades[i].side = "buy"
                                /\ trades[i].day + MinDays <= day
    /\ Cardinality(Positions) >= MinTrades
    /\ 100 * Cardinality({p \in Positions : IsWin(p[1], p[2])})
         >= MinWins * Cardinality(Positions)
    /\ Len(Equity("paper")) >= 2 /\ ~Falls("paper")

LiveEntry == /\ worker["loop"].stage = "live" \/ worker'["loop"].stage = "live"
             /\ worker["loop"].pc # "sent" /\ worker'["loop"].pc = "sent"
             /\ worker'["loop"].side = "buy"

\* No live entry leaves on a record that does not show it all, even one that the
\* switch let through while the record was changing: the entry asks again. The
\* exception is a paper order, or a heartbeat, that was still at work.
EntriesAreEarned == [][LiveEntry /\ (gate["entry"].pc = "none" \/ gate["entry"].calm)
                         => Earned]_vars

\* The disputed claims, each refuted by an instance the README names.

\* "live additionally requires the gate" (switch_stage): at the switch the
\* record shows it.
SwitchIsEarned == [][current_stage = "paper" /\ current_stage' = "live" => Earned]_vars

\* "if the record degrades after promotion, new risk stops being taken"
\* (assert_stage_permitted): no live entry after live equity fell too far.
DegradedStops == [][LiveEntry => ~Falls("live")]_vars

\* "measured from the earliest evidence of it" (paper_trading_days): the days
\* on record never get fewer.
DaysNeverShrink == [][PaperDays(day)' >= PaperDays(day)]_vars
=============================================================================
