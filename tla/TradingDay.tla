----------------------------- MODULE TradingDay -----------------------------
(***************************************************************************)
(* RiskRules at work: the entries the trade loop proposes day after day,     *)
(* assessed against an account that is read from the exchange, a ledger that *)
(* counts executed rows, and wallet snapshots taken after fills and by the   *)
(* heartbeat, each of which may lag behind the others.                       *)
(*                                                                          *)
(* An entry is read, assessed and sent in separate steps, with awaits in     *)
(* between; a fill and the book-keeping after it (row, snapshot) are one     *)
(* step here, their own interleavings being OrderLifecycle's. Fees, dust     *)
(* and the two reads of the account by one entry are left out.               *)
(***************************************************************************)
EXTENDS RiskRules, Functions

CONSTANTS
    Symbols,
    Orders,          \* orders that may rest at one time
    Prices,          \* what one lot step of a symbol may cost
    MaxPositionPct, MaxExposurePct, MaxLossPct, MinNotional, MaxTrades,
    MaxMoves,        \* bound on price moves in a behaviour
    Markets          \* [symbols, cash, faults]: the symbols that are traded, the
                     \* account at the start, and which of AllFaults happen

AllFaults == { "resting",   \* an order is answered before it has executed
               "unpriced",  \* a price lookup fails and its asset is left out
               "drift" }    \* the market moves while an entry is under way

ASSUME DayAssumption == /\ Prices \subseteq Nat \ {0}
                        /\ MaxMoves \in Nat /\ IsFiniteSet(Orders) /\ IsFiniteSet(Symbols)
                        /\ MaxPositionPct \in 0..100 /\ MaxExposurePct \in 0..100
                        /\ MaxLossPct \in 0..100
                        /\ MinNotional \in Nat /\ MaxTrades \in Nat
                        /\ Markets \subseteq [symbols: SUBSET Symbols, cash: Nat,
                                          faults: SUBSET AllFaults]

VARIABLES
    cash, held,      \* the exchange account, free and locked together
    price,           \* the market
    resting,         \* order -> what of a buy is answered but not yet executed
    opening,         \* the latest snapshot of an earlier day
    first, latest,   \* today's first snapshot, and the latest of all
    trades_today,    \* rows filled or partial, created today
    entries,         \* history: those of them that are buys
    entry,           \* the entry under way
    moves,
    market           \* the one of Markets of this behaviour

account  == <<cash, held>>
records  == <<opening, first, latest>>
counters == <<trades_today, entries>>
vars     == <<account, price, resting, records, counters, entry, moves, market>>

limits == [max_position_pct |-> MaxPositionPct, max_exposure_pct |-> MaxExposurePct,
           max_loss_pct |-> MaxLossPct, min_notional |-> MinNotional,
           max_trades |-> MaxTrades, min_confidence |-> 1,
           required |-> {"binance_api"}, max_age |-> 1]

NoSnapshot == [kind |-> "none", value |-> 0]
NoEntry    == [pc |-> "none", symbol |-> "none", quantity |-> 0, price |-> 0]
\* uncounted: 1 if its row is today's and yet to be counted
NoRest     == [symbol |-> "none", quantity |-> 0, price |-> 0, uncounted |-> 0]

\* _price_assets over the assets whose lookup succeeded
Worth(h, priced) == SumFunctionOnSet([s \in Symbols |-> h[s] * price[s]], priced)
Exposed          == Worth(held, Symbols)
Total            == cash + Exposed

\* a price lookup may fail for any held asset
Readable == IF "unpriced" \in market.faults THEN SUBSET Symbols ELSE {Symbols}

\* get_daily_pnl: against the day-open snapshot unless it is too old, or, when
\* there never was one, against today's first. (First, the definition that takes
\* today's whenever the other is no good.)
PnlOfToday ==
    LET base == IF opening.kind = "taken" THEN opening ELSE first
    IN  [available |-> /\ latest.kind # "none" /\ base.kind = "taken"
                       /\ base.value > 0,
         baseline |-> base.value, current |-> latest.value]
Pnl == LET base == IF opening.kind = "none" THEN first ELSE opening
       IN  [available |-> /\ latest.kind # "none" /\ base.kind = "taken"
                          /\ base.value > 0,
            baseline |-> base.value, current |-> latest.value]

Init ==
    /\ market \in Markets
    /\ cash = market.cash
    /\ held = [s \in Symbols |-> 0]
    /\ price \in [Symbols -> Prices]
    /\ \A s \in Symbols \ market.symbols : price[s] = CHOOSE p \in Prices : TRUE
    /\ resting = [o \in Orders |-> NoRest]
    /\ opening = NoSnapshot /\ first = NoSnapshot /\ latest = NoSnapshot
    /\ trades_today = 0 /\ entries = 0
    /\ entry = NoEntry
    /\ moves = 0

\* take_snapshot
Snapshot(value) ==
    LET taken == [kind |-> "taken", value |-> value]
    IN  /\ latest' = taken
        /\ first' = IF first.kind = "none" THEN taken ELSE first
        /\ UNCHANGED opening

\* snapshot_wallet of the account as the fill left it; none if unreadable
SnapshotAfterFill(c, h) == \/ \E priced \in Readable : Snapshot(c + Worth(h, priced))
                           \/ UNCHANGED records

-----------------------------------------------------------------------------
(* Entries *)

\* _process_entries: sized at the full position limit, at the candle's close
Propose(s) ==
    /\ entry.pc = "none"
    /\ \E priced \in Readable,
          close \in IF "drift" \in market.faults THEN Prices ELSE {price[s]} :
         LET quantity == ((cash + Worth(held, priced)) * MaxPositionPct) \div (100 * close)
         IN  /\ quantity > 0
             /\ entry' = [pc |-> "proposed", symbol |-> s,
                          quantity |-> quantity, price |-> close]
    /\ UNCHANGED <<account, price, resting, records, counters, moves, market>>

\* place_order: account read, rules run; what they leave goes on to be sent
Assess ==
    /\ entry.pc = "proposed"
    /\ \E priced \in Readable, volatility \in {"normal", "abnormal"},
          age \in {0, 2}, confidence \in {0, 1} :
         LET p == [side |-> "buy", quantity |-> entry.quantity,
                   price |-> entry.price, scored |-> TRUE,
                   confidence |-> confidence]
             ctx == [wallet |-> cash + Worth(held, priced), exposure |-> Worth(held, priced),
                     pnl |-> Pnl, volatility |-> volatility,
                     components |-> [name \in {"binance_api"} |->
                                       [status |-> "online", age |-> age]],
                     trades_today |-> trades_today]
             verdict == Evaluate(p, ctx, limits)
         IN  entry' = IF Approves(verdict) /\ verdict.quantity > 0
                      THEN [entry EXCEPT !.pc = "approved",
                                         !.quantity = verdict.quantity]
                      ELSE NoEntry
    /\ UNCHANGED <<account, price, resting, records, counters, moves, market>>

Locked == SumFunctionOnSet([o \in Orders |-> resting[o].quantity * resting[o].price],
                           Orders)

\* count_trades_today: k of q executed makes a row filled or partial.
\* (First, counting the filled rows only.)
CountedWhenFilled(k, q) == IF k = q THEN 1 ELSE 0
Counted(k, q) == IF k > 0 THEN 1 ELSE 0

\* The order is sent and answered: refused, executed, or answered on the way.
Send ==
    /\ entry.pc = "approved"
    /\ LET s == entry.symbol
           q == entry.quantity
       IN  \/ /\ q * price[s] <= cash - Locked
              /\ \E k \in IF "resting" \in market.faults THEN 0..q ELSE {q} :
                   /\ cash' = cash - k * price[s]
                   /\ held' = [held EXCEPT ![s] = @ + k]
                   /\ trades_today' = trades_today + Counted(k, q)
                   /\ entries' = entries + (IF k > 0 THEN 1 ELSE 0)
                   /\ IF k = q THEN UNCHANGED resting
                      ELSE \E o \in Orders :
                             /\ resting[o] = NoRest
                             /\ resting' = [resting EXCEPT ![o] =
                                  [symbol |-> s, quantity |-> q - k, price |-> price[s],
                                   uncounted |-> IF k > 0 THEN 0 ELSE 1]]
                   /\ IF k = 0 THEN UNCHANGED records
                               ELSE SnapshotAfterFill(cash', held')
           \/ UNCHANGED <<account, resting, counters, records>>
    /\ entry' = NoEntry
    /\ UNCHANGED <<price, moves, market>>

\* What was left of an order executes, and reconciliation writes its row.
Reconciled(o) ==
    /\ resting[o] # NoRest
    /\ LET rest == resting[o]
       IN  /\ cash' = cash - rest.quantity * rest.price
           /\ held' = [held EXCEPT ![rest.symbol] = @ + rest.quantity]
           /\ trades_today' = trades_today + rest.uncounted
           /\ entries' = entries + rest.uncounted
           /\ SnapshotAfterFill(cash', held')
    /\ resting' = [resting EXCEPT ![o] = NoRest]
    /\ UNCHANGED <<price, entry, moves, market>>

-----------------------------------------------------------------------------
(* The rest of the day *)

\* An exit, or a holding liquidated.
Sell(s) ==
    /\ entry.pc = "none"
    /\ held[s] > 0
    /\ \E q \in 1..held[s] :
         /\ cash' = cash + q * price[s]
         /\ held' = [held EXCEPT ![s] = @ - q]
         /\ trades_today' = trades_today + 1
         /\ SnapshotAfterFill(cash', held')
    /\ trades_today <= MaxTrades   \* bound: no rule stops a sell here
    /\ UNCHANGED <<price, resting, entries, entry, moves, market>>

\* heartbeat_job: ensure_daily_baseline
Heartbeat ==
    /\ first.kind = "none"
    /\ \E priced \in Readable : Snapshot(cash + Worth(held, priced))
    /\ UNCHANGED <<account, price, resting, counters, entry, moves, market>>

PriceMoves(s) ==
    /\ "drift" \in market.faults \/ entry.pc = "none"
    /\ moves < MaxMoves
    /\ moves' = moves + 1
    /\ \E p \in Prices \ {price[s]} : price' = [price EXCEPT ![s] = p]
    /\ UNCHANGED <<account, resting, records, counters, entry, market>>

\* The UTC day changes. A snapshot older than the day that ends is too old to
\* open the next (max_pnl_baseline_age_hours = 24).
NewDay ==
    /\ opening' = IF first.kind = "taken" THEN latest
                  ELSE IF latest.kind = "none" THEN NoSnapshot
                  ELSE [kind |-> "stale", value |-> 0]
    /\ first' = NoSnapshot
    /\ trades_today' = 0 /\ entries' = 0
    /\ resting' = [o \in Orders |-> [resting[o] EXCEPT !.uncounted = 0]]
    /\ UNCHANGED <<account, price, latest, entry, moves, market>>

Next == \/ \E s \in market.symbols : Propose(s) \/ Sell(s) \/ PriceMoves(s)
        \/ \E o \in Orders : Reconciled(o)
        \/ Assess \/ Send \/ Heartbeat \/ NewDay

Spec == Init /\ [][Next]_vars

-----------------------------------------------------------------------------
(* Properties *)

\* No purchase takes the exposure over its cap, whatever is held already, in a
\* market that can be read and stands still while an order is under way.
WithinCap == Exposed' > Exposed /\ price' = price
               => 100 * Exposed' <= MaxExposurePct * Total'
ExposureStaysCapped == [][market.faults = {} => WithinCap]_vars

\* No more entries execute in a day than the frequency cap allows, but for the
\* orders that were answered, and so not counted, when the cap was last asked.
EntriesStayCapped ==
    entries <= MaxTrades + IF "resting" \in market.faults THEN Cardinality(Orders) ELSE 0

\* An approved order can be paid: the caps alone keep it within free cash, under
\* the same conditions.
ApprovedIsAffordable ==
    market.faults = {} /\ entry.pc = "approved"
      => entry.quantity * entry.price <= cash - Locked

\* The buys that were sent today, as far as they execute: a row that is still to
\* be counted is that of an order at rest.
Uncounted == {o \in Orders : resting[o].uncounted = 1}
Sent == entries + Cardinality(Uncounted)

\* Nothing is bought without a baseline: no order is sent before the first
\* snapshot and, all day long after a day that left none, none but the one that
\* was approved before midnight and not yet sent.
BuysNeedBaseline ==
    /\ latest.kind = "none" => Sent = 0
    /\ opening.kind = "stale" => Sent <= 1

Approved == entry.pc = "proposed" /\ entry'.pc = "approved"

\* An account that lost max_daily_loss_pct since the day opened buys no more.
LossStopsEntries ==
    [][Approved => 100 * (Total - Pnl.baseline) > -MaxLossPct * Pnl.baseline]_vars

\* "Total exposure across all symbols must stay <= max_total_exposure_pct",
\* even when the account read left something out.
ExposureAlwaysCapped == [][WithinCap]_vars
=============================================================================
