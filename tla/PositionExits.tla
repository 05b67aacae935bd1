---------------------------- MODULE PositionExits ----------------------------
(***************************************************************************)
(* How the positions of one symbol are closed: the exit pass of the trade    *)
(* loop takes the open lots match_fifo finds, asks of each whether a rule    *)
(* closes it, and sells what remains of it; a liquidation sells the holding  *)
(* of the account. Both work on what they read before the awaits, while      *)
(* orders may be answered before they have executed.                        *)
(***************************************************************************)
EXTENDS FifoMatching

CONSTANTS
    MaxTrades,    \* bound on rows
    MaxEntries,   \* bound on buys
    MaxRefusals,  \* bound on exits the risk engine rejects
    MaxQty,       \* the most one buy takes
    Foreign,      \* holding of the account that no row accounts for
    Faults        \* which of AllFaults happen

AllFaults == { "resting",      \* an order is answered before it has executed
               "unsignalled",  \* no active model, or the symbol taken off
               "liquidate" }   \* POST /system/liquidate

ASSUME ExitAssumption == /\ {MaxTrades, MaxEntries, MaxRefusals, MaxQty, Foreign}
                              \subseteq Nat
                         /\ Faults \subseteq AllFaults

VARIABLES
    trades,      \* the rows in creation order: [side, quantity, status, of].
                 \* A failed order leaves a row no record counts: none here
    holding,     \* the account's free quantity
    elapsed,     \* the buys whose prediction horizon has passed
    signalled,   \* generate_signal yields a price
    pass,        \* the exit pass: the lots it has still to look at
    sale,        \* the liquidation: the quantity it read
    refusals

vars == <<trades, holding, elapsed, signalled, pass, sale, refusals>>

\* load_trade_records: the executed rows, oldest first (before it, the
\* definition with the rows read newest first)
Recorded(records, i) ==
    IF trades[i].status = "filled"
    THEN Append(records, [id |-> i, side |-> trades[i].side,
                          quantity |-> trades[i].quantity])
    ELSE records
Executed == FoldLeftDomain(Recorded, <<>>, trades)
RecordsNewestFirst == Reverse(Executed)
Records == Executed

Positions == MatchFifo(Records)

Init ==
    /\ trades = <<>>
    /\ holding = Foreign
    /\ elapsed = {}
    /\ signalled = TRUE
    /\ pass = <<>>
    /\ sale = 0
    /\ refusals = 0

Statuses == {"filled"} \cup IF "resting" \in Faults THEN {"submitted"} ELSE {}

\* A row is written and its order answered; `of` is the lot a sell is for.
Row(side, quantity, status, of) ==
    /\ Len(trades) < MaxTrades
    /\ trades' = Append(trades, [side |-> side, quantity |-> quantity,
                                 status |-> status, of |-> of])

-----------------------------------------------------------------------------
\* _process_entries, as far as positions see it
Enter(q) ==
    /\ Cardinality({i \in DOMAIN trades : trades[i].side = "buy"}) < MaxEntries
    /\ pass = <<>>
    /\ \E status \in Statuses :
         /\ Row("buy", q, status, 0)
         /\ holding' = IF status = "filled" THEN holding + q ELSE holding
    /\ UNCHANGED <<elapsed, signalled, pass, sale, refusals>>

\* _process_exits: the open lots, read once at its start
BeginExits ==
    /\ pass = <<>>
    /\ Positions.lots # <<>>
    /\ pass' = Positions.lots
    /\ UNCHANGED <<trades, holding, elapsed, signalled, sale, refusals>>

\* evaluate_exit on a lot, given which of stop and target the latest candle
\* touched: the stop wins a tie, the horizon comes last.
ExitReason(id, touched) ==
    IF "stop" \in touched THEN "stop_hit"
    ELSE IF "target" \in touched THEN "target_reached"
    ELSE IF id \in elapsed THEN "horizon_elapsed" ELSE "none"

\* The exchange takes, and locks, a sell that the free holding covers; any
\* other fails.
Sells(q, of) ==
    \/ /\ holding >= q
       /\ holding' = holding - q
       /\ \E status \in Statuses : Row("sell", q, status, of)
    \/ /\ holding < q
       /\ UNCHANGED <<trades, holding>>

\* One lot: without a price or a reason it is skipped, and so it is when its
\* order is rejected or raises.
ExitNextLot(touched) ==
    /\ pass # <<>>
    /\ pass' = Tail(pass)
    /\ LET lot == Head(pass)
       IN  IF signalled /\ ExitReason(lot.id, touched) # "none"
           THEN Sells(lot.remaining, lot.id)
           ELSE UNCHANGED <<trades, holding>>
    /\ UNCHANGED <<elapsed, signalled, sale, refusals>>

ExitRejected ==
    /\ pass # <<>>
    /\ refusals < MaxRefusals
    /\ refusals' = refusals + 1
    /\ pass' = Tail(pass)
    /\ UNCHANGED <<trades, holding, elapsed, signalled, sale>>

\* liquidate_all: the balance is read, later sold
LiquidationReads ==
    /\ "liquidate" \in Faults
    /\ sale = 0 /\ holding > 0
    /\ sale' = holding
    /\ UNCHANGED <<trades, holding, elapsed, signalled, pass, refusals>>

LiquidationSells ==
    /\ sale > 0
    /\ Sells(sale, 0)
    /\ sale' = 0
    /\ UNCHANGED <<elapsed, signalled, pass, refusals>>

\* An answered order executes, and reconciliation records it.
Resolved(i) ==
    /\ i \in DOMAIN trades
    /\ trades[i].status = "submitted"
    /\ trades' = [trades EXCEPT ![i].status = "filled"]
    /\ holding' = IF trades[i].side = "buy" THEN holding + trades[i].quantity
                                            ELSE holding
    /\ UNCHANGED <<elapsed, signalled, pass, sale, refusals>>

\* horizon_expiry of the entry passes
Elapses(i) ==
    /\ i \in DOMAIN trades \ elapsed
    /\ trades[i].side = "buy"
    /\ elapsed' = elapsed \cup {i}
    /\ UNCHANGED <<trades, holding, signalled, pass, sale, refusals>>

\* The active model is archived or promoted, the symbol dropped or added.
SignalChanges ==
    /\ "unsignalled" \in Faults
    /\ signalled' = ~signalled
    /\ UNCHANGED <<trades, holding, elapsed, pass, sale, refusals>>

Exits == ExitRejected \/ \E touched \in SUBSET {"stop", "target"} : ExitNextLot(touched)

Next == \/ \E q \in 1..MaxQty : Enter(q)
        \/ BeginExits \/ Exits
        \/ LiquidationReads \/ LiquidationSells
        \/ \E i \in 1..MaxTrades : Resolved(i) \/ Elapses(i)
        \/ SignalChanges

Spec == Init /\ [][Next]_vars

-----------------------------------------------------------------------------
(* Properties *)

\* Whatever sequence of executed trades exits, liquidations and late answers
\* bring about, match_fifo pairs every lot step first in, first out.
MatchingIsFifo == AgreesWithQueue(Records)

\* "Should be zero in normal operation": once every order is resolved, no sell
\* that was executed is without a lot to close.
NothingUnmatched ==
    (\A i \in DOMAIN trades : trades[i].status # "submitted")
        => Positions.unmatched = 0

\* The position a sell closes is the one whose exit reason the row carries
\* (a liquidation is for none in particular).
ExitsCloseTheirLot ==
    \A i \in DOMAIN Positions.closed :
        LET c == Positions.closed[i]
        IN  trades[c.exit].of \in {c.entry, 0}
=============================================================================
