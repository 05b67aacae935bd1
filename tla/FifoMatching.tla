---------------------------- MODULE FifoMatching ----------------------------
(***************************************************************************)
(* match_fifo of services/position_tracker.py, for one symbol (its lots are  *)
(* kept per symbol and never mix). Trades come ordered by (created_at, id)   *)
(* and quantities count lot steps, so the 1e-12 tolerances become zero.      *)
(***************************************************************************)
EXTENDS Integers, FiniteSetsExt, SequencesExt

(* A trade is [id, side, quantity]. What has been matched so far: the open     *)
(* lots, oldest first, the closed positions, and the sells without a lot.    *)
NoMatch == [lots |-> <<>>, closed |-> <<>>, unmatched |-> 0]

\* (First, a lot that goes before the older ones.)
OpenedInFront(match, trade) ==
    [match EXCEPT !.lots = <<[id |-> trade.id, remaining |-> trade.quantity]>> \o @]
Opened(match, trade) ==
    [match EXCEPT !.lots = Append(@, [id |-> trade.id,
                                      remaining |-> trade.quantity])]

\* A sell takes of a lot what is `left` of it to close. What it leaves of the
\* lot stays open.
TakeFrom(sale, lot) ==
    LET matched == Min({sale.left, lot.remaining})
    IN  [sale EXCEPT
           !.left = @ - matched,
           !.lots = IF lot.remaining > matched
                    THEN Append(@, [lot EXCEPT !.remaining = @ - matched]) ELSE @,
           !.closed = IF matched > 0
                      THEN Append(@, [entry |-> lot.id, exit |-> sale.id,
                                      quantity |-> matched]) ELSE @]

Sale(trade, closed) ==
    [id |-> trade.id, left |-> trade.quantity, lots |-> <<>>, closed |-> closed]

Closed(match, trade) ==
    LET sale == FoldLeft(TakeFrom, Sale(trade, match.closed), match.lots)
    IN  [lots |-> sale.lots, closed |-> sale.closed,
         unmatched |-> match.unmatched + sale.left]

Match(match, trade) == IF trade.side = "buy" THEN Opened(match, trade)
                                             ELSE Closed(match, trade)

MatchFifo(trades) == FoldLeft(Match, NoMatch, trades)

-----------------------------------------------------------------------------
(* The definition it is held to: one lot step at a time, out of a queue.      *)

UnitQueue == [queue |-> <<>>, pairs |-> <<>>, unmatched |-> 0]

UnitStep(units, trade) ==
    LET n == Min({trade.quantity, Len(units.queue)})
    IN  IF trade.side = "buy"
        THEN [units EXCEPT !.queue = @ \o [i \in 1..trade.quantity |-> trade.id]]
        ELSE [queue |-> SubSeq(units.queue, n + 1, Len(units.queue)),
              pairs |-> units.pairs \o
                        [i \in 1..n |-> <<units.queue[i], trade.id>>],
              unmatched |-> units.unmatched + trade.quantity - n]

Units(trades) == FoldLeft(UnitStep, UnitQueue, trades)

\* The lot steps in lots, and in closed positions
LotUnits(lots) == FlattenSeq([i \in DOMAIN lots |->
                      [k \in 1..lots[i].remaining |-> lots[i].id]])
PairUnits(closed) == FlattenSeq([i \in DOMAIN closed |->
                       [k \in 1..closed[i].quantity |->
                          <<closed[i].entry, closed[i].exit>>]])

\* Every lot step bought is sold, or still open, as in a first-in first-out
\* queue of single steps, what the queue could not give is unmatched, and no lot
\* stays open with nothing in it.
AgreesWithQueue(trades) ==
    LET units == Units(trades)
        match == MatchFifo(trades)
    IN  /\ LotUnits(match.lots) = units.queue
        /\ \A i \in DOMAIN match.lots : match.lots[i].remaining > 0
        /\ PairUnits(match.closed) = units.pairs
        /\ match.unmatched = units.unmatched
=============================================================================
