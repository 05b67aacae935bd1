---------------------------- MODULE MCTradingDay ----------------------------
(* TradingDay on small instances. *)
EXTENDS TradingDay, TLC

Symmetry == Permutations(Symbols)

Market(S, c, F) == [symbols |-> S, cash |-> c, faults |-> F]

\* Two symbols in a calm market, and one of them in a faulty one.
CalmOrFaulty == {Market(Symbols, 20, {})} \cup {Market({s}, 8, AllFaults) : s \in Symbols}
CalmOnly     == {Market(Symbols, 20, {})}
UnpricedOnly == {Market(Symbols, 20, {"unpriced"})}
=============================================================================
