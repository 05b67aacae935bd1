----------------------------- MODULE OrderLedger -----------------------------
(***************************************************************************)
(* What the order book-keeping of trading_engine.py promises: an order only *)
(* trades after the intention was recorded, the recorded position of an     *)
(* open order never runs ahead of what executed, and the ledger settles an  *)
(* order once, when it can no longer trade, at exactly what executed.        *)
(***************************************************************************)
EXTENDS Integers

CONSTANTS Orders, Qty

VARIABLES intended,   \* a row exists
          closed,     \* the order can execute no further
          executed,   \* what the exchange executed
          settled,    \* the ledger has given its verdict
          position    \* what the ledger says executed

vars == <<intended, closed, executed, settled, position>>

Init == /\ intended = [o \in Orders |-> FALSE]
        /\ closed = [o \in Orders |-> FALSE]
        /\ executed = [o \in Orders |-> 0]
        /\ settled = [o \in Orders |-> FALSE]
        /\ position = [o \in Orders |-> 0]

Intend(o) ==
    /\ ~intended[o]
    /\ intended' = [intended EXCEPT ![o] = TRUE]
    /\ UNCHANGED <<closed, executed, settled, position>>

\* More of the order executes; the last of it closes the order.
Execute(o) ==
    /\ intended[o] /\ ~closed[o]
    /\ \E q \in (executed[o] + 1)..Qty :
         /\ executed' = [executed EXCEPT ![o] = q]
         /\ closed' = [closed EXCEPT ![o] = (q = Qty)]
    /\ UNCHANGED <<intended, settled, position>>

\* Cancelled, expired, refused, lost, or never sent by a process that died.
Close(S) ==
    /\ \A o \in S : intended[o] /\ ~closed[o]
    /\ closed' = [o \in Orders |-> closed[o] \/ o \in S]
    /\ UNCHANGED <<intended, executed, settled, position>>

\* One order's share of a commit: left alone, observed, or settled.
Booked(o) ==
    \/ settled'[o] = settled[o] /\ position'[o] = position[o]
    \/ /\ intended[o] /\ ~settled[o] /\ ~settled'[o]
       /\ position'[o] \in position[o]..executed[o]
    \/ /\ intended[o] /\ closed[o] /\ ~settled[o] /\ settled'[o]
       /\ position'[o] = executed[o]

Book ==
    /\ settled' \in [Orders -> BOOLEAN]
    /\ position' \in [Orders -> 0..Qty]
    /\ \A o \in Orders : Booked(o)
    /\ UNCHANGED <<intended, closed, executed>>

Next == \/ \E o \in Orders : Intend(o) \/ Execute(o)
        \/ \E S \in SUBSET Orders : Close(S)
        \/ Book

Spec == Init /\ [][Next]_vars

-----------------------------------------------------------------------------
\* A settled order stands in the ledger at exactly what executed.
SettledExactly ==
    \A o \in Orders : settled[o] => closed[o] /\ position[o] = executed[o]
=============================================================================
