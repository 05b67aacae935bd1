--------------------------- MODULE OrderRefinement ---------------------------
(***************************************************************************)
(* OrderLifecycle implements OrderLedger as long as the environment produces *)
(* none of AllFaults: crashes at any point, lost requests, failed lookups,   *)
(* unreadable accounts and failed commits included.                          *)
(***************************************************************************)
EXTENDS OrderLifecycle

\* No further execution: ended, never arrived, or never to be sent.
Dead(o) == \/ exStatus[o] \in {"FILLED", "CANCELED", "EXPIRED"}
           \/ request[o] = "dropped"
           \/ /\ status[o] # "none" /\ request[o] = "idle"
              /\ \A s \in Submitters : sub[s].order # o

Ledger == INSTANCE OrderLedger WITH
    intended <- [o \in Orders |-> status[o] # "none"],
    closed   <- [o \in Orders |-> Dead(o)],
    settled  <- [o \in Orders |-> status[o] \in Statuses \ Unresolved],
    position <- [o \in Orders |-> IF InLedger(o) THEN quantity[o] ELSE 0]

\* The order rows keep the promise of the ledger.
ImplementsLedger == Ledger!Spec
(* Why FilledInFull, FailedTookNoPosition and the refinement hold then, on top  *)
(* of IndInv: sessions take turns, so what one has read of a row or heard of an  *)
(* order is still so when it commits.                                            *)

\* One session at a time holds rows.
TakeTurns ==
    /\ \A s, t \in Submitters : sub[s].pc # "idle" /\ sub[t].pc # "idle" => s = t
    /\ \A r, q \in Reconcilers : rec[r].pc # "idle" /\ rec[q].pc # "idle" => r = q
    /\ \A s \in Submitters, r \in Reconcilers :
          sub[s].pc = "idle" \/ rec[r].pc = "idle"

\* An order executes in full or is given up before it executed at all.
AllOrNothing(state, qty) ==
    state \in {"unknown", "error", "unasked", "NEW", "CANCELED", "EXPIRED"} => qty = 0

Ended == {"FILLED", "CANCELED", "EXPIRED"}

\* A submission's row is the one it committed; it raises only if nothing arrived.
OwnRow ==
    \A s \in Submitters :
        /\ ~Busy(s) => sub[s].order = NoOrder
        /\ Busy(s) => status[sub[s].order] = "submitted" /\ ~priced[sub[s].order]
        /\ sub[s].pc = "waiting" => request[sub[s].order] # "idle"
        /\ sub[s].pc = "raised" => request[sub[s].order] = "dropped"
        /\ sub[s].pc = "answered" =>
             /\ request[sub[s].order] = "received"
             /\ AllOrNothing(sub[s].reply.state, sub[s].reply.qty)
             /\ sub[s].reply.state \in Ended =>
                  exStatus[sub[s].order] = sub[s].reply.state

\* A pass's copies are still the rows; what it heard is still so, but for fills.
CopyHolds(r, o) ==
    LET copy == rec[r].seen[o]
        reply == rec[r].reply[o]
    IN  /\ status[o] \in Unresolved /\ stage[o] = rec[r].stage
        /\ copy.status = status[o] /\ copy.quantity = quantity[o]
        /\ AllOrNothing(reply.state, reply.qty)
        /\ reply.state = "unknown" => request[o] \in {"idle", "dropped"}
        /\ reply.state \in Ended => exStatus[o] = reply.state
        /\ reply.state \in ExStates /\ priced[o] => reply.qty >= quantity[o]

CopiesHold ==
    \A r \in Reconcilers : \A o \in Orders :
        rec[r].pc = "looking" /\ rec[r].seen[o].status # "none" => CopyHolds(r, o)

\* A row tells nothing untrue, and its verdict is right for good.
RowsHold ==
    \A o \in Orders :
        /\ status[o] = "none" => ~priced[o]
        /\ status[o] = "filled" => quantity[o] = Qty
        /\ status[o] \in {"failed", "cancelled"} =>
             /\ executed[o] = 0
             /\ exStatus[o] \in Ended \/ request[o] \in {"idle", "dropped"}

BenignInv == /\ TakeTurns /\ OwnRow /\ CopiesHold /\ RowsHold
             /\ \A o \in Orders : AllOrNothing(exStatus[o], executed[o])
=============================================================================
