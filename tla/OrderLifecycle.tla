--------------------------- MODULE OrderLifecycle ---------------------------
(***************************************************************************)
(* The life of an order in services/trading_engine.py: the write-ahead row  *)
(* in the trades table, the request to the exchange, the answer (or the     *)
(* exception) that comes back across an await, the crash that may fall      *)
(* between any two of them, and the reconciliation passes that afterwards   *)
(* look unresolved rows up by client order id.                              *)
(*                                                                          *)
(* A session (an AsyncSession of the scheduler or of an API request) works   *)
(* on copies of the rows it loaded; the ORM writes, at its commit, only the  *)
(* columns whose value differs from the one it loaded. The columns of        *)
(* trades are therefore separate functions, and a commit moves each alone.   *)
(*                                                                          *)
(* Not here: component_status rows other than order_reconciliation, the      *)
(* risk engine's verdict (an order that reaches SubIntend was approved and    *)
(* rounds to a positive quantity), the halt flag (ControlPlane).             *)
(***************************************************************************)
EXTENDS Integers, FiniteSets

CONSTANTS
    Orders,        \* trade UUIDs, which double as client order ids
    NoOrder,       \* what an idle submitter holds
    Submitters,    \* sessions inside place_order: trade loop, liquidation
    Reconcilers,   \* sessions inside reconcile_open_orders
    Boot,          \* the one behind startup, /system/start, /system/reconcile
    Stages,        \* stages with an exchange account: paper, live
    Qty,           \* the quantity of every order, in lot steps
    MaxAttempts,   \* config reconcile_max_attempts
    MaxFailures,   \* bound on crashes and rolled-back sessions in a behaviour
    Faults         \* which of AllFaults the environment may produce

AllFaults == { "ambiguous",     \* create_order raises, the order still lives
               "earlyLookup",   \* a lookup overtakes the request it asks about
               "partialExpiry", \* an order ends after filling in part
               "overlap" }      \* two sessions hold the same row

ASSUME OrderAssumption   == NoOrder \notin Orders
ASSUME SessionAssumption == Boot \in Reconcilers
ASSUME NumberAssumption  == /\ Qty \in Nat \ {0}
                            /\ MaxAttempts \in Nat \ {0}
                            /\ MaxFailures \in Nat
ASSUME FaultAssumption   == Faults \subseteq AllFaults

VARIABLES
    \* the trades table, one function per column
    status,        \* "none" before the row exists
    stage,
    quantity,      \* requested, then executed once a fill is recorded
    priced,        \* price IS NOT NULL
    fee,           \* fee_usdt > 0
    notes,         \* risk_notes["reconcile"]
    \* the exchange and the wire to it
    request,       \* the create_order request
    exStatus,      \* the exchange's status of the order
    executed,      \* the exchange's executedQty
    \* the process
    phase,         \* "starting" until startup reconciliation has returned
    current_stage, \* config current_stage
    sub,           \* sessions inside _submit_order
    rec,           \* sessions inside reconcile_open_orders
    alert,         \* component_status of order_reconciliation is "error"
    walletStale,   \* something filled since the last wallet snapshot
    failures

rows    == <<status, stage, quantity, priced, fee, notes>>
market  == <<request, exStatus, executed>>
process == <<phase, current_stage, sub, rec, alert>>
vars    == <<rows, market, process, walletStale, failures>>

-----------------------------------------------------------------------------
(* Vocabulary *)

Unresolved == {"submitted", "partial"}
Statuses   == Unresolved \cup {"filled", "cancelled", "failed"}
OpenStates == {"NEW", "PARTIALLY_FILLED"}
ExStates   == OpenStates \cup {"FILLED", "CANCELED", "EXPIRED"}

\* BINANCE_STATUS_MAP. EXPIRED stands for REJECTED and EXPIRED_IN_MATCH too,
\* CANCELED for PENDING_CANCEL: they map alike. (First, the map with a partial
\* fill taken for a complete one.)
StatusMapOptimistic(st) ==
    CASE st = "NEW"              -> "submitted"
      [] st = "PARTIALLY_FILLED" -> "filled"
      [] st = "FILLED"           -> "filled"
      [] st = "CANCELED"         -> "cancelled"
      [] st = "EXPIRED"          -> "failed"
StatusMap(st) ==
    CASE st = "NEW"              -> "submitted"
      [] st = "PARTIALLY_FILLED" -> "partial"
      [] st = "FILLED"           -> "filled"
      [] st = "CANCELED"         -> "cancelled"
      [] st = "EXPIRED"          -> "failed"

Notes      == [attempts: 0..MaxAttempts, attention: BOOLEAN, waiting: BOOLEAN]
FreshNotes == [attempts |-> 0, attention |-> FALSE, waiting |-> FALSE]

\* What a session learnt about an order: the exchange's view of it, or that
\* it is unknown there (-2013), or that the lookup itself failed.
ReplyStates == ExStates \cup {"unasked", "unknown", "error"}
Replies     == [state: ReplyStates, qty: 0..Qty]
NoReply     == [state |-> "unasked", qty |-> 0]
Unknown     == [state |-> "unknown", qty |-> 0]
LookupError == [state |-> "error", qty |-> 0]
View(o)     == [state |-> exStatus[o], qty |-> executed[o]]

IdleSub == [pc |-> "idle", order |-> NoOrder, reply |-> NoReply]

\* The columns of a row as a session loaded them.
Images    == [status: Statuses \cup {"none"}, quantity: 0..Qty, priced: BOOLEAN,
              fee: BOOLEAN, attempts: 0..MaxAttempts]
NoImage   == [status |-> "none", quantity |-> 0, priced |-> FALSE,
              fee |-> FALSE, attempts |-> 0]
Image(o)  == [status |-> status[o], quantity |-> quantity[o],
              priced |-> priced[o], fee |-> fee[o],
              attempts |-> notes[o].attempts]

\* A pass: the stage whose client it asks, the rows still to look up, the
\* rows as loaded, the answers so far, and whether it resolved anything.
IdleRec == [pc |-> "idle", stage |-> "none", todo |-> {},
            seen |-> [o \in Orders |-> NoImage],
            reply |-> [o \in Orders |-> NoReply], settled |-> FALSE]

Quiet == /\ \A s \in Submitters : sub[s].pc = "idle"
         /\ \A r \in Reconcilers : rec[r].pc = "idle"

\* load_trade_records: the rows positions are computed from.
InLedger(o) == status[o] \in {"filled", "partial"} /\ priced[o]

\* get_orders_needing_attention
NeedingAttention(st) == {o \in Orders : /\ stage[o] = st
                                        /\ status[o] \in Unresolved
                                        /\ notes[o].attention}

\* reconcile_open_orders' SELECT filtered by is_due_for_retry; before it, the
\* SELECT without its stage and without "partial".
DueAnyStage(st) == {o \in Orders : /\ status[o] \in Unresolved
                                   /\ ~notes[o].attention
                                   /\ ~notes[o].waiting}
DueSubmitted(st) == {o \in Orders : /\ stage[o] = st
                                    /\ status[o] = "submitted"
                                    /\ ~notes[o].attention
                                    /\ ~notes[o].waiting}
Due(st) == {o \in Orders : /\ stage[o] = st
                           /\ status[o] \in Unresolved
                           /\ ~notes[o].attention
                           /\ ~notes[o].waiting}

Init ==
    /\ status = [o \in Orders |-> "none"]
    /\ quantity = [o \in Orders |-> Qty]
    /\ priced = [o \in Orders |-> FALSE]
    /\ fee = [o \in Orders |-> FALSE]
    /\ notes = [o \in Orders |-> FreshNotes]
    /\ request = [o \in Orders |-> "idle"]
    /\ exStatus = [o \in Orders |-> "unknown"]
    /\ executed = [o \in Orders |-> 0]
    /\ phase = "starting"
    /\ current_stage \in Stages
    /\ stage = [o \in Orders |-> current_stage]
    /\ sub = [s \in Submitters |-> IdleSub]
    /\ rec = [r \in Reconcilers |-> IdleRec]
    /\ alert = FALSE
    /\ walletStale = FALSE
    /\ failures = 0

-----------------------------------------------------------------------------
(* _submit_order: write ahead, send, record *)

\* The intent is only added to the session, as if db.commit() stood after the
\* exchange call instead of before it.
SubIntendUncommitted(s, o) ==
    /\ phase = "running"
    /\ sub[s].pc = "idle"
    /\ status[o] = "none"
    /\ "overlap" \in Faults \/ Quiet
    /\ \A t \in Submitters : sub[t].order # o
    /\ sub' = [sub EXCEPT ![s] = [@ EXCEPT !.pc = "committed", !.order = o]]
    /\ UNCHANGED <<rows, market, phase, current_stage, rec, alert, walletStale,
                   failures>>

\* An approved order of the active stage becomes a committed row. The UUID is
\* fresh: no other session holds it.
SubIntend(s, o) ==
    /\ phase = "running"
    /\ sub[s].pc = "idle"
    /\ status[o] = "none"
    /\ "overlap" \in Faults \/ Quiet
    /\ status' = [status EXCEPT ![o] = "submitted"]
    /\ stage' = [stage EXCEPT ![o] = current_stage]
    /\ sub' = [sub EXCEPT ![s] = [@ EXCEPT !.pc = "committed", !.order = o]]
    /\ UNCHANGED <<quantity, priced, fee, notes, market, phase,
                   current_stage, rec, alert, walletStale, failures>>

\* create_order leaves the process; its answer is awaited.
SubSend(s) ==
    /\ sub[s].pc = "committed"
    /\ request' = [request EXCEPT ![sub[s].order] = "inflight"]
    /\ sub' = [sub EXCEPT ![s] = [@ EXCEPT !.pc = "waiting"]]
    /\ UNCHANGED <<rows, exStatus, executed, phase, current_stage, rec, alert,
                   walletStale, failures>>

\* The exchange's answer arrives: the order as it stands at this moment.
SubAnswer(s) ==
    /\ sub[s].pc = "waiting"
    /\ request[sub[s].order] = "received"
    /\ sub' = [sub EXCEPT ![s] = [@ EXCEPT !.pc = "answered",
                                          !.reply = View(sub[s].order)]]
    /\ UNCHANGED <<rows, market, phase, current_stage, rec, alert, walletStale,
                   failures>>

\* create_order raises. Whatever reached the exchange, the session cannot
\* tell; without the "ambiguous" fault it raises only for dropped requests.
SubRaise(s) ==
    /\ sub[s].pc = "waiting"
    /\ "ambiguous" \in Faults \/ request[sub[s].order] = "dropped"
    /\ sub' = [sub EXCEPT ![s] = [@ EXCEPT !.pc = "raised"]]
    /\ UNCHANGED <<rows, market, phase, current_stage, rec, alert, walletStale,
                   failures>>

\* What the session writes of a row it saw as `seen` once the exchange told
\* it `reply`: the columns that change against `seen`, no others. The loaded
\* quantity is a Decimal, the new one a float: equal amounts may compare
\* unequal, and are then written again (`rewrite`).
StatusWritten(seen, reply, column) ==
    IF StatusMap(reply.state) # seen.status THEN StatusMap(reply.state)
                                            ELSE column
\* the requested quantity left in place; only the first fill recorded
QuantityKept(seen, reply, column, rewrite) == column
QuantityWrittenOnce(seen, reply, column, rewrite) ==
    IF reply.qty > 0 /\ ~seen.priced THEN reply.qty ELSE column
QuantityWritten(seen, reply, column, rewrite) ==
    IF reply.qty > 0 /\ (rewrite \/ reply.qty # seen.quantity) THEN reply.qty
                                                               ELSE column

\* _record_response and the commit after it. The in-memory row is the one
\* _submit_order built: its quantity is the same float, so no rewrite.
SubRecord(s) ==
    LET o == sub[s].order
        reply == sub[s].reply
        built == [NoImage EXCEPT !.status = "submitted", !.quantity = Qty]
    IN  /\ sub[s].pc = "answered"
        /\ status' = [status EXCEPT ![o] = StatusWritten(built, reply, @)]
        /\ quantity' = [quantity EXCEPT ![o] =
                            QuantityWritten(built, reply, @, FALSE)]
        /\ priced' = [priced EXCEPT ![o] = @ \/ reply.qty > 0]
        /\ fee' = [fee EXCEPT ![o] = @ \/ reply.qty > 0]
        /\ sub' = [sub EXCEPT ![s] =
                       IF reply.qty > 0 THEN [IdleSub EXCEPT !.pc = "snapshot"]
                                        ELSE IdleSub]
        /\ UNCHANGED <<stage, notes, market, phase, current_stage, rec, alert,
                       walletStale, failures>>

\* snapshot_wallet: account state may be unreadable, and is then only logged.
SubSnapshot(s) ==
    /\ sub[s].pc = "snapshot"
    /\ walletStale' \in {FALSE, walletStale}
    /\ sub' = [sub EXCEPT ![s] = IdleSub]
    /\ UNCHANGED <<rows, market, phase, current_stage, rec, alert, failures>>

\* The except branch: the row is failed, its notes replaced by the session's.
SubFail(s) ==
    /\ sub[s].pc = "raised"
    /\ status' = [status EXCEPT ![sub[s].order] = "failed"]
    /\ notes' = [notes EXCEPT ![sub[s].order] = FreshNotes]
    /\ sub' = [sub EXCEPT ![s] = IdleSub]
    /\ UNCHANGED <<stage, quantity, priced, fee, market, phase, current_stage,
                   rec, alert, walletStale, failures>>

\* A commit fails; the caller rolls the session back and carries on.
SubAbort(s) ==
    /\ failures < MaxFailures
    /\ sub[s].pc \in {"answered", "raised"}
    /\ sub' = [sub EXCEPT ![s] = IdleSub]
    /\ failures' = failures + 1
    /\ UNCHANGED <<rows, market, phase, current_stage, rec, alert, walletStale>>

-----------------------------------------------------------------------------
(* reconcile_open_orders *)

\* The early return in front of refresh_reconciliation_alert.
RecNothingDueSilent(r) ==
    /\ phase = "running" \/ r = Boot
    /\ rec[r].pc = "idle"
    /\ Due(current_stage) = {}
    /\ phase' = "running"
    /\ UNCHANGED <<rows, market, current_stage, sub, rec, alert, walletStale,
                   failures>>

\* A pass with nothing due only refreshes the alert.
RecNothingDue(r) ==
    /\ phase = "running" \/ r = Boot
    /\ rec[r].pc = "idle"
    /\ Due(current_stage) = {}
    /\ alert' = (NeedingAttention(current_stage) # {})
    /\ phase' = "running"
    /\ UNCHANGED <<rows, market, current_stage, sub, rec, walletStale, failures>>

RecStart(r) ==
    /\ phase = "running" \/ r = Boot
    /\ rec[r].pc = "idle"
    /\ Due(current_stage) # {}
    /\ "overlap" \in Faults \/ Quiet
    /\ rec' = [rec EXCEPT ![r] =
                 [IdleRec EXCEPT !.pc = "looking", !.stage = current_stage,
                    !.todo = Due(current_stage),
                    !.seen = [o \in Orders |->
                        IF o \in Due(current_stage) THEN Image(o) ELSE NoImage]]]
    /\ UNCHANGED <<rows, market, phase, current_stage, sub, alert, walletStale,
                   failures>>

\* What get_order can answer about o through the client of stage st: paper
\* and live are different exchanges.
Answers(o, st) ==
    IF exStatus[o] = "unknown" \/ stage[o] # st THEN {Unknown, LookupError}
                                                ELSE {View(o), LookupError}

Asked(pass, o, reply) == [pass EXCEPT !.todo = @ \ {o},
                                      !.reply = [pass.reply EXCEPT ![o] = reply]]

\* _fetch_order of one row, awaited; the row changes in memory only.
RecLookup(r, o) ==
    /\ rec[r].pc = "looking"
    /\ o \in rec[r].todo
    /\ "earlyLookup" \in Faults \/ request[o] # "inflight"
    /\ \E reply \in Answers(o, rec[r].stage) :
         rec' = [rec EXCEPT ![r] = Asked(rec[r], o, reply)]
    /\ UNCHANGED <<rows, market, phase, current_stage, sub, alert, walletStale,
                   failures>>

\* What a pass makes of each row it asked about.
Known(reply) == reply.state \in ExStates

\* A transient lookup error read as "never happened".
VerdictOnGuessing(seen, reply, column) ==
    IF Known(reply) THEN StatusWritten(seen, reply, column)
    ELSE IF reply.state \in {"unknown", "error"} THEN "failed" ELSE column

VerdictOn(seen, reply, column) ==
    IF Known(reply) THEN StatusWritten(seen, reply, column)
    ELSE IF reply.state = "unknown" THEN "failed" ELSE column

Settles(reply) == \/ reply.state = "unknown"
                  \/ Known(reply) /\ StatusMap(reply.state) \notin Unresolved

\* the off-by-one of `>` for `>=`
AfterErrorLate(attempts) == [attempts |-> attempts + 1,
                             attention |-> attempts + 1 > MaxAttempts,
                             waiting |-> TRUE]

\* The attempt counted and its backoff opened; at the limit it escalates.
AfterError(attempts) == [attempts |-> attempts + 1,
                         attention |-> attempts + 1 >= MaxAttempts,
                         waiting |-> TRUE]

NotesWritten(seen, reply, column) ==
    CASE reply.state = "error"   -> AfterError(seen.attempts)
      [] reply.state = "unknown" -> [FreshNotes EXCEPT !.attempts = seen.attempts]
      [] Known(reply) /\ Settles(reply) -> FreshNotes
      [] OTHER -> column

\* The one commit of a pass, after its last lookup. get_order reports no
\* fills, so a known order's fee_usdt becomes 0.
RecCommit(r) ==
    /\ rec[r].pc = "looking"
    /\ rec[r].todo = {}
    /\ LET asked == {o \in Orders : rec[r].reply[o].state # "unasked"}
           seen  == rec[r].seen
           reply == rec[r].reply
       IN  /\ status' = [o \in Orders |->
                  IF o \in asked THEN VerdictOn(seen[o], reply[o], status[o])
                                 ELSE status[o]]
           /\ \E rewrite \in BOOLEAN :
                quantity' = [o \in Orders |->
                    QuantityWritten(seen[o], reply[o], quantity[o], rewrite)]
           /\ priced' = [o \in Orders |-> priced[o] \/ reply[o].qty > 0]
           /\ fee' = [o \in Orders |-> fee[o] /\ ~(Known(reply[o]) /\ seen[o].fee)]
           /\ notes' = [o \in Orders |->
                  IF o \in asked THEN NotesWritten(seen[o], reply[o], notes[o])
                                 ELSE notes[o]]
           /\ rec' = [rec EXCEPT ![r] =
                  [IdleRec EXCEPT !.pc = "alerting", !.stage = rec[r].stage,
                                  !.settled = \E o \in asked : Settles(reply[o])]]
    /\ UNCHANGED <<stage, market, phase, current_stage, sub, alert, walletStale,
                   failures>>

\* refresh_reconciliation_alert, in a transaction of its own.
RecAlert(r) ==
    /\ rec[r].pc = "alerting"
    /\ alert' = (NeedingAttention(rec[r].stage) # {})
    /\ IF rec[r].settled
         THEN /\ rec' = [rec EXCEPT ![r] = [@ EXCEPT !.pc = "snapshot"]]
              /\ UNCHANGED phase
         ELSE /\ rec' = [rec EXCEPT ![r] = IdleRec]
              /\ phase' = "running"
    /\ UNCHANGED <<rows, market, current_stage, sub, walletStale, failures>>

RecSnapshot(r) ==
    /\ rec[r].pc = "snapshot"
    /\ walletStale' \in {FALSE, walletStale}
    /\ rec' = [rec EXCEPT ![r] = IdleRec]
    /\ phase' = "running"
    /\ UNCHANGED <<rows, market, current_stage, sub, alert, failures>>

\* An exception leaves reconcile_open_orders: reconcile_job and
\* run_startup_reconciliation log it, roll back and return.
RecAbort(r) ==
    /\ failures < MaxFailures
    /\ rec[r].pc # "idle"
    /\ rec' = [rec EXCEPT ![r] = IdleRec]
    /\ phase' = "running"
    /\ failures' = failures + 1
    /\ UNCHANGED <<rows, market, current_stage, sub, alert, walletStale>>

\* next_attempt_at passes.
Elapse(o) ==
    /\ notes[o].waiting
    /\ notes' = [notes EXCEPT ![o] = [@ EXCEPT !.waiting = FALSE]]
    /\ UNCHANGED <<status, stage, quantity, priced, fee, market, process,
                   walletStale, failures>>

-----------------------------------------------------------------------------
(* The exchange, the operator, the machine *)

ExReceive(o) ==
    /\ request[o] = "inflight"
    /\ request' = [request EXCEPT ![o] = "received"]
    /\ exStatus' = [exStatus EXCEPT ![o] = "NEW"]
    /\ UNCHANGED <<rows, executed, process, walletStale, failures>>

\* The request is lost on the way, or refused before an order exists.
ExDrop(o) ==
    /\ request[o] = "inflight"
    /\ request' = [request EXCEPT ![o] = "dropped"]
    /\ UNCHANGED <<rows, exStatus, executed, process, walletStale, failures>>

ExFill(o) ==
    /\ exStatus[o] \in OpenStates
    /\ \E q \in (executed[o] + 1)..Qty :
         /\ executed' = [executed EXCEPT ![o] = q]
         /\ exStatus' = [exStatus EXCEPT
                           ![o] = IF q = Qty THEN "FILLED" ELSE "PARTIALLY_FILLED"]
    /\ walletStale' = TRUE
    /\ UNCHANGED <<rows, request, process, failures>>

\* The exchange gives an open order up.
ExExpire(o) ==
    /\ exStatus[o] \in OpenStates
    /\ "partialExpiry" \in Faults \/ executed[o] = 0
    /\ exStatus' = [exStatus EXCEPT ![o] = "EXPIRED"]
    /\ UNCHANGED <<rows, request, executed, process, walletStale, failures>>

\* cancel_all_open_orders, of one order the exchange lists as open.
CancelOpenOrder(o) ==
    /\ exStatus[o] \in OpenStates
    /\ "partialExpiry" \in Faults \/ executed[o] = 0
    /\ exStatus' = [exStatus EXCEPT ![o] = "CANCELED"]
    /\ UNCHANGED <<rows, request, executed, process, walletStale, failures>>

\* switch_stage, as far as these sessions see it.
SwitchStage(t) ==
    /\ phase = "running"
    /\ current_stage' = t
    /\ UNCHANGED <<rows, market, phase, sub, rec, alert, walletStale, failures>>

\* The process dies and restarts: sessions are gone, rows and orders are not.
Crash ==
    /\ failures < MaxFailures
    /\ failures' = failures + 1
    /\ phase' = "starting"
    /\ sub' = [s \in Submitters |-> IdleSub]
    /\ rec' = [r \in Reconcilers |-> IdleRec]
    /\ UNCHANGED <<rows, market, current_stage, alert, walletStale>>

-----------------------------------------------------------------------------
Submit(s) == \/ \E o \in Orders : SubIntend(s, o)
             \/ SubSend(s) \/ SubAnswer(s) \/ SubRaise(s) \/ SubRecord(s)
             \/ SubSnapshot(s) \/ SubFail(s) \/ SubAbort(s)

Reconcile(r) == \/ RecNothingDue(r) \/ RecStart(r) \/ RecCommit(r)
                \/ \E o \in Orders : RecLookup(r, o)
                \/ RecAlert(r) \/ RecSnapshot(r) \/ RecAbort(r)

Market(o) == \/ Elapse(o) \/ ExReceive(o) \/ ExDrop(o) \/ ExFill(o)
             \/ ExExpire(o) \/ CancelOpenOrder(o)

Next == \/ \E s \in Submitters : Submit(s)
        \/ \E r \in Reconcilers : Reconcile(r)
        \/ \E o \in Orders : Market(o)
        \/ \E t \in Stages : SwitchStage(t)
        \/ Crash

Spec == Init /\ [][Next]_vars

\* Awaits return (the client has timeouts), the reconcile job keeps firing,
\* backoff windows pass, and a market order does not rest for ever. No
\* fairness for crashes, rollbacks, the operator or new orders.
SubStep(s) == \/ SubSend(s) \/ SubAnswer(s) \/ SubRaise(s) \/ SubRecord(s)
              \/ SubSnapshot(s) \/ SubFail(s)
RecStep(r) == \/ RecCommit(r) \/ RecAlert(r) \/ RecSnapshot(r)
              \/ \E o \in Orders : RecLookup(r, o)
RecBegin(r) == RecNothingDue(r) \/ RecStart(r)

Fairness ==
    /\ \A s \in Submitters : WF_vars(SubStep(s))
    /\ \A r \in Reconcilers : WF_vars(RecStep(r))
    /\ \A r \in Reconcilers \ {Boot} : WF_vars(RecBegin(r))
    /\ WF_vars(phase = "starting" /\ RecBegin(Boot))
    /\ \A o \in Orders : /\ WF_vars(Elapse(o))
                         /\ WF_vars(ExReceive(o) \/ ExDrop(o))
                         /\ WF_vars(ExFill(o) \/ ExExpire(o))

FairSpec == Spec /\ Fairness

-----------------------------------------------------------------------------
(* Properties *)

SubStates == [pc: {"idle", "committed", "waiting", "answered", "raised",
                   "snapshot"},
              order: Orders \cup {NoOrder}, reply: Replies]
RecStates == [pc: {"idle", "looking", "alerting", "snapshot"},
              stage: Stages \cup {"none"},
              todo: SUBSET Orders, seen: [Orders -> Images],
              reply: [Orders -> Replies], settled: BOOLEAN]

TypeOK ==
    /\ status \in [Orders -> Statuses \cup {"none"}]
    /\ stage \in [Orders -> Stages]
    /\ quantity \in [Orders -> 0..Qty]
    /\ priced \in [Orders -> BOOLEAN]
    /\ fee \in [Orders -> BOOLEAN]
    /\ notes \in [Orders -> Notes]
    /\ request \in [Orders -> {"idle", "inflight", "received", "dropped"}]
    /\ exStatus \in [Orders -> ExStates \cup {"unknown"}]
    /\ executed \in [Orders -> 0..Qty]
    /\ phase \in {"starting", "running"}
    /\ current_stage \in Stages
    /\ sub \in [Submitters -> SubStates]
    /\ rec \in [Reconcilers -> RecStates]
    /\ alert \in BOOLEAN
    /\ walletStale \in BOOLEAN
    /\ failures \in 0..MaxFailures

\* No order is on the wire or at the exchange without a committed row to
\* reconcile it by, wherever a crash or a rollback falls.
WriteAhead ==
    \A o \in Orders : request[o] # "idle" => status[o] # "none"

\* Positions are computed from rows whose recorded quantity really executed,
\* whatever order answers, timeouts and stale passes commit in.
NoInventedPosition ==
    \A o \in Orders : InLedger(o) => quantity[o] \in 1..executed[o]

(* Why WriteAhead, NoInventedPosition and FilledIsFilled survive every step:   *)
(* what the exchange, a row, an answer on its way and a loaded copy of a row   *)
(* know of the same order never contradict each other.                         *)
Busy(s) == sub[s].pc \in {"committed", "waiting", "answered", "raised"}

ExchangeInv ==
    \A o \in Orders :
        /\ request[o] = "received" <=> exStatus[o] # "unknown"
        /\ exStatus[o] = "FILLED" => executed[o] = Qty
        /\ exStatus[o] = "PARTIALLY_FILLED" => executed[o] > 0

\* An answer is not ahead of the exchange, which only executes more.
Truthful(reply, state, qty) ==
    /\ reply.qty <= qty
    /\ reply.state = "FILLED" => state = "FILLED" /\ reply.qty = Qty
    /\ reply.state = "PARTIALLY_FILLED" => reply.qty > 0
    /\ reply.state \notin ExStates => reply.qty = 0

\* A row is not ahead of the exchange either.
Backed(st, recorded, hasPrice, state, qty) ==
    /\ recorded > 0
    /\ hasPrice => recorded <= qty
    /\ ~hasPrice => recorded = Qty
    /\ st \in {"filled", "partial"} => hasPrice
    /\ st = "filled" => state = "FILLED"

RowInv ==
    \A o \in Orders :
        /\ Backed(status[o], quantity[o], priced[o], exStatus[o], executed[o])
        /\ notes[o].attention <=> notes[o].attempts = MaxAttempts

SubmitInv ==
    \A s \in Submitters :
        /\ Busy(s) => sub[s].order \in Orders /\ status[sub[s].order] # "none"
        /\ sub[s].pc = "committed" => request[sub[s].order] = "idle"
        /\ sub[s].pc = "answered" =>
             /\ sub[s].reply.state \in ExStates
             /\ Truthful(sub[s].reply, exStatus[sub[s].order],
                         executed[sub[s].order])
        /\ \A t \in Submitters :
             Busy(s) /\ Busy(t) /\ sub[s].order = sub[t].order => s = t

\* A loaded copy without a price still has the requested quantity, so that a
\* commit which leaves the quantity column alone never overstates it.
PassInv ==
    \A r \in Reconcilers : \A o \in Orders :
        /\ o \in rec[r].todo => rec[r].seen[o].status # "none"
        /\ rec[r].reply[o].state # "unasked" => rec[r].seen[o].status # "none"
        /\ Truthful(rec[r].reply[o], exStatus[o], executed[o])
        /\ rec[r].seen[o].status # "none" =>
             /\ rec[r].seen[o].priced => priced[o]
             /\ ~rec[r].seen[o].priced => rec[r].seen[o].quantity = Qty
             /\ rec[r].seen[o].attempts < MaxAttempts

IndInv == /\ TypeOK /\ WriteAhead /\ ExchangeInv /\ RowInv
          /\ SubmitInv /\ PassInv

\* A row says filled only of an order the exchange completed.
FilledIsFilled ==
    \A o \in Orders : status[o] = "filled" => exStatus[o] = "FILLED"

\* The other half: a row that failed or was cancelled took no position.
FailedTookNoPosition ==
    \A o \in Orders : status[o] \in {"failed", "cancelled"} => executed[o] = 0

\* A filled row records the whole executed quantity.
FilledInFull ==
    \A o \in Orders : status[o] = "filled" => quantity[o] = executed[o]

\* An unresolved row is escalated exactly when its attempts are used up.
EscalatedAtLimit ==
    \A o \in Orders : status[o] \in Unresolved =>
        (notes[o].attention <=> notes[o].attempts = MaxAttempts)

\* A fee once recorded stays with its trade.
FeeIsKept == [][\A o \in Orders : fee[o] => fee'[o]]_vars

\* When startup reconciliation lets the jobs start, no order of the active
\* stage is unresolved.
StartsWithKnownAccount ==
    [][phase = "starting" /\ phase' = "running" =>
         \A o \in Orders : stage[o] = current_stage
                             => status'[o] \notin Unresolved]_vars

\* A pass asked for on the dashboard takes up every unresolved order of the
\* stage, backoff or not.
ForcedPassTakesAll ==
    [][phase = "running" /\ rec[Boot].pc = "idle" /\ rec'[Boot].pc = "looking"
         => {o \in Orders : stage[o] = current_stage /\ status[o] \in Unresolved}
              \subseteq rec'[Boot].todo]_vars

\* Every order is in the end resolved or escalated, and stays so.
EveryOrderSettles ==
    \A o \in Orders :
        <>[](status[o] \notin Unresolved \/ notes[o].attention)

\* An escalated order reaches the dashboard.
EscalationSurfaces ==
    \A o \in Orders :
        (status[o] \in Unresolved /\ notes[o].attention)
            ~> (alert \/ status[o] \notin Unresolved)

\* Once every fill is in the ledger and the sessions are done, the latest
\* wallet snapshot covers them.
SnapshotCoversFills ==
    (/\ Quiet
     /\ \A o \in Orders : executed[o] > 0 =>
            status[o] = "filled" /\ quantity[o] = executed[o])
    => ~walletStale
=============================================================================
