# Trading Pipeline: models, checks and proofs

TLA+ modules for the backend of the trading pipeline (`src/backend/app`): a FastAPI
process with an APScheduler in it, Postgres behind it and a Binance account (testnet
for the stage *paper*, the real one for *live*) in front of it. Paths below are
relative to `src/backend/app/` unless they start with `src/`.

Everything the backend does at the same time it does in one asyncio event loop: the
jobs of the scheduler and the requests of the dashboard interleave at every `await`,
each with its own database session. There are no locks but those of Postgres. Nearly
all that is hard about this program follows from that, from the answers of the
exchange that come late or never, and from the process being restarted at any point.

## 1. The system

| Component | State it keeps | Operations | Talks to | Module |
|---|---|---|---|---|
| Order engine, `services/trading_engine.py` | `trades` rows, `component_status[order_reconciliation]`, wallet snapshots | `place_order`, `_submit_order`, `reconcile_open_orders`, `load_trade_records`, `snapshot_wallet` | exchange client, risk engine, scheduler, halt | OrderLifecycle, OrderLedger, OrderRefinement |
| Halt, start/stop, stage, `services/halt_service.py`, `api/routes_system.py`, `routes_stage.py`, `routes_config.py` | config rows `halted`, `trading_enabled`, `current_stage`; the pause of the trade-loop job | emergency stop, resume, start, stop, stage switch, config edits, liquidation | scheduler, order engine, promotion gate | ControlPlane |
| Scheduler, `services/scheduler.py` | its jobs, `trading_allowed` | trade loop (exits, entries), reconcile, heartbeat, retrain, startup and shutdown | everything | ControlPlane, PositionExits, OrderLifecycle |
| Risk engine, `services/risk_engine.py` | none of its own: reads account, snapshots, trades, component rows | seven rules and their combination | order engine, wallet service | RiskRules, TradingDay |
| Positions, `services/position_tracker.py` | none: recomputed from `trades` | `match_fifo`, `evaluate_exit` | order engine, scheduler | FifoMatching, PositionExits |
| LLM advisor, `services/llm_advisor.py` | `llm_advisories` | reserve under the daily cap, call a provider, fall back to the other | providers, Postgres advisory lock | AdvisoryCap |
| Model registry, `services/model_registry.py` | `models.status` | train, promote, promote best, archive | retrain job, dashboard, signal generator | ModelRegistry |
| Promotion gate, `services/promotion_gate.py` | none | four criteria over the paper record, read query by query | stage switch, live entries | PromotionGate (a Boolean in ControlPlane) |
| Candle download and feed status, `services/data_downloader.py`, `heartbeat_job` | `candles`, `component_status[data_feed]` and `[binance_api]` | download, judge staleness, health check | exchange, scheduler, risk engine | CandleFeed |
| Job history, `services/job_runs.py` | `job_runs` | start, progress, finish, latest | download, retrain job, `GET /api/status` | JobBoard |
| Event bus and WebSocket, `services/event_bus.py`, `api/routes_ws.py` | bounded subscriber queues, a handler per connection | publish, subscribe, drain, ping, unsubscribe | all that publishes, the dashboard | EventBus, EventFeed |
| Dashboard, `src/frontend/app/page.tsx`, `lib/ws-client.ts` | what it shows, the requests under way | poll, nudge, abort, reconnect | API, WebSocket | JobBoard |
| Training, features, ATR | none | numerical | registry | left out |
| Exchange client | none | REST calls, retries of reads | exchange | external, as used |
| Configuration, table definitions | rows | get, set | everything | variables of the modules above |
| Read-only API | none | queries | | left out |

What makes each of them correct:

* **Orders.** Nothing is at the exchange without a row to find it by; no row claims
  a position its order did not take; no order that took a position is left out; every
  row is in the end resolved or shown to the operator.
* **Control.** After an emergency stop nothing new is bought, and nothing but Resume
  ends the stop; orders go to the stage that is active; a started loop runs.
* **Risk.** The caps hold of the account, not only of the figures the rules are given.
* **Positions.** Lots are matched first in, first out; what is due to be closed is.
* **Advisor.** No 24 hours hold more advisories than the cap.
* **Registry.** A symbol trades one model, never replaced by a worse one.
* **Gate.** No real money is put at risk on a paper record that has not earned it, at
  whatever point of its being written it is read.
* **Feed.** What is decided on is a candle of its own time, and nothing is traded on a
  dead feed; yet what must be sold is not held back for good.
* **Events and job history.** A slow browser costs no one else anything; what the page
  shows of a run never goes back and is in the end what became of it.

What is hard: two sessions working on the same row or flag with awaits between read
and write; exceptions that leave it unknown whether an order exists; a crash between
the write-ahead commit, the request and the answer; backoff windows, retry limits and
escalation; late fills; midnight; a clock that jumps; overlapping READ COMMITTED
transactions. `PROJECT.json` lists these hazards at the lines where they bite, each
with the properties that cover it, or why none does.

## 2. The modules

### OrderLifecycle (with OrderLedger and OrderRefinement)

One order is one UUID: the primary key of the row and the client order id. The columns
of `trades` are separate functions (`status`, `quantity`, `priced`, `fee`, `notes`,
`stage`), because two sessions with the same row loaded each write only the columns
they changed: SQLAlchemy emits an UPDATE of the attributes whose value differs from
the one loaded. A session is a record: `sub[s]` walks through `_submit_order`
(row committed, request sent, answer or exception, record, snapshot), `rec[r]` through
`reconcile_open_orders` (rows loaded, one awaited lookup per row, one commit, the
alert in a transaction of its own, the snapshot). `Boot` is the reconciler that is not
the job: startup, `/system/start` and `/system/reconcile`.

The exchange is what the code sees of it: a request is in flight, received or dropped;
an order is NEW, fills in part or in full, expires or is cancelled. Prices and fees
are reduced to "known" and "not zero"; quantities count lot steps. Four behaviours of
the environment can be switched on one by one (`Faults`): *ambiguous* (`create_order`
raises though the order lives), *earlyLookup* (a lookup overtakes the request),
*partialExpiry* (an order ends after a partial fill), *overlap* (two sessions hold the
same row). Crashes and rolled-back commits are always there, up to `MaxFailures`.

`OrderLedger` is what the book-keeping promises: an order is intended before it
executes, an open order's recorded position only grows and stays within what executed,
and it is settled once, when it can execute no further, at exactly what executed.
`OrderRefinement` maps the rows to it: *settled* is a status that is neither
`submitted` nor `partial`, *position* is the quantity of a row that
`load_trade_records` reads, *closed* is an order that ended, never arrived or will
never be sent.

Abstractions: the risk verdict and the halt flag (both in other modules) decide
whether `place_order` is called at all and are absent here; the alert's refresh (one
SELECT and one upsert) and a wallet snapshot are one step each; other
`component_status` rows, and the log, are left out.

### ControlPlane

The three config rows, the pause of the `trade_loop` job, and for each dashboard
request what it has left to do. A read, a commit and a call of the scheduler are steps
of their own wherever an await separates them in the code. The trade loop reads
`halted`, `current_stage` and `trading_enabled` one after the other
(`trading_allowed`), then makes exits and entries; a liquidation sells. Every order
goes through `assert_stage_permitted` twice, each time the halt first and the stage
after it, before `Send`. `slipped` and `strayed` are history variables. PINs are taken
as correct, the gate is a Boolean that may change at any time, and no account or
symbol is followed.

### RiskRules and TradingDay

`RiskRules` has the seven rules as operators over a proposal, a context and limits,
and their combination: any objection rejects, of several caps the tightest wins.
Percentages are cross-multiplied so that everything stays in the integers. `TradingDay`
puts them to work: entries are read and sized, assessed and sent in separate steps
while the market, earlier orders, sells, the heartbeat and midnight go on. The account,
the snapshots and the trade count are the ones the rules read. A fill and its
book-keeping are one step, since OrderLifecycle has them apart.

### FifoMatching and PositionExits

`FifoMatching` is `match_fifo` for one symbol, as a fold over the trades (`MatchFifo`);
a sell is in turn a fold over the open lots (`TakeFrom`: what it takes of one lot, what
it leaves open). Beside it stands the definition it is held to, `Units`: a queue of
single lot steps, the pairs that left it and what it could not give. `AgreesWithQueue`
compares the two. PromotionGate values the record by the pairs of `Units`.

`PositionExits` is how such trades come about: an exit pass that works through the lots
it read at its start, a liquidation that sells the balance it read, orders answered
before they execute and resolved later, refusals, signals lost. `Foreign` is what the
account holds and no row bought.

### AdvisoryCap

The rows with their dates, the transaction-scoped advisory lock, and each session's
clock reading, count, reservation and provider calls, over a clock that may jump
backwards and a process that may die. The cap is a constant: raising it while sessions
run is an edit of the configuration that the code does not guard either.

### ModelRegistry

The models of one symbol and the database sessions that promote and archive them.
The queries of a promotion are steps of their own; updates hold their row locks
until the commit, which shows them; a deadlock that Postgres breaks is `Fail`. A
model's score is a constant.

### PromotionGate

The paper and live rows of one symbol with their days and prices, the wallet snapshots,
and `evaluate_gate` as the three reads it is (closed trades, then the trades again for
the first entry, then the snapshots), each at a state of the record of its own. Two ask
it: `switch_stage`, and every live entry through `assert_stage_permitted`. Meanwhile an
order or a liquidation that read *paper* before the switch executes, is recorded and
snapshotted, and the heartbeat writes the day's baseline. `Earned` says what the record
must show without the gate's arithmetic: unit steps of a queue, falls between any two
snapshots. `EntriesAreEarned` leaves out the evaluations during which such a worker was
on the paper record (`calm`); the stage lock that would make that unnecessary is not
in the code. ControlPlane keeps the gate as a Boolean that may change at any time.

### CandleFeed

Time is counted in intervals that ended. `live` is the candle the exchange has in
progress, `stored` the newest one in the table *as it was inserted* (`ON CONFLICT DO
NOTHING`), `fetched` what a download holds between the request and the commit. The
heartbeat writes two rows, each with its own age; `check_component_health` reads those
and never a candle. `normal` holds the symbols whose newest candle `check_volatility`
finds within the bounds of those before it, of which there must be 20: the z-scores are
reduced to that verdict, which stands until a download of the symbol stores something.
Both checks apply to sells as they do to buys (`Passes`). Entries take the stored close for the stop and the market for the
fill; exits ask `evaluate_exit` on the stored extremes, whatever their age. A price is a
level, one apart where a rule tells levels apart.

With the defaults (4-hour candles, a refresh once a day, a tolerance of two intervals)
the feed is in error for most of each day, and the health check then refuses sells as
it does buys; an abnormal candle keeps every order of its symbol back until another
follows. `DueLotsClose` is therefore about what is left: while some symbol can be
downloaded, a due lot is closed unless the candles of its own symbol are abnormal, or
fewer than 20, for good. It closes too if those can never be downloaded again, provided
the last ones were normal; otherwise it never does (`DueLotsAlwaysClose`, section 6).
A horizon may be of any length.

### EventFeed, EventBus and JobBoard

`EventBus` is the bus and the handlers that drain it. A queue loses its oldest event
when full; the handler is accepted, subscribed, greets, then takes and sends, or pings;
the greeting stands outside the `try`, so a browser that is gone by then leaves its queue
behind (`"left"`). `EventFeed` is what that amounts to for a reader: it sees an
increasing subsequence of what is published, never behind by more than the queue and
the event in hand. `JobBoard` extends the bus with the runs of one kind of job (row
committed first and announced after, progress announced first and saved after, the end
committed and, for a download only, announced), with runs that die and a process that
does, and with the page: an event is only a nudge to read `/api/status` again, a new
request aborts the one under way, and a poll comes besides.

## 3. The runs

`tlc -config X.cfg M`, with the module and configuration named in `PROJECT.json`.
Deadlock is checked in all runs but those of PositionExits and JobBoard, where `MaxTrades`
and `MaxJobs` with `MaxTrouble` end behaviours that the program would carry on. Each run
ends within a few minutes on two workers.

| Run | States | What it shows |
|---|---|---|
| order_any | 254,590 | One order, two reconcilers, all four faults, one crash or rollback: `WriteAhead`, `NoInventedPosition`, `FilledIsFilled`, `EscalatedAtLimit` hold whatever happens; every order settles or is escalated for good, and an escalation reaches the alert. |
| order_benign | 674,416 | Two orders, two stages with switches, a crash, lookup errors, lost requests, failed commits, but none of the four faults: the ledger is then exact (`FailedTookNoPosition`, `FilledInFull`) and the engine implements `OrderLedger`. |
| control_any | 889,104 | One operator session with every event (restarts and config edits included), the loop and a liquidation: one buy at most slips past a halt, one order per session at most strays to a stage that was left. |
| control_serial | 13,848 | One request at a time: no request leaves trading enabled under a halt, the job is paused exactly under a halt, the stage is frozen, a started loop keeps passing. |
| trading_any | 348,274 | Two markets, one calm with two symbols, one where orders rest, prices cannot be read and move between reading and sending. Calm: exposure after a purchase within its cap, no approved order beyond free cash. Both: entries per day within their cap (but for orders not yet counted), nothing bought without a baseline: no order before the first snapshot, and in a day whose opening snapshot is too old none but the one approved before midnight. |
| positions_any | 40,874 | All sequences of up to four executed trades: matched as by the queue of single steps with no empty lot left, and no sell without a lot. |
| feed_any | 231,124 | Two symbols, one traded, downloads that outlast intervals, candles that are abnormal or not, heartbeats that lapse, orders that fail: candles keep their time, nothing trades on a dead feed, and a due lot is closed unless its candles stay abnormal. |
| dashboard_any | 392,483 | A browser that connects, leaves and comes back, a queue of one, up to two runs of either kind, a fault or an event of another part: queues hold the newest events, the page never goes back, is current once the line is quiet, and sees the end of a run; a handler whose browser left unsubscribes; the bus implements `EventFeed`. |
| gate_any | 2,247,758 | Four rows, three snapshots, two days: no live entry leaves on a record that does not show days, trades, wins and drawdown. |
| advisory_any | 45,954 | Two sessions race for one slot over midnight, a backward clock jump and a crash: no window of 24 hours over the cap, and every session finishes. |
| models_serial | 14,439 | One session, four models (two equal, one better, one disqualified): one active model, replaced only by a better one, and lost only to an archive request. |
| order_ambiguous | | *Violation.* See section 6. |

**Bounds.** One order is enough for what a single row and its sessions can do to each
other, since sessions share nothing but rows (the pass-wide commit and the alert need
two, and order_benign has two); a quantity of two lot steps has a partial fill; two
attempts have a first error, a last one and the escalation; one failure puts a crash at
every point of every behaviour, and the proofs of section 5 cover any number. Two
reconcilers make the overlap of the job with a request, and both overlap a submitter.
ControlPlane has one session of each kind in control_any; the proof covers any number.
TradingDay's prices, cash and percentages are chosen so that each cap binds, resizes
and rejects, and one price move takes the account over the loss cap. Two entries and
two exits are the fewest with which a lot is split between sells and a sell between
lots. AdvisoryCap has two ticks a day and a clock of four values, so that windows cross
midnight and the jump. `MaxTrades`, `MaxEntries`, `MaxRefusals`, `MaxMoves`,
`MaxFailures`, `MaxTime`, `MaxJumps` and `MaxCrashes` are bounds of the models, as is
the guard on `trades_today` in `TradingDay!Sell`; `Cardinality(Orders)` in
TradingDay bounds the orders resting at a time, which the code does not. In
CandleFeed ages are capped where nothing tells them apart, so its behaviours have no
end; `MaxFetchAge` lets a download outlast one interval, and the symbol not traded has
prices of its own so that its candles keep the feed alive. JobBoard's queue of one is the
smallest that overflows; the proofs have any size. `MaxJobs` has a run overtake another,
and `MaxTrouble` is one fault or one event of another part; the proofs have any number of
connections and of each. In PromotionGate four rows
are two round trips, or one and a live entry and exit; three snapshots have a peak, a fall
and a recovery; equity has one fall over the limit. Symmetry is
used only in runs without liveness.

Every property of a passing run comes with a mutant: a definition of the model
changed as a plausible bug would change it (a dropped guard, an off-by-one, an update
forgotten), under which TLC finds that property violated. They stand right before the
definitions they change.

## 4. Fairness

* *OrderLifecycle.* A session's next step is weakly fair: awaited calls end, with an
  answer or an exception, because the client has timeouts. The reconcile job keeps
  firing (APScheduler, `coalesce`, its errors are caught), backoff windows pass, and a
  market order is filled or given up. Crashes, rollbacks, operators and new orders are
  not forced. `Boot` is fair only while starting up; a request nobody makes is not.
* *ControlPlane.* Requests that began are carried through, the job fires when not
  paused, its reads return, an order under way goes on, and a pass ends: strong
  fairness of `MovesOn(Loop)`, since a pass goes through finitely many lots and
  symbols, which the model does not count, and `MovesOn` is disabled during each order.
* *CandleFeed.* The heartbeat and the loop run every minute or so and an interval lasts
  an hour or four, so each of them comes round in any state that recurs; a download of
  some symbol goes on to succeed, the account to answer while the feed is fresh and the
  candles of a traded symbol are normal, an exit to be taken while the checks pass: strong
  fairness, as each is retried on the next firing. (That the heartbeat succeeds at some
  time while the candles are normal is fair too: their verdict changes only with a
  download of the symbol, hours apart.) Nothing is assumed of the traded symbol's own
  download, nor of what its candles are; the property asks for that. That a horizon elapses is not
  forced.
* *JobBoard.* The event loop runs each handler that can run (weak fairness per
  connection), the page polls on an interval and its answers land. Runs, connections
  and faults are not forced.
* *AdvisoryCap.* Postgres grants an advisory lock to its waiters in turn (strong
  fairness of `Locks`), and provider calls end. Ollama's are given
  `llm_timeout_seconds`; Gemini's are not, and end by the limits of its SDK.

## 5. Proofs

`tlapm M.tla` checks the theorems of eight modules. They hold for all values of the
constants that satisfy the assumptions named in the components' modules, so for any
number of orders, sessions, operators, models, failures.

* **OrderProofs, whatever the faults.** `IndInv` of OrderLifecycle is inductive under
  every fault. `WriteAhead`, `NoInventedPosition` and `FilledIsFilled` are not inductive
  alone: a pass commits what it read many steps earlier. The strengthening says what an
  answer on its way (`Truthful`), a loaded image (`PassInv`), a session (`SubmitInv`), a
  row (`RowInv`, `Backed`) and the exchange (`ExchangeInv`) can disagree about. Its heart
  is that the exchange only executes more, so that an old answer understates; and
  that a commit which leaves the quantity column alone, because the loaded value
  equals the answer, leaves in place either the requested quantity of a row without a
  price or a quantity another session recorded. `EscalationIsExact` follows from
  `RowInv`. The frame lemmas (`SubmitFrame`, `PassFrame`) say once what survives
  of a session when rows and exchange move under it.
* **OrderProofs, without the four faults** (`Benign == Faults = {}`): `RowsImplementLedger`,
  `FilledRowsAreWhole`, `FailedRowsTookNothing`. Crashes, rollbacks, requests lost, lookups
  that fail and accounts that cannot be read remain. The invariant is `BenignInv`, of
  OrderRefinement, and every part is needed for another: sessions take turns
  (`TakeTurns`); so a submission's row is still as it committed it (`OwnRow`), a pass's
  copies are still the rows, and what either heard of an order is still so, but for
  fills (`CopiesHold`); an order has executed all of
  its quantity or none (`AllOrNothing`); so a status that settles a row is one the order
  can no longer contradict (`RowsHold`). Each action is then either a step of the ledger
  for one order or leaves it alone, a pass for all of the orders it commits. TLC found
  `BenignInv` to hold in all 674,416 states of order_benign.
* **ControlProofs.** `HaltMargin` and `StageMargin` count, beside the order that
  slipped or strayed, the one that has passed its last check. `OnlyLoopBuys` is what
  makes the margin one and not one per session: liquidations only sell, and the loop is
  a single job (`max_instances=1`). `OrderHasPass` lets a sleeping session carry no order.
  `AloneHaltStops`, `AloneHaltFreezes` and `AloneJobFollows` are about requests that do
  not overlap (`Alone`, an assumption of the theorems which the code does not enforce:
  ControlPlane_start, _switch and _stuck are what happens without it). Their invariant is
  `Coherent`: what a request under way read of the halt, or wrote to it, still stands.
  Which config edits each needs excluded is in its statement.
* **TradingProofs.** Of the rules: `ApprovedWithinCaps`, whatever the proposal and the
  context, a buy that `Evaluate` lets through, resized or not, is within the position and
  the exposure cap of the figures it was given; `ExitsAreNeverCapped`, no rule of size,
  exposure, loss or frequency objects to a sell. Of the account, for any symbols, prices,
  limits and any number of orders that rest: `EntriesAlwaysCapped`, whose `DayInv` counts
  beside the entries of the day those among the resting orders that the trade count does
  not have yet; `EntriesNeedBaseline`, whose `BaselineInv` reserves a place for an entry
  once it is approved, since it is sent whatever the day's snapshots become; and, under the condition the properties state (a
  market that is readable and stands still while an entry is under way),
  `ApprovedAlwaysAffordable` and `ExposureAlwaysWithinCap`. Their invariant `CalmInv` says
  that an entry keeps the price it was proposed at and, once approved, the room that the
  rule found for it: an exit only makes more room. Exposure is a sum over the symbols;
  that a sum moves by what one term moves (`SumUnfolds`, `SumChanges`) is shown from a
  smallest set for which it would not.
* **PositionProofs.** `FifoForEveryHistory`: for every sequence of trades, whatever their
  number and quantities, `match_fifo` closes what the queue of single lot steps closes,
  in the same order, and leaves open what it leaves. `MatchingAlwaysFifo` is the case of
  the rows of PositionExits. The argument: a fold over a sequence is a step after the fold
  over all but its last element (`FoldLeft` of the library is unfolded once, by induction
  over prefixes); a sale that works through the lots takes as many lot steps off the front
  of the queue as it has left, lot by lot. The inductions run over a set of naturals, by
  its smallest counterexample (`PrefixInduction`), since the library's induction theorems
  take an operator. `SellsHaveTheirLots` assumes `Foreign = 0`, without which it is false
  (section 6): its `PositionInv` balances the account against the rows, the holding and
  the buys still to execute being the lot steps that are open (`Covered`), so that a sale
  the account can pay finds its lots. TLC found it to hold in all 40,874 states of
  positions_any.
* **FeedProofs.** `FeedInv` bounds the age of what is stored by what a download can have
  outlasted, and a row that says *online* by the age of the candle it was judged on plus
  its own. `CandlesAlwaysTheirOwn` and `OrdersAlwaysOnLiveFeed` follow, for any number of
  symbols, any prices and any age of a heartbeat.
* **BoardProofs.** `QueueAlwaysSuffix` and the refinement `BusIsFeed` of the bus alone, for
  any queue size and any connections; `BoardImplementsFeed` carries it to the whole of
  JobBoard, since what JobBoard adds does a step of the bus or none; `ViewOnlyMovesOn`
  needs that an answer under way is between what is shown and what the rows say.
  `QuietBoardIsCurrent`: once the end of the latest download has been announced, a page
  that is connected shows it, holds an answer that says it, or has a nudge on its way (a
  greeting, an event queued or in hand, a request not yet answered). A full queue drops
  its oldest event, and with it never the last nudge; an abort replaces a request by a
  later one. TLC found this `CurrentInv` to hold in 1,749,039 states.
* **AdvisoryProofs.** For any number of sessions, any cap and any clock: who has counted
  holds the lock and the room it found is still there (`CountHolds`); the rolling count
  has no upper end, so it covers a window also when the clock has gone back.
* **ModelProofs.** With any number of overlapping sessions no promotion leaves a symbol
  without a model (`PromotionsServe`). With a sole session (`Sole`, an assumption of the
  theorem) `SoleInvariant`: what a promotion found active is still the only active
  model when it commits (`FoundIsCurrent`), hence `OneModelTrades`; and the candidate
  still beats that model when it is archived, though the active model is read once to
  compare and once more to archive it (`BestAlwaysReplacesWorse`). `Sole` is not
  something the code enforces; section 6 has the instances that show what happens without.

These theorems state every invariant that the passing runs check, and every action
property but one. Only model-checked are:

* the liveness properties (`EveryOrderSettles`, `EscalationSurfaces`, `StartedLoopRuns`,
  `DueLotsClose`, `EndIsSeen`, `LeaversUnsubscribed`, `CallersFinish`), since fairness is
  about ENABLED, which the provers do not have;
* `EntriesAreEarned`, which compares percentages and drawdowns folded over a record with
  a definition that does without the folds.

## 6. Where the code and its own words part

One is a run of `PROJECT.json` and its finding. Each of the others ends in a
counterexample to the one property it names. Those with a configuration of their own
are regressions to be run by hand when the code is changed; the rest are a listed
configuration with the difference in brackets, and that one property in place of its
own. Some properties of section 3 are stated under the condition these show to be
needed.

| Instance | Property | What happens, and what the repository says |
|---|---|---|
| OrderLifecycle_ambiguous (run) | FailedTookNoPosition | `create_order` raises after the exchange took the order; the row is failed (`trading_engine.py:512`), never asked about again, and the order fills. "An order that failed or was cancelled took no position" (`risk_engine.py:55-57`). |
| OrderLifecycle_ambiguous [Faults = {"partialExpiry"}] | FailedTookNoPosition | An order ends after a partial fill and is mapped to failed or cancelled; its fill is in no position. Same words. |
| OrderLifecycle_ambiguous [Faults = {"overlap"}] | FilledInFull | A submission and a pass hold the same row; status and quantity in the end come from different answers. "Apply an exchange response to a trade row" (`trading_engine.py:553`). |
| OrderLifecycle_ambiguous [Faults = {}] | FeeIsKept | `get_order` carries no fills, so a reconciled row's fee becomes 0. "Total fees for this trade in USDT" (`db/models.py:56`). |
| OrderLifecycle_ambiguous [MaxFailures = 1, Faults = {}] | StartsWithKnownAccount | A lookup error or an exception at startup leaves orders unresolved and the loop starts. "The system never trades against an account view that still has unknown orders in it" (`services/scheduler.py:17-19`). |
| OrderLifecycle_stranded | EveryOrderSettles | After a stage switch the orders of the stage that was left are never asked about, and never escalated. "Rather than sitting unresolved and invisible" (`trading_engine.py:674-675`). |
| OrderLifecycle_ambiguous [MaxFailures = 1, Faults = {}] | SnapshotCoversFills | A snapshot after a fill that cannot be read, or a crash before it, is not made up for. "Called after every fill so the risk engine's daily loss baseline stays current" (`trading_engine.py:846`). |
| OrderLifecycle_forced | ForcedPassTakesAll | A pass from the dashboard keeps to the backoff. "Including orders inside their backoff" (`api/routes_system.py:271`). |
| ControlPlane_start | HaltStopsTrading | Start reads the halt flag, reconciles, then enables trading under a halt that came in between (`api/routes_system.py:152-166`). |
| ControlPlane_switch | HaltFreezesStage | The same of a stage switch (`api/routes_stage.py:99-103`). |
| ControlPlane_slips | HaltIsImmediate | The one buy that is past its check. "The system is already refusing to place anything new" (`services/halt_service.py:135-137`). `AtMostOneSlips` is what holds. |
| ControlPlane_resume | EntriesNeedStart | A pass that began before the halt goes on to enter after Resume. "Trading is left stopped" (`services/halt_service.py:177`). |
| ControlPlane_stuck | StartedLoopRuns | A halt's pause falls after a later resume's: the job stays paused with no halt, and no Start revives it. "Enable the trade loop" (`api/routes_system.py:147`). |
| TradingDay_unpriced | ExposureAlwaysCapped | An asset without a price is left out of the exposure. "Total exposure across all symbols must stay <= max_total_exposure_pct" (`risk_engine.py:228`). |
| TradingDay_loss | LossStopsEntries | The loss is measured on the last snapshot, which no price move updates. "Reject new risk once today's loss reaches max_daily_loss_pct" (`risk_engine.py:275`). |
| PositionExits_any [Faults = {}] | ExitsCloseTheirLot | A sell for one lot closes the oldest; its `exit_reason` stands at another entry (`trading_engine.py:493`, `position_tracker.py:162-189`). |
| PositionExits_any [Foreign = 2, Faults = {"resting"}] | NothingUnmatched | With a holding the rows do not account for, a late buy or a second sell leaves a sell without a lot. "Should be zero in normal operation" (`position_tracker.py:120`). |
| AdvisoryCap_fallback | CallsCapped | A reservation pays for two calls when the first provider fails. "The limit bounds *calls made*" (`llm_advisor.py:17-19`). |
| AdvisoryCap_rolling | RefusedOnlyWhenDayFull | The rolling count refuses on a normal clock too: yesterday evening's calls count this morning. "A backstop against a clock that jumps backwards" (`llm_advisor.py:254`). |
| ModelRegistry_serial [Sessions = {job, click}, Requests = {"train", "promote"}] | AtMostOneActive | Two promotions that find no active model, or the same one, both commit. |
| ModelRegistry_serial [Sessions = {job, click}, Requests = {"train", "best", "promote"}] | BestReplacesWorse | promote-best compares with one model and archives another, promoted meanwhile. "Refuses to promote a candidate that scores no better" (`model_registry.py:259`). |
| ModelRegistry_realized | RefusalsWeighResults | The comparison leaves the active model's realized results out (`model_registry.py:281`). Realized win rate "joins the score and outweighs both" (`model_registry.py:14-16`). |
| PromotionGate_any | SwitchIsEarned | A paper order still under way is recorded between the gate's verdict and the commit of the switch. "Live additionally requires the gate" (`api/routes_stage.py:80`). The next live entry asks again. |
| PromotionGate_degraded | DegradedStops | The gate reads paper rows only: live losses never close it. "If the record degrades after promotion, new risk stops being taken" (`trading_engine.py:116-118`). |
| PromotionGate_any | DaysNeverShrink | The days on record count from the first snapshot until the first entry, and then from there: they start again. "Measured from the earliest evidence of it" (`services/promotion_gate.py:98`). |
| CandleFeed_any [Spec] | StopHonoured | A candle stored while in progress keeps the extremes it had then; the market trades through the stop and the lot leaves by something else. "So a stop breached intra-candle is honoured" (`services/scheduler.py:333-334`); "immutable once closed" (`services/data_downloader.py:73-74`). |
| CandleFeed_any [Spec] | StopWasTradedThrough | A lot is stopped out by the low of a candle from before it was opened. Same comment. |
| CandleFeed_any [Spec] | StopBelowEntry | The stop comes from the stored close, the fill from the market, which may be below it. "stop < entry < target" (docstring of `evaluate_exit`). |
| CandleFeed_any [Spec] | OwnCandleIsFresh | A symbol whose own candles stopped coming trades on while another keeps the feed online. "Never trade on stale or missing data without flagging it" (`src/master_prompt.md:17`). |
| CandleFeed_any | DueLotsAlwaysClose | Once the candles of a symbol stop coming and the newest is abnormal, or there are fewer than 20, no exit of it passes again. The caps spare sells so as not to leave the system "unable to close a large or losing position" (`risk_engine.py:14-17`); the volatility check does not, as the same text says, and nothing ends its refusal. |
| JobBoard_any [Spec, MaxJobs = 1] | RunningRowRuns | A run that dies leaves its row *running*. "Every run leaves a row, not just a last-known blob" (`services/job_runs.py`). |
| JobBoard_any [Spec, MaxJobs = 1] | TrainingIsCurrent | A training says nothing of its end, so the page shows it running until the next poll. |
| JobBoard_any [Spec, MaxJobs = 1] | NobodyLeft | A browser gone before the greeting leaves its queue in the bus for good (`api/routes_ws.py:27`, outside the `try`). |

## 7. What is not modelled

* Numerical code (features, ATR, training, volatility z-scores, P&L averages): one
  sequential pass over data, nothing to interleave. Of the z-scores CandleFeed keeps the
  verdict; edits of their limits are left out.
* The LLM uncertainty adjustment of the limits in `load_limits`, `risk_log`, and
  `component_status` rows other than the reconciliation alert and the two the feed needs.
* `ModelRegistry.Load` without the refusal of a model whose file is missing
  (`model_registry.py:220`): a refusal changes nothing.
* The exchange client's retries of read calls: a lookup answers, or errs.
* PIN verification, and edits of thresholds and limits under it; logging, formatting, the
  queries of the other dashboard panels.
* Candles older than the newest: no exit rule reads them. The volatility check does, so
  its verdict may change whenever some are stored.

## 8. Plan

1. Composition of OrderLifecycle with ControlPlane's halt: cancellations by
   `engage_halt` against an order on its way, and the gate of PromotionGate in the place
   of `gateOpen`.
2. CandleFeed composed with PositionExits through the touched prices.
3. Proofs: `EntriesAreEarned`: the inductive part (what the record was at each of the
   gate's reads, while nobody else writes it) first, then that the drawdown `evaluate_gate`
   folds is the largest fall between two snapshots.
