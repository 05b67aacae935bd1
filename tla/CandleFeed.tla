------------------------------ MODULE CandleFeed ------------------------------
(***************************************************************************)
(* The candles trading decides on, and what keeps it from deciding on old    *)
(* ones: services/data_downloader.py stores what the exchange returns,        *)
(* heartbeat_job judges how old the newest candle is, the health check of the  *)
(* risk engine reads that judgement, its volatility check compares a symbol's  *)
(* newest candle with those before it, and the exit and entry passes read the  *)
(* newest candle stored.                                                     *)
(*                                                                          *)
(* Time is counted in candle intervals that have ended: an age is the number   *)
(* of interval ends passed since the candle opened, 0 for the one in progress. *)
(* Ages are capped where nothing tells them apart, so behaviours have no end.  *)
(* A price is one of a few levels, one apart where it matters: a stop is one   *)
(* below the entry's signal and a target one above its fill.                  *)
(***************************************************************************)
EXTENDS Integers, FiniteSets

CONSTANTS
    Symbols,
    Prices,     \* [Symbols -> the levels its market may trade at]
    Traded,     \* the symbols with an active model
    BeatSpan,   \* interval ends a heartbeat can have seen and not be too old
    MaxFetchAge \* bound: interval ends a download can see

ASSUME FeedAssumption ==
    /\ Traded \subseteq Symbols
    /\ \A s \in Symbols : Prices[s] \subseteq Nat \ {0} /\ Prices[s] # {}
    /\ BeatSpan \in Nat /\ MaxFetchAge \in Nat

VARIABLES
    live,     \* the market: the candle in progress of each symbol
    stored,   \* the newest candle stored of each symbol, as it was inserted
    age,      \* its age
    normal,   \* the traded symbols whose newest candle check_volatility finds
              \* within the bounds of those before it, of which there are 20
    fetched,  \* the klines a download has read and not yet inserted
    apiUp,    \* component_status of binance_api: online, and lately so
    feedBeat, \* that of data_feed: the age of the heartbeat that found it
              \* online, Lapsed when it found otherwise or is too old
    lot       \* the open lot of each symbol (bound: one at a time)

rows == <<apiUp, feedBeat>>
candles == <<stored, age, normal>>
vars == <<live, candles, fetched, rows, lot>>

NoCandle == [low |-> 0, high |-> 0, close |-> 0]
NoFetch  == [symbol |-> {}, candle |-> NoCandle, age |-> 0]
NoLot    == [price |-> 0, stop |-> 0, marks |-> {}]

\* What happened in the life of a lot: its horizon passed ("due"), the market
\* traded at its stop ("breached").
Marked(l, mark) == IF l = NoLot THEN l ELSE [l EXCEPT !.marks = @ \cup {mark}]

\* "Allow two intervals of lag": the tolerance of _refresh_data_feed_status. A
\* candle is past it once its own interval and the next have ended.
Tolerance == 2
OldestKept == Tolerance + BeatSpan
Older(a) == IF a < OldestKept THEN a + 1 ELSE a
Lapsed == BeatSpan + 1
Opens(p) == [low |-> p, high |-> p, close |-> p]

Init ==
    /\ live \in [Symbols -> UNION {{Opens(p) : p \in Prices[s]} : s \in Symbols}]
    /\ \A s \in Symbols : live[s].close \in Prices[s]
    /\ stored = [s \in Symbols |-> NoCandle]
    /\ age = [s \in Symbols |-> OldestKept]
    /\ normal = {}
    /\ fetched = NoFetch
    \* both rows are seeded offline
    /\ apiUp = FALSE /\ feedBeat = Lapsed
    /\ lot = [s \in Symbols |-> NoLot]

-----------------------------------------------------------------------------
(* The market and the clock *)

MarketMoves(s, p) ==
    /\ p # live[s].close
    /\ live' = [live EXCEPT ![s] =
                    [low   |-> IF p < live[s].low THEN p ELSE live[s].low,
                     high  |-> IF p > live[s].high THEN p ELSE live[s].high,
                     close |-> p]]
    /\ lot' = IF p <= lot[s].stop THEN [lot EXCEPT ![s] = Marked(@, "breached")]
                                  ELSE lot
    /\ UNCHANGED <<candles, fetched, rows>>

\* check_component_health takes a heartbeat only so long for a sign of life.
\* (Before it, the definition that takes it for good.)
BeatAgesNot(beat) == beat
BeatAges(beat) == IF beat = Lapsed THEN beat ELSE beat + 1

\* An interval ends and the next candle opens.
IntervalEnds ==
    /\ fetched = NoFetch \/ fetched.age < MaxFetchAge
    /\ live' = [s \in Symbols |-> Opens(live[s].close)]
    /\ age' = [s \in Symbols |-> Older(age[s])]
    /\ fetched' = IF fetched = NoFetch THEN fetched ELSE [fetched EXCEPT !.age = @ + 1]
    /\ feedBeat' = BeatAges(feedBeat)
    /\ UNCHANGED <<stored, normal, apiUp, lot>>

\* The heartbeats are older than component_heartbeat_max_age_seconds, that of
\* binance_api first or last: an order refreshes it too.
ApiLapses  == apiUp /\ apiUp' = FALSE /\ UNCHANGED feedBeat
FeedLapses == feedBeat # Lapsed /\ feedBeat' = Lapsed /\ UNCHANGED apiUp
BeatsLapse == /\ ApiLapses \/ FeedLapses
              /\ UNCHANGED <<live, candles, fetched, lot>>

\* horizon_expiry of an entry passes, whatever the horizon is.
HorizonPasses(s) ==
    /\ lot[s] # NoLot /\ "due" \notin lot[s].marks
    /\ lot' = [lot EXCEPT ![s] = Marked(@, "due")]
    /\ UNCHANGED <<live, candles, fetched, rows>>

-----------------------------------------------------------------------------
(* download_historical_data *)

\* _fetch_klines: the klines end with the candle still in progress.
Fetches(s) ==
    /\ fetched = NoFetch
    /\ fetched' = [symbol |-> {s}, candle |-> live[s], age |-> 0]
    /\ UNCHANGED <<live, candles, rows, lot>>

\* get_volatility_stats z-scores the newest candle against a window of those
\* before it, all of one symbol: its verdict stands until a download of that
\* symbol stores a newer one, or one that was missing from the window.
Rejudged(s) == normal' \in {normal \ {s}, normal \cup ({s} \cap Traded)}

\* What was fetched replaces nothing: ON CONFLICT DO NOTHING. It becomes the
\* newest candle if it opened later. (Before it, the definitions that key what
\* arrives by the time it is stored, and that let it replace what is there.)
InsertedAsCurrent(s, f) ==
    /\ stored' = [stored EXCEPT ![s] = f.candle]
    /\ age' = [age EXCEPT ![s] = 0]
    /\ Rejudged(s)
Inserted(s, f) ==
    /\ IF f.age < age[s]
       THEN /\ stored' = [stored EXCEPT ![s] = f.candle]
            /\ age' = [age EXCEPT ![s] = f.age]
       ELSE UNCHANGED <<stored, age>>
    /\ Rejudged(s)

\* _upsert_candles and the commit of download_symbol
Stores ==
    /\ \E s \in fetched.symbol : Inserted(s, fetched)
    /\ fetched' = NoFetch
    /\ UNCHANGED <<live, rows, lot>>

\* It raises: rolled back, and the next symbol is tried.
DownloadFails ==
    /\ fetched # NoFetch
    /\ fetched' = NoFetch
    /\ UNCHANGED <<live, candles, rows, lot>>

-----------------------------------------------------------------------------
(* heartbeat_job *)

\* _refresh_data_feed_status judges the newest candle of all symbols. (Before
\* it, the definition that asks it of every symbol.)
FeedStatusOfEvery ==
    IF \E s \in Symbols : stored[s] = NoCandle THEN "offline"
    ELSE IF \A s \in Symbols : age[s] < Tolerance THEN "online" ELSE "error"
FeedStatus ==
    IF \A s \in Symbols : stored[s] = NoCandle THEN "offline"
    ELSE IF \E s \in Symbols : age[s] < Tolerance THEN "online" ELSE "error"

\* The account answers or it does not; in both cases the feed is judged. A
\* heartbeat that raises is rolled back and leaves both rows as they were.
Heartbeat(reachable) ==
    /\ apiUp' = reachable
    /\ feedBeat' = IF FeedStatus = "online" THEN 0 ELSE Lapsed
    /\ UNCHANGED <<live, candles, fetched, lot>>

-----------------------------------------------------------------------------
(* The trade loop *)

\* check_component_health
Healthy == apiUp /\ feedBeat # Lapsed
\* The two rules that gate sells as they do buys: health and check_volatility
Passes(s) == Healthy /\ s \in normal

\* evaluate_exit on the newest candle stored, whenever it opened
ExitReason(s) ==
    IF stored[s].low <= lot[s].stop THEN "stop_hit"
    ELSE IF stored[s].high >= lot[s].price + 1 THEN "target_reached"
    ELSE IF "due" \in lot[s].marks THEN "horizon_elapsed" ELSE "none"

\* place_order submits, and records on the binance_api row how that went.
Submitted(succeeds) == apiUp' = succeeds /\ UNCHANGED feedBeat

\* _process_entries: sized and stopped by the stored close, filled at the
\* market's price. A symbol without a model has no signal.
Enters(s) ==
    /\ s \in Traded /\ lot[s] = NoLot
    /\ stored[s] # NoCandle
    /\ Passes(s)
    /\ Submitted(TRUE)
    /\ lot' = [lot EXCEPT ![s] = [NoLot EXCEPT !.price = live[s].close,
                                               !.stop  = stored[s].close - 1]]
    /\ UNCHANGED <<live, candles, fetched>>

\* _process_exits: the lot is sold when a rule closes it.
Exits(s) ==
    /\ lot[s] # NoLot
    /\ ExitReason(s) # "none"
    /\ Passes(s)
    /\ Submitted(TRUE)
    /\ lot' = [lot EXCEPT ![s] = NoLot]
    /\ UNCHANGED <<live, candles, fetched>>

\* The exchange fails an entry or an exit: until the next heartbeat there is no
\* other.
OrderFails(s) ==
    /\ s \in Traded
    /\ stored[s] # NoCandle
    /\ lot[s] = NoLot \/ ExitReason(s) # "none"
    /\ Passes(s)
    /\ Submitted(FALSE)
    /\ UNCHANGED <<live, candles, fetched, lot>>

-----------------------------------------------------------------------------
Next == \/ \E s \in Symbols : \/ \E p \in Prices[s] : MarketMoves(s, p)
                              \/ HorizonPasses(s) \/ Fetches(s)
                              \/ Enters(s) \/ Exits(s) \/ OrderFails(s)
        \/ IntervalEnds \/ BeatsLapse \/ Stores \/ DownloadFails
        \/ \E reachable \in BOOLEAN : Heartbeat(reachable)

Spec == Init /\ [][Next]_vars

\* Jobs run far more often than an interval ends or a candle is stored, and
\* what fails is tried again: of some symbol a download goes on to succeed, the
\* account to answer while the feed is fresh and the candles of s are normal,
\* and an exit to be taken while the checks pass.
FreshHeartbeat(s) == FeedStatus = "online" /\ s \in normal /\ Heartbeat(TRUE)
FairSpec == /\ Spec
            /\ SF_vars(\E s \in Symbols : Fetches(s)) /\ SF_vars(Stores)
            /\ \A s \in Traded : SF_vars(FreshHeartbeat(s)) /\ SF_vars(Exits(s))

-----------------------------------------------------------------------------
(* Properties *)

\* The extremes a stop or a target is judged by while their candle is still in
\* progress are prices the market has traded at in it: however long a download
\* took, no candle is stored under the open time of another.
CandlesAreTheirOwn ==
    \A s \in Symbols :
        (stored[s] # NoCandle /\ age[s] = 0)
            => stored[s].low >= live[s].low /\ stored[s].high <= live[s].high

\* An order, entry or exit, is placed only while some candle is no older than
\* the tolerance and the age a heartbeat may have: the two limits add up, since
\* the row is judged by its own age and the candle is not looked at again.
Trades == \E s \in Symbols : (lot[s] = NoLot) # (lot'[s] = NoLot)
OrdersOnLiveFeed ==
    [][Trades => \E s \in Symbols : age[s] < Tolerance + BeatSpan]_vars

\* A position whose horizon has passed is closed in the end, unless the candles
\* of its symbol are abnormal for good: also if they can never be downloaded
\* again, as long as the last that were are normal.
DueLotsClose ==
    \A s \in Traded : []<>(s \in normal)
                         => ("due" \in lot[s].marks ~> lot[s] = NoLot)

\* No more can be said. The caps spare sells so as not to leave the system "unable
\* to close a large or losing position", and check_volatility does not "because a
\* data glitch ... makes any order unsafe" (docstring of risk_engine); the glitch
\* lasts as long as no newer candle is stored, and so may what it holds back.
DueLotsAlwaysClose == \A s \in Traded : "due" \in lot[s].marks ~> lot[s] = NoLot

\* The text promises more. "A stop breached intra-candle is honoured" (comment
\* in _process_exits): a lot whose stop was traded through leaves by its stop.
StopHonoured ==
    [][\A s \in Symbols :
          (lot[s] # NoLot /\ lot'[s] = NoLot /\ "breached" \in lot[s].marks)
              => ExitReason(s) = "stop_hit"]_vars
\* ... and one leaves by its stop only if it was traded through.
StopWasTradedThrough ==
    [][\A s \in Symbols :
          (lot[s] # NoLot /\ lot'[s] = NoLot /\ "breached" \notin lot[s].marks)
              => ExitReason(s) # "stop_hit"]_vars

\* "stop < entry < target" (docstring of evaluate_exit)
StopBelowEntry == \A s \in Symbols : lot[s] # NoLot => lot[s].stop < lot[s].price

\* "never trade on stale or missing data": the symbol that is traded is fresh.
OwnCandleIsFresh ==
    [][\A s \in Symbols : (lot[s] = NoLot) # (lot'[s] = NoLot)
                             => age[s] < Tolerance + BeatSpan]_vars
=============================================================================
