----------------------------- MODULE FeedProofs -----------------------------
(***************************************************************************)
(* What CandleFeed promises of the candles trading decides on, for every set  *)
(* of symbols, every set of prices, every age a heartbeat or a download may    *)
(* reach.                                                                   *)
(***************************************************************************)
EXTENDS CandleFeed, TLAPS

USE FeedAssumption DEF FeedAssumption

Candles == [low : Int, high : Int, close : Int]
Klines  == [symbol : SUBSET Symbols, candle : Candles, age : Nat]
Lots    == [price : Int, stop : Int, marks : SUBSET {"due", "breached"}]

TypeOK ==
    /\ live \in [Symbols -> Candles]
    /\ stored \in [Symbols -> Candles]
    /\ age \in [Symbols -> 0..OldestKept]
    /\ normal \subseteq Traded
    /\ fetched \in Klines
    /\ apiUp \in BOOLEAN
    /\ feedBeat \in 0..Lapsed
    /\ lot \in [Symbols -> Lots]

\* Within the range of the candle in progress
Within(candle, s) == candle.low >= live[s].low /\ candle.high <= live[s].high

\* The market's own candle is in order, and what a download has read of the
\* candle in progress is part of it.
FetchedIsItsOwn ==
    /\ \A s \in Symbols : /\ live[s].low <= live[s].close
                          /\ live[s].close <= live[s].high
    /\ fetched.age = 0 => \A s \in fetched.symbol : Within(fetched.candle, s)

\* While the feed counts as healthy some candle is no older than the tolerance
\* was when its heartbeat found it.
FeedIsAsOldAsItsBeat ==
    feedBeat # Lapsed => \E s \in Symbols : age[s] < Tolerance + feedBeat

FeedInv == /\ TypeOK
           /\ FetchedIsItsOwn
           /\ CandlesAreTheirOwn
           /\ FeedIsAsOldAsItsBeat

-----------------------------------------------------------------------------
LEMMA OlderAges ==
    ASSUME NEW a \in 0..OldestKept
    PROVE  Older(a) \in 1..OldestKept /\ Older(a) <= a + 1
  BY DEF Older, OldestKept, Tolerance

\* What time and the market note on a lot makes none of it, nor one of none.
LEMMA MarksKeepLots ==
    ASSUME NEW l \in Lots, NEW mark \in {"due", "breached"}
    PROVE  Marked(l, mark) \in Lots /\ (Marked(l, mark) = NoLot <=> l = NoLot)
  BY DEF Marked, Lots, NoLot

LEMMA InitFeed == Init => FeedInv
<1> SUFFICES ASSUME Init PROVE FeedInv
  OBVIOUS
<1>1. \A s \in Symbols : \E p \in Nat : live[s] = Opens(p)
  <2>1. \A t \in Symbols : Prices[t] \subseteq Nat
    OBVIOUS
  <2>2. live \in [Symbols -> UNION {{Opens(p) : p \in Prices[s]} : s \in Symbols}]
    BY DEF Init
  <2> QED
    BY <2>1, <2>2
<1>2. TypeOK
  <2>1. live \in [Symbols -> Candles]
    <3>1. \A p \in Nat : Opens(p) \in Candles
      BY DEF Opens, Candles
    <3> QED
      BY <1>1, <3>1 DEF Init
  <2>2. stored \in [Symbols -> Candles] /\ fetched \in Klines /\ lot \in [Symbols -> Lots]
    BY DEF Init, Candles, Klines, Lots, NoCandle, NoFetch, NoLot
  <2>3. age \in [Symbols -> 0..OldestKept] /\ feedBeat \in 0..Lapsed
    BY DEF Init, OldestKept, Tolerance, Lapsed
  <2> QED
    BY <2>1, <2>2, <2>3 DEF Init, TypeOK
<1>3. FetchedIsItsOwn
  BY <1>1 DEF Init, FetchedIsItsOwn, NoFetch, Opens
<1>4. CandlesAreTheirOwn
  BY DEF Init, CandlesAreTheirOwn
<1>5. FeedIsAsOldAsItsBeat
  BY DEF Init, FeedIsAsOldAsItsBeat
<1> QED
  BY <1>2, <1>3, <1>4, <1>5 DEF FeedInv

\* Nothing is lost while neither the market, nor the store, nor what is known
\* of the feed changes.
LEMMA QuietInv ==
    ASSUME FeedInv, UNCHANGED <<live, candles, fetched>>, lot' \in [Symbols -> Lots],
           apiUp' \in BOOLEAN, feedBeat' \in {feedBeat, Lapsed}
    PROVE  FeedInv'
  BY DEF candles, FeedInv, TypeOK, FetchedIsItsOwn, Within, CandlesAreTheirOwn,
         FeedIsAsOldAsItsBeat, Lapsed

LEMMA MarketInv ==
    ASSUME FeedInv, NEW s \in Symbols, NEW p \in Prices[s], MarketMoves(s, p)
    PROVE  FeedInv'
<1>1. p \in Int
  OBVIOUS
<1>2. live[s] \in Candles
  BY DEF FeedInv, TypeOK
<1>3. /\ live'[s].low \in Int /\ live'[s].high \in Int
      /\ live'[s].low <= p /\ p <= live'[s].high /\ live'[s].close = p
      /\ live'[s].low <= live[s].low /\ live[s].high <= live'[s].high
      /\ live'[s] \in Candles
      /\ \A t \in Symbols \ {s} : live'[t] = live[t]
  BY <1>1, <1>2 DEF MarketMoves, FeedInv, TypeOK, FetchedIsItsOwn, Candles
<1>4. \A t \in Symbols : live'[t].low <= live[t].low /\ live[t].high <= live'[t].high
  <2>1. \A t \in Symbols : live[t].low \in Int /\ live[t].high \in Int
    BY DEF FeedInv, TypeOK, Candles
  <2> QED
    BY <1>3, <2>1
<1>5. TypeOK'
  <2>1. live' \in [Symbols -> Candles]
    BY <1>3 DEF MarketMoves, FeedInv, TypeOK
  <2>2. lot' \in [Symbols -> Lots]
    BY MarksKeepLots DEF MarketMoves, FeedInv, TypeOK
  <2> QED
    BY <2>1, <2>2 DEF MarketMoves, FeedInv, TypeOK, rows, candles
<1>6. FetchedIsItsOwn'
  <2>1. \A t \in Symbols : live'[t].low <= live'[t].close /\ live'[t].close <= live'[t].high
    BY <1>3 DEF FeedInv, FetchedIsItsOwn
  <2>2. fetched.candle.low \in Int /\ fetched.candle.high \in Int
    BY DEF FeedInv, TypeOK, Klines, Candles
  <2>3. \A t \in Symbols : /\ live[t].low \in Int /\ live[t].high \in Int
                           /\ live'[t].low \in Int /\ live'[t].high \in Int
    BY <1>5 DEF FeedInv, TypeOK, Candles
  <2>4. fetched' = fetched /\ fetched.symbol \subseteq Symbols
    BY DEF MarketMoves, FeedInv, TypeOK, Klines
  <2>5. (fetched.age = 0 => \A t \in fetched.symbol : Within(fetched.candle, t))'
    BY <1>4, <2>2, <2>3, <2>4 DEF FeedInv, FetchedIsItsOwn, Within
  <2> QED
    BY <2>1, <2>5 DEF FetchedIsItsOwn
<1>7. CandlesAreTheirOwn'
  BY <1>4, <1>5 DEF MarketMoves, FeedInv, CandlesAreTheirOwn, TypeOK, Candles, candles
<1>8. FeedIsAsOldAsItsBeat'
  BY DEF MarketMoves, FeedInv, FeedIsAsOldAsItsBeat, rows, candles
<1> QED
  BY <1>5, <1>6, <1>7, <1>8 DEF FeedInv

\* The end of an interval leaves no candle in progress that is stored or
\* fetched, and everything one interval older.
LEMMA IntervalInv == ASSUME FeedInv, IntervalEnds PROVE FeedInv'
<1>1. \A s \in Symbols : age'[s] \in 1..OldestKept /\ age'[s] <= age[s] + 1
  BY OlderAges DEF IntervalEnds, FeedInv, TypeOK
<1>2. fetched' \in Klines /\ (fetched'.age = 0 => fetched'.symbol = {})
  BY DEF IntervalEnds, FeedInv, TypeOK, Klines, NoFetch
<1>3. TypeOK'
  <2>1. live' \in [Symbols -> Candles]
    BY DEF IntervalEnds, FeedInv, TypeOK, Candles, Opens
  <2>2. age' \in [Symbols -> 0..OldestKept]
    BY <1>1 DEF IntervalEnds
  <2>3. feedBeat' \in 0..Lapsed
    <3>1. feedBeat \in 0..Lapsed
      BY DEF FeedInv, TypeOK
    <3>2. feedBeat' = IF feedBeat = Lapsed THEN feedBeat ELSE feedBeat + 1
      BY DEF IntervalEnds, BeatAges
    <3> QED
      BY <3>1, <3>2 DEF Lapsed
  <2>4. lot' \in [Symbols -> Lots]
    BY DEF IntervalEnds, FeedInv, TypeOK
  <2> QED
    BY <1>2, <2>1, <2>2, <2>3, <2>4 DEF IntervalEnds, FeedInv, TypeOK, Lapsed
<1>4. FetchedIsItsOwn'
  <2>1. \A s \in Symbols : live'[s].low <= live'[s].close /\ live'[s].close <= live'[s].high
    BY DEF IntervalEnds, FeedInv, TypeOK, Candles, Opens
  <2> QED
    BY <1>2, <2>1 DEF FetchedIsItsOwn
<1>5. CandlesAreTheirOwn'
  BY <1>1 DEF CandlesAreTheirOwn
<1>6. FeedIsAsOldAsItsBeat'
  <2> SUFFICES ASSUME feedBeat' # Lapsed
               PROVE  \E s \in Symbols : age'[s] < Tolerance + feedBeat'
    BY DEF FeedIsAsOldAsItsBeat, Lapsed
  <2>1. feedBeat # Lapsed /\ feedBeat' = feedBeat + 1 /\ feedBeat \in Nat
    BY DEF IntervalEnds, BeatAges, Lapsed, FeedInv, TypeOK
  <2>2. PICK s \in Symbols : age[s] < Tolerance + feedBeat
    BY <2>1 DEF FeedInv, FeedIsAsOldAsItsBeat
  <2>3. age[s] \in Nat /\ age'[s] \in Nat
    BY <1>1 DEF FeedInv, TypeOK
  <2> QED
    BY <1>1, <2>1, <2>2, <2>3 DEF Tolerance
<1> QED
  BY <1>3, <1>4, <1>5, <1>6 DEF FeedInv

LEMMA FetchInv ==
    ASSUME FeedInv, NEW s \in Symbols, Fetches(s)
    PROVE  FeedInv'
<1>1. fetched' \in Klines
  BY DEF Fetches, FeedInv, TypeOK, Klines
<1>2. fetched'.symbol = {s} /\ fetched'.candle = live[s] /\ live' = live
  BY DEF Fetches
<1>3. live[s].low \in Int /\ live[s].high \in Int
  BY DEF FeedInv, TypeOK, Candles
<1>4. TypeOK'
  BY <1>1 DEF Fetches, FeedInv, TypeOK, rows, candles
<1>5. FetchedIsItsOwn'
  BY <1>2, <1>3 DEF FeedInv, FetchedIsItsOwn, Within
<1>6. CandlesAreTheirOwn' /\ FeedIsAsOldAsItsBeat'
  BY DEF Fetches, FeedInv, CandlesAreTheirOwn, FeedIsAsOldAsItsBeat, rows, candles
<1> QED
  BY <1>4, <1>5, <1>6 DEF FeedInv

\* A candle takes its own age with it: it stands for the one in progress only
\* if it was fetched from it, and no symbol's newest candle gets older.
LEMMA StoreInv == ASSUME FeedInv, Stores PROVE FeedInv'
<1>1. PICK s \in fetched.symbol : Inserted(s, fetched)
  BY DEF Stores
<1>2. s \in Symbols /\ fetched.age \in Nat /\ fetched.candle \in Candles
  BY DEF FeedInv, TypeOK, Klines
<1>3. \A t \in Symbols : age'[t] \in 0..OldestKept /\ age'[t] <= age[t]
  <2>1. age \in [Symbols -> 0..OldestKept] /\ OldestKept \in Nat
    BY DEF FeedInv, TypeOK, OldestKept, Tolerance
  <2>2. CASE fetched.age < age[s]
    BY <1>1, <1>2, <2>1, <2>2 DEF Inserted
  <2>3. CASE ~(fetched.age < age[s])
    BY <1>1, <2>1, <2>3 DEF Inserted, candles
  <2> QED
    BY <2>2, <2>3
<1>4. TypeOK'
  <2>1. stored' \in [Symbols -> Candles]
    BY <1>1, <1>2 DEF Inserted, FeedInv, TypeOK, candles
  <2>2. age' \in [Symbols -> 0..OldestKept]
    BY <1>1, <1>3 DEF Inserted, FeedInv, TypeOK, candles
  <2>3. NoFetch \in Klines
    BY DEF NoFetch, NoCandle, Klines, Candles
  <2>4. normal' \subseteq Traded
    BY <1>1 DEF Inserted, Rejudged, FeedInv, TypeOK, candles
  <2> QED
    BY <2>1, <2>2, <2>3, <2>4 DEF Stores, FeedInv, TypeOK, rows, candles
<1>5. FetchedIsItsOwn'
  BY DEF Stores, FeedInv, FetchedIsItsOwn, NoFetch
<1>6. CandlesAreTheirOwn'
  BY <1>1, <1>2 DEF Stores, Inserted, candles, FeedInv, TypeOK, CandlesAreTheirOwn,
                    FetchedIsItsOwn, Within
<1>7. FeedIsAsOldAsItsBeat'
  <2>1. feedBeat \in Int /\ \A t \in Symbols : age[t] \in Int
    BY DEF FeedInv, TypeOK, Lapsed
  <2> QED
    BY <1>3, <2>1 DEF Stores, FeedInv, FeedIsAsOldAsItsBeat, rows, Tolerance, Lapsed
<1> QED
  BY <1>4, <1>5, <1>6, <1>7 DEF FeedInv

LEMMA DownloadFailsInv == ASSUME FeedInv, DownloadFails PROVE FeedInv'
<1>1. NoFetch \in Klines
  BY DEF NoFetch, NoCandle, Klines, Candles
<1>2. TypeOK' /\ FetchedIsItsOwn'
  BY <1>1 DEF DownloadFails, FeedInv, TypeOK, FetchedIsItsOwn, NoFetch, rows, candles
<1>3. CandlesAreTheirOwn' /\ FeedIsAsOldAsItsBeat'
  BY DEF DownloadFails, FeedInv, CandlesAreTheirOwn, FeedIsAsOldAsItsBeat, rows, candles
<1> QED
  BY <1>2, <1>3 DEF FeedInv

LEMMA HeartbeatInv ==
    ASSUME FeedInv, NEW reachable \in BOOLEAN, Heartbeat(reachable)
    PROVE  FeedInv'
<1>1. TypeOK' /\ FetchedIsItsOwn' /\ CandlesAreTheirOwn'
  BY DEF Heartbeat, FeedInv, TypeOK, FetchedIsItsOwn, Within, CandlesAreTheirOwn, Lapsed,
         candles
<1>2. FeedIsAsOldAsItsBeat'
  <2>1. feedBeat' # Lapsed' => FeedStatus = "online" /\ feedBeat' = 0
    BY DEF Heartbeat, Lapsed
  <2>2. FeedStatus = "online" => \E s \in Symbols : age[s] < Tolerance
    BY DEF FeedStatus
  <2> QED
    BY <2>1, <2>2 DEF Heartbeat, FeedIsAsOldAsItsBeat, Tolerance, candles
<1> QED
  BY <1>1, <1>2 DEF FeedInv

LEMMA StepInv == FeedInv /\ [Next]_vars => FeedInv'
<1> SUFFICES ASSUME FeedInv, [Next]_vars PROVE FeedInv'
  OBVIOUS
<1>1. CASE \E s \in Symbols : \E p \in Prices[s] : MarketMoves(s, p)
  BY <1>1, MarketInv
<1>2. CASE \E s \in Symbols : Fetches(s)
  BY <1>2, FetchInv
<1>3. CASE \E s \in Symbols : HorizonPasses(s) \/ Enters(s) \/ Exits(s) \/ OrderFails(s)
  <2>1. /\ UNCHANGED <<live, candles, fetched>>
        /\ apiUp' \in BOOLEAN /\ feedBeat' = feedBeat
    BY <1>3 DEF HorizonPasses, Enters, Exits, OrderFails, Submitted, rows, FeedInv, TypeOK
  <2>2. lot' \in [Symbols -> Lots]
    <3>1. NoLot \in Lots
      BY DEF NoLot, Lots
    <3>2. lot \in [Symbols -> Lots] /\ live \in [Symbols -> Candles]
          /\ stored \in [Symbols -> Candles]
      BY DEF FeedInv, TypeOK
    <3>3. CASE \E s \in Symbols : HorizonPasses(s)
      BY <3>2, <3>3, MarksKeepLots DEF HorizonPasses
    <3>4. CASE \E s \in Symbols : Enters(s)
      <4>1. PICK s \in Symbols : Enters(s)
        BY <3>4
      <4>2. live[s].close \in Int /\ stored[s].close - 1 \in Int
        BY <3>2 DEF Candles
      <4>3. [NoLot EXCEPT !.price = live[s].close, !.stop = stored[s].close - 1] \in Lots
        BY <4>2 DEF NoLot, Lots
      <4> QED
        BY <3>2, <4>1, <4>3 DEF Enters
    <3>5. CASE \E s \in Symbols : Exits(s)
      BY <3>1, <3>2, <3>5 DEF Exits
    <3>6. CASE \E s \in Symbols : OrderFails(s)
      BY <3>2, <3>6 DEF OrderFails
    <3> QED
      BY <1>3, <3>3, <3>4, <3>5, <3>6
  <2> QED
    BY <2>1, <2>2, QuietInv
<1>4. CASE IntervalEnds
  BY <1>4, IntervalInv
<1>5. CASE BeatsLapse
  <2>1. /\ UNCHANGED <<live, candles, fetched>>
        /\ apiUp' \in BOOLEAN /\ feedBeat' \in {feedBeat, Lapsed}
        /\ lot' \in [Symbols -> Lots]
    BY <1>5 DEF BeatsLapse, ApiLapses, FeedLapses, FeedInv, TypeOK
  <2> QED
    BY <2>1, QuietInv
<1>6. CASE Stores
  BY <1>6, StoreInv
<1>7. CASE DownloadFails
  BY <1>7, DownloadFailsInv
<1>8. CASE \E reachable \in BOOLEAN : Heartbeat(reachable)
  BY <1>8, HeartbeatInv
<1>9. CASE UNCHANGED vars
  <2>1. /\ UNCHANGED <<live, candles, fetched>>
        /\ apiUp' \in BOOLEAN /\ feedBeat' = feedBeat
        /\ lot' \in [Symbols -> Lots]
    BY <1>9 DEF vars, rows, candles, FeedInv, TypeOK
  <2> QED
    BY <2>1, QuietInv
<1> QED
  BY <1>1, <1>2, <1>3, <1>4, <1>5, <1>6, <1>7, <1>8, <1>9 DEF Next

THEOREM FeedInvariant == Spec => []FeedInv
  BY InitFeed, StepInv, PTL DEF Spec

\* A stop or a target is never judged by extremes the market has not traded at,
\* however many downloads overlap the end of however many intervals.
THEOREM CandlesAlwaysTheirOwn == Spec => []CandlesAreTheirOwn
<1>1. FeedInv => CandlesAreTheirOwn
  BY DEF FeedInv
<1> QED
  BY <1>1, FeedInvariant, PTL

\* No order is ever placed on a feed older than the two limits together allow.
THEOREM OrdersAlwaysOnLiveFeed == Spec => OrdersOnLiveFeed
<1>1. ASSUME FeedInv, [Next]_vars
      PROVE  [Trades => \E s \in Symbols : age[s] < Tolerance + BeatSpan]_vars
  <2> SUFFICES ASSUME Next, Trades
               PROVE  \E s \in Symbols : age[s] < Tolerance + BeatSpan
    BY <1>1 DEF vars
  <2>1. PICK s \in Symbols : (lot[s] = NoLot) # (lot'[s] = NoLot)
    BY DEF Trades
  <2>2. Healthy
    <3>1. lot \in [Symbols -> Lots]
      BY <1>1 DEF FeedInv, TypeOK
    <3>2. ASSUME NEW t \in Symbols, NEW p \in Prices[t], MarketMoves(t, p)
          PROVE  FALSE
      BY <2>1, <3>1, <3>2, MarksKeepLots DEF MarketMoves
    <3>3. ~IntervalEnds
      BY <2>1 DEF IntervalEnds
    <3>4. ASSUME NEW t \in Symbols, HorizonPasses(t)
          PROVE  FALSE
      BY <2>1, <3>1, <3>4, MarksKeepLots DEF HorizonPasses
    <3>5. lot' # lot
      BY <2>1
    <3>6. \E t \in Symbols : Enters(t) \/ Exits(t)
      BY <3>2, <3>3, <3>4, <3>5 DEF Next, Fetches, OrderFails, BeatsLapse, Stores,
                                   DownloadFails, Heartbeat
    <3> QED
      BY <3>6 DEF Enters, Exits, Passes
  <2>3. PICK t \in Symbols : age[t] < Tolerance + feedBeat
    BY <1>1, <2>2 DEF Healthy, FeedInv, FeedIsAsOldAsItsBeat
  <2>4. feedBeat \in 0..BeatSpan /\ age[t] \in Int
    BY <1>1, <2>2 DEF Healthy, FeedInv, TypeOK, Lapsed
  <2> QED
    BY <2>3, <2>4 DEF Tolerance
<1> QED
  BY <1>1, FeedInvariant, PTL DEF Spec, OrdersOnLiveFeed
=============================================================================
