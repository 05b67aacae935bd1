---------------------------- MODULE TradingProofs ----------------------------
(***************************************************************************)
(* What evaluate may approve, for every proposal, account and set of limits,  *)
(* and what that makes of a trading day: the caps on entries and on exposure, *)
(* for every market, every set of symbols and of orders that rest, every      *)
(* limit and any number of days.                                             *)
(***************************************************************************)
EXTENDS TradingDay, FiniteSetTheorems, TLAPS

-----------------------------------------------------------------------------
(* evaluate *)

Proposal(p) == /\ p.quantity \in Nat /\ p.price \in Nat \ {0}
               /\ p.side \in {"buy", "sell"}
Account(ctx) == ctx.wallet \in Int /\ ctx.exposure \in Nat
Limits(caps) == /\ caps.max_position_pct \in Nat
                  /\ caps.max_exposure_pct \in Nat
                  /\ caps.min_notional \in Nat

\* Rounding down to lot steps never exceeds the amount it divides.
LEMMA RoundsDown ==
    ASSUME NEW a \in Int, NEW b \in Nat \ {0}
    PROVE  (a \div b) \in Int /\ b * (a \div b) <= a
OBVIOUS

LEMMA RoundsToNat ==
    ASSUME NEW a \in Nat, NEW b \in Nat \ {0}
    PROVE  (a \div b) \in Nat
OBVIOUS

\* A quantity of the proposal's symbol within an amount of room/100 USDT.
Fits(q, p, room) == 100 * (q * p.price) <= room

LEMMA FewerFit ==
    ASSUME NEW p, p.price \in Nat \ {0}, NEW room \in Int,
           NEW q \in Nat, NEW r \in Nat, r <= q, Fits(q, p, room)
    PROVE  Fits(r, p, room)
<1> DEFINE c == p.price
<1>1. r * c <= q * c
  <2>1. q - r \in Nat /\ c \in Nat
    OBVIOUS
  <2>2. (q - r) * c \in Nat
    BY <2>1
  <2>3. (q - r) * c = q * c - r * c
    BY <2>1
  <2> QED
    BY <2>1, <2>2, <2>3
<1>2. q * c \in Int /\ r * c \in Int
  OBVIOUS
<1> QED
  BY <1>1, <1>2 DEF Fits

\* A cap passes what fits, resizes to something smaller that fits, or rejects.
LEMMA CappedFits ==
    ASSUME NEW p, Proposal(p), NEW room \in Int, NEW minNotional \in Nat,
           NEW r, r = Capped(p, room, minNotional), r # Reject
    PROVE  \/ r = Pass /\ Fits(p.quantity, p, room)
           \/ /\ r.action = "resize" /\ r.quantity \in Nat
              /\ r.quantity <= p.quantity /\ Fits(r.quantity, p, room)
<1> DEFINE c == p.price
           q == room \div (100 * c)
<1>0. c \in Nat \ {0} /\ p.quantity \in Nat /\ 100 * c \in Nat \ {0}
  BY DEF Proposal
<1>1. CASE 100 * Notional(p) <= room
  BY <1>1 DEF Capped, Fits, Notional
<1>2. CASE ~(100 * Notional(p) <= room)
  <2>1. ~(room < 100 * minNotional) /\ r = Resize(q)
    BY <1>2 DEF Capped
  <2>2. room \in Nat
    BY <2>1
  <2>3. q \in Nat
    BY <1>0, <2>2, RoundsToNat
  <2>4. (100 * c) * q <= room
    BY <1>0, RoundsDown
  <2> HIDE DEF q
  <2>5. Fits(q, p, room)
    BY <1>0, <2>3, <2>4 DEF Fits
  <2>6. q <= p.quantity
    <3>1. CASE p.quantity < q
      <4>1. Fits(p.quantity, p, room)
        BY <1>0, <2>3, <2>5, <3>1, FewerFit
      <4> QED
        BY <1>2, <4>1 DEF Fits, Notional
    <3> QED
      BY <1>0, <2>3, <3>1
  <2> QED
    BY <2>1, <2>3, <2>5, <2>6 DEF Resize
<1> QED
  BY <1>1, <1>2

LEMMA MinOfTwo ==
    ASSUME NEW S, NEW a \in Nat, NEW b \in Nat, S \subseteq {a, b}, S # {}
    PROVE  Min(S) \in S /\ \A x \in S : Min(S) <= x
<1>1. \E x \in S : \A y \in S : x <= y
  <2>1. CASE a \in S /\ (b \notin S \/ a <= b)
    <3>1. \A y \in S : a <= y
      BY <2>1
    <3> QED
      BY <2>1, <3>1
  <2>2. CASE b \in S /\ (a \notin S \/ b <= a)
    <3>1. \A y \in S : b <= y
      BY <2>2
    <3> QED
      BY <2>2, <3>1
  <2>3. a \in S \/ b \in S
    BY Zenon
  <2>4. a <= b \/ b <= a
    OBVIOUS
  <2> QED
    BY <2>1, <2>2, <2>3, <2>4
<1> QED
  BY <1>1 DEF Min

\* Whatever is approved of a purchase is at most what was proposed, and within
\* both caps on the account it was assessed against: max_position_pct for the
\* order, max_total_exposure_pct for it and everything already held.
THEOREM ApprovedWithinCaps ==
    ASSUME NEW p, NEW ctx, NEW caps, NEW verdict,
           Proposal(p), Account(ctx), Limits(caps), p.side = "buy",
           verdict = Evaluate(p, ctx, caps), Approves(verdict)
    PROVE  /\ verdict.quantity \in Nat /\ verdict.quantity <= p.quantity
           /\ Fits(verdict.quantity, p, ctx.wallet * caps.max_position_pct)
           /\ Fits(verdict.quantity, p,
                   ctx.wallet * caps.max_exposure_pct - 100 * ctx.exposure)
<1> DEFINE results == Results(p, ctx, caps)
           a == PositionSize(p, ctx, caps)
           b == Exposure(p, ctx, caps)
           q == verdict.quantity
           aRoom == ctx.wallet * caps.max_position_pct
           bRoom == ctx.wallet * caps.max_exposure_pct - 100 * ctx.exposure
           Obeys(r, room) == \/ r = Pass /\ Fits(p.quantity, p, room)
                             \/ /\ r.action = "resize" /\ r.quantity \in Nat
                                /\ r.quantity <= p.quantity
                                /\ Fits(r.quantity, p, room)
<1>1. Reject \notin results
  BY DEF Evaluate, Combined, Approves
<1>2. a \in results /\ b \in results
  BY DEF Results
<1>3. p.quantity \in Nat /\ p.price \in Nat \ {0}
  BY DEF Proposal
<1>4. aRoom \in Int /\ bRoom \in Int /\ caps.min_notional \in Nat
  BY DEF Account, Limits
<1>5. Obeys(a, aRoom)
  <2>1. a = Capped(p, aRoom, caps.min_notional)
    BY <1>1, <1>2 DEF PositionSize, IncreasesRisk
  <2> HIDE DEF a, aRoom
  <2> QED
    BY <1>1, <1>2, <1>4, <2>1, CappedFits
<1>6. Obeys(b, bRoom)
  <2>1. b = Capped(p, bRoom, caps.min_notional)
    BY <1>1, <1>2 DEF Exposure, IncreasesRisk
  <2> HIDE DEF b, bRoom
  <2> QED
    BY <1>1, <1>2, <1>4, <2>1, CappedFits
<1>7. \A r \in results : r.action = "resize" => r = a \/ r = b
  BY DEF Results, Health, Volatility, Confidence, DailyLoss, Frequency, Pass, Reject
<1>8. verdict = IF Suggested(results) # {}
                THEN [decision |-> "resized", quantity |-> Min(Suggested(results))]
                ELSE [decision |-> "approved", quantity |-> p.quantity]
  BY <1>1 DEF Evaluate, Combined
<1> HIDE DEF a, b, results, aRoom, bRoom
<1>9. /\ q \in Nat /\ q <= p.quantity
      /\ a.action = "resize" => q <= a.quantity
      /\ b.action = "resize" => q <= b.quantity
  <2>1. a.action = "resize" => a.quantity \in Suggested(results)
    BY <1>2 DEF Suggested
  <2>2. b.action = "resize" => b.quantity \in Suggested(results)
    BY <1>2 DEF Suggested
  <2>3. CASE Suggested(results) = {}
    BY <1>3, <1>8, <2>1, <2>2, <2>3
  <2>4. CASE Suggested(results) # {}
    <3>1. q = Min(Suggested(results))
      BY <1>8, <2>4
    <3>2. PICK x \in Nat, y \in Nat :
             /\ Suggested(results) \subseteq {x, y}
             /\ x <= p.quantity /\ y <= p.quantity
      <4>1. CASE a.action = "resize" /\ b.action = "resize"
        <5>1. Suggested(results) \subseteq {a.quantity, b.quantity}
          BY <1>7 DEF Suggested
        <5> QED
          BY <1>5, <1>6, <4>1, <5>1 DEF Pass
      <4>2. CASE a.action = "resize" /\ b.action # "resize"
        <5>1. Suggested(results) \subseteq {a.quantity, a.quantity}
          BY <1>7, <4>2 DEF Suggested
        <5> QED
          BY <1>5, <4>2, <5>1 DEF Pass
      <4>3. CASE a.action # "resize"
        <5>1. Suggested(results) \subseteq {b.quantity, b.quantity}
          BY <1>7, <4>3 DEF Suggested
        <5>2. b.action = "resize"
          BY <1>7, <2>4, <4>3 DEF Suggested
        <5> QED
          BY <1>6, <5>1, <5>2 DEF Pass
      <4> QED
        BY <4>1, <4>2, <4>3
    <3>3. q \in Suggested(results) /\ \A x2 \in Suggested(results) : q <= x2
      BY <2>4, <3>1, <3>2, MinOfTwo
    <3> QED
      BY <2>1, <2>2, <3>2, <3>3
  <2> QED
    BY <2>3, <2>4
<1> HIDE DEF q
<1>10. Fits(q, p, aRoom)
  BY <1>3, <1>4, <1>5, <1>9, FewerFit
<1>11. Fits(q, p, bRoom)
  BY <1>3, <1>4, <1>6, <1>9, FewerFit
<1> QED
  BY <1>9, <1>10, <1>11 DEF q, aRoom, bRoom

\* An exit is never resized, and with healthy components and normal candles it
\* is never refused: no cap, loss or count can trap a position.
THEOREM ExitsAreNeverCapped ==
    ASSUME NEW p, NEW ctx, NEW caps, p.side = "sell", p.scored = FALSE
    PROVE  /\ Evaluate(p, ctx, caps).decision # "resized"
           /\ Healthy(ctx, caps) /\ ctx.volatility = "normal"
                => Evaluate(p, ctx, caps) =
                     [decision |-> "approved", quantity |-> p.quantity]
<1> DEFINE results == Results(p, ctx, caps)
<1>1. results \subseteq {Pass, Reject}
  BY DEF Results, Health, Volatility, Confidence, DailyLoss, PositionSize,
         Exposure, Frequency, IncreasesRisk
<1>2. Healthy(ctx, caps) /\ ctx.volatility = "normal" => results = {Pass}
  BY DEF Results, Health, Volatility, Confidence, DailyLoss, PositionSize,
         Exposure, Frequency, IncreasesRisk
<1> HIDE DEF results
<1>3. Suggested(results) = {}
  BY <1>1 DEF Suggested, Pass, Reject
<1>4. Pass # Reject
  BY DEF Pass, Reject
<1> QED
  BY <1>2, <1>3, <1>4 DEF Evaluate, Combined, results

-----------------------------------------------------------------------------
(* Sums over a finite set *)

\* Induction over the subsets of a finite set, with the claim as a set of them:
\* a smallest subset outside it would have every smaller one inside.
LEMMA SubsetInduction ==
    ASSUME NEW S, IsFiniteSet(S), NEW Claim,
           ASSUME NEW T \in SUBSET S, \A U \in SUBSET T : U # T => U \in Claim
           PROVE  T \in Claim
    PROVE  \A T \in SUBSET S : T \in Claim
<1> DEFINE R == StrictSubsetOrdering(S)
           Bad == {T \in SUBSET S : T \notin Claim}
<1>1. IsWellFoundedOn(R, SUBSET S)
  BY FS_StrictSubsetOrderingWellFounded, FS_FiniteSubsetsOfFinite
<1>2. Bad \subseteq SUBSET S
  OBVIOUS
<1> SUFFICES ASSUME Bad # {} PROVE FALSE
  OBVIOUS
<1>3. PICK T \in Bad : \A U \in Bad : <<U, T>> \notin R
  <2> HIDE DEF Bad, R
  <2> QED
    BY <1>1, <1>2, WFMin
<1>4. \A U \in SUBSET T : U # T => U \in Claim
  <2> SUFFICES ASSUME NEW U \in SUBSET T, U # T PROVE U \in Claim
    OBVIOUS
  <2>1. U \in SUBSET S /\ T \in SUBSET S /\ <<U, T>> \in R
    BY DEF StrictSubsetOrdering
  <2> QED
    BY <1>3, <2>1
<1> QED
  BY <1>3, <1>4

\* A summing function over the subsets of S, as the community modules define it
Any(s) == CHOOSE x \in s : TRUE
Sums(f, S, sum) ==
    sum = [s \in SUBSET S |-> IF s = {} THEN 0 ELSE f[Any(s)] + sum[s \ {Any(s)}]]

LEMMA SumOf == \A f, S : SumFunctionOnSet(f, S) = (CHOOSE sum : Sums(f, S, sum))[S]
BY DEF SumFunctionOnSet, FoldFunctionOnSet, MapThenFoldSet, Sums, Any

LEMMA AnyIsIn == \A s : s # {} => Any(s) \in s
BY DEF Any

LEMMA SumsAgree ==
    ASSUME NEW f, NEW S, IsFiniteSet(S), NEW U \in SUBSET S, NEW V \in SUBSET S,
           NEW g, NEW h, Sums(f, U, g), Sums(f, V, h)
    PROVE  \A s \in SUBSET (U \cap V) : g[s] = h[s]
<1> DEFINE Claim == {s \in SUBSET S : s \subseteq U \cap V => g[s] = h[s]}
<1>1. ASSUME NEW T \in SUBSET S, \A W \in SUBSET T : W # T => W \in Claim
      PROVE  T \in Claim
  <2> SUFFICES ASSUME T \subseteq U \cap V PROVE g[T] = h[T]
    OBVIOUS
  <2>1. /\ g[T] = IF T = {} THEN 0 ELSE f[Any(T)] + g[T \ {Any(T)}]
        /\ h[T] = IF T = {} THEN 0 ELSE f[Any(T)] + h[T \ {Any(T)}]
    BY DEF Sums
  <2>2. CASE T = {}
    BY <2>1, <2>2
  <2>3. CASE T # {}
    <3>1. T \ {Any(T)} \in SUBSET T /\ T \ {Any(T)} # T
      BY <2>3, AnyIsIn
    <3>2. T \ {Any(T)} \in Claim
      BY <1>1, <3>1
    <3> QED
      BY <2>1, <2>3, <3>1, <3>2
  <2> QED
    BY <2>2, <2>3
<1> HIDE DEF Claim
<1>2. \A T \in SUBSET S : T \in Claim
  BY <1>1, SubsetInduction
<1> QED
  BY <1>2 DEF Claim

LEMMA SumsExist ==
    ASSUME NEW f, NEW S, IsFiniteSet(S)
    PROVE  \A T \in SUBSET S : \E g : Sums(f, T, g)
<1> DEFINE Claim == {T \in SUBSET S : \E g : Sums(f, T, g)}
<1>1. ASSUME NEW T \in SUBSET S, \A W \in SUBSET T : W # T => W \in Claim
      PROVE  T \in Claim
  <2> DEFINE below == [s \in SUBSET T |-> CHOOSE g : Sums(f, s, g)]
             top == IF T = {} THEN 0 ELSE f[Any(T)] + below[T \ {Any(T)}][T \ {Any(T)}]
             sum == [s \in SUBSET T |-> IF s = T THEN top ELSE below[s][s]]
  <2>1. \A s \in SUBSET T : s # T => Sums(f, s, below[s])
    <3> SUFFICES ASSUME NEW s \in SUBSET T, s # T PROVE Sums(f, s, below[s])
      OBVIOUS
    <3>1. \E g : Sums(f, s, g)
      BY <1>1
    <3>2. Sums(f, s, CHOOSE g : Sums(f, s, g))
      BY <3>1
    <3> QED
      BY <3>2
  <2> HIDE DEF below
  <2>2. ASSUME NEW s \in SUBSET T
        PROVE  sum[s] = IF s = {} THEN 0 ELSE f[Any(s)] + sum[s \ {Any(s)}]
    <3>1. s # {} => s \ {Any(s)} \in SUBSET T /\ s \ {Any(s)} # s /\ s \ {Any(s)} # T
      BY AnyIsIn
    <3>2. CASE s = T
      BY <3>1, <3>2
    <3>3. CASE s # T
      <4>1. Sums(f, s, below[s])
        BY <2>1, <3>3
      <4>2. below[s][s] = IF s = {} THEN 0 ELSE f[Any(s)] + below[s][s \ {Any(s)}]
        BY <4>1 DEF Sums
      <4>3. CASE s = {}
        BY <3>3, <4>2, <4>3
      <4>4. CASE s # {}
        <5> DEFINE r == s \ {Any(s)}
        <5>1. Sums(f, r, below[r])
          BY <2>1, <3>1, <4>4
        <5>2. below[s][r] = below[r][r]
          <6>1. s \in SUBSET S /\ r \in SUBSET S /\ r \in SUBSET (s \cap r)
            OBVIOUS
          <6> HIDE DEF r
          <6>2. ASSUME NEW g, NEW h, Sums(f, s, g), Sums(f, r, h) PROVE g[r] = h[r]
            BY <6>1, <6>2, SumsAgree
          <6> QED
            BY <4>1, <5>1, <6>2
        <5> QED
          BY <3>1, <3>3, <4>2, <4>4, <5>2
      <4> QED
        BY <4>3, <4>4
    <3> QED
      BY <3>2, <3>3
  <2>3. Sums(f, T, sum)
    <3> DEFINE F(s) == IF s = {} THEN 0 ELSE f[Any(s)] + sum[s \ {Any(s)}]
    <3>1. sum = [s \in SUBSET T |-> sum[s]]
      OBVIOUS
    <3>2. \A s \in SUBSET T : sum[s] = F(s)
      BY <2>2
    <3> HIDE DEF sum, F
    <3>3. sum = [s \in SUBSET T |-> F(s)]
      BY <3>1, <3>2
    <3> QED
      BY <3>3 DEF Sums, F
  <2> QED
    BY <2>3
<1> HIDE DEF Claim
<1>2. \A T \in SUBSET S : T \in Claim
  BY <1>1, SubsetInduction
<1> QED
  BY <1>2 DEF Claim

\* What a sum is: nothing over nothing, else one element and the sum of the rest.
LEMMA SumUnfolds ==
    ASSUME NEW f, NEW S, IsFiniteSet(S)
    PROVE  SumFunctionOnSet(f, S) =
             IF S = {} THEN 0
                       ELSE f[Any(S)] + SumFunctionOnSet(f, S \ {Any(S)})
<1> DEFINE r == S \ {Any(S)}
           g == CHOOSE sum : Sums(f, S, sum)
           h == CHOOSE sum : Sums(f, r, sum)
<1>1. Sums(f, S, g) /\ Sums(f, r, h)
  <2>1. S \in SUBSET S /\ r \in SUBSET S
    OBVIOUS
  <2>2. (\E sum : Sums(f, S, sum)) /\ (\E sum : Sums(f, r, sum))
    <3> HIDE DEF r
    <3> QED
      BY <2>1, SumsExist
  <2> QED
    BY <2>2
<1>2. SumFunctionOnSet(f, S) = g[S] /\ SumFunctionOnSet(f, r) = h[r]
  BY SumOf
<1>3. g[S] = IF S = {} THEN 0 ELSE f[Any(S)] + g[r]
  <2> HIDE DEF g, h
  <2> QED
    BY <1>1 DEF Sums
<1>4. g[r] = h[r]
  <2>1. S \in SUBSET S /\ r \in SUBSET S /\ r \in SUBSET (S \cap r)
    OBVIOUS
  <2> HIDE DEF g, h, r
  <2> QED
    BY <1>1, <2>1, SumsAgree
<1> HIDE DEF g, h
<1> QED
  BY <1>2, <1>3, <1>4

\* What follows by induction: a sum of naturals is one, a sum of zeros is zero,
\* and a change of one value changes the sum by as much.
LEMMA SumIsNat ==
    ASSUME NEW f, NEW S, IsFiniteSet(S), \A x \in S : f[x] \in Nat
    PROVE  SumFunctionOnSet(f, S) \in Nat
<1> DEFINE Claim == {T \in SUBSET S : SumFunctionOnSet(f, T) \in Nat}
<1>1. ASSUME NEW T \in SUBSET S, \A U \in SUBSET T : U # T => U \in Claim
      PROVE  T \in Claim
  <2>1. IsFiniteSet(T)
    BY FS_Subset
  <2>2. T # {} => /\ Any(T) \in T /\ T \ {Any(T)} \in SUBSET T
                  /\ T \ {Any(T)} # T
    BY AnyIsIn
  <2>3. T # {} => SumFunctionOnSet(f, T \ {Any(T)}) \in Nat /\ f[Any(T)] \in Nat
    BY <1>1, <2>2
  <2> QED
    BY <2>1, <2>3, SumUnfolds
<1> HIDE DEF Claim
<1>2. \A T \in SUBSET S : T \in Claim
  BY <1>1, SubsetInduction
<1> QED
  BY <1>2 DEF Claim

LEMMA SumOfZeros ==
    ASSUME NEW f, NEW S, IsFiniteSet(S), \A x \in S : f[x] = 0
    PROVE  SumFunctionOnSet(f, S) = 0
<1> DEFINE Claim == {T \in SUBSET S : SumFunctionOnSet(f, T) = 0}
<1>1. ASSUME NEW T \in SUBSET S, \A U \in SUBSET T : U # T => U \in Claim
      PROVE  T \in Claim
  <2>1. IsFiniteSet(T)
    BY FS_Subset
  <2>2. T # {} => /\ Any(T) \in T /\ T \ {Any(T)} \in SUBSET T
                  /\ T \ {Any(T)} # T
    BY AnyIsIn
  <2>3. T # {} => SumFunctionOnSet(f, T \ {Any(T)}) = 0 /\ f[Any(T)] = 0
    BY <1>1, <2>2
  <2> QED
    BY <2>1, <2>3, SumUnfolds
<1> HIDE DEF Claim
<1>2. \A T \in SUBSET S : T \in Claim
  BY <1>1, SubsetInduction
<1> QED
  BY <1>2 DEF Claim

LEMMA SumChanges ==
    ASSUME NEW S, IsFiniteSet(S), NEW f, NEW g, NEW a,
           \A x \in S : f[x] \in Nat /\ g[x] \in Nat,
           \A x \in S : x # a => f[x] = g[x]
    PROVE  SumFunctionOnSet(g, S) =
             SumFunctionOnSet(f, S) + (IF a \in S THEN g[a] - f[a] ELSE 0)
<1> DEFINE Claim == {T \in SUBSET S :
                       SumFunctionOnSet(g, T) =
                         SumFunctionOnSet(f, T) + (IF a \in T THEN g[a] - f[a] ELSE 0)}
<1>1. ASSUME NEW T \in SUBSET S, \A U \in SUBSET T : U # T => U \in Claim
      PROVE  T \in Claim
  <2>1. IsFiniteSet(T)
    BY FS_Subset
  <2>2. CASE T = {}
    <3>1. SumFunctionOnSet(f, T) = 0 /\ SumFunctionOnSet(g, T) = 0
      BY <2>1, <2>2, SumUnfolds
    <3> QED
      BY <2>2, <3>1
  <2>3. CASE T # {}
    <3> DEFINE x == Any(T)
               U == T \ {x}
               F == SumFunctionOnSet(f, U)
               G == SumFunctionOnSet(g, U)
    <3>1. x \in T /\ U \in SUBSET T /\ U # T
      BY <2>3, AnyIsIn
    <3>2. /\ SumFunctionOnSet(f, T) = f[x] + F
          /\ SumFunctionOnSet(g, T) = g[x] + G
      BY <2>1, <2>3, SumUnfolds
    <3>3. F \in Nat /\ G \in Nat
      <4>1. IsFiniteSet(U)
        BY <2>1, <3>1, FS_Subset
      <4>2. \A y \in U : f[y] \in Nat /\ g[y] \in Nat
        BY <3>1
      <4> HIDE DEF U
      <4> QED
        BY <4>1, <4>2, SumIsNat
    <3>4. G = F + (IF a \in U THEN g[a] - f[a] ELSE 0)
      BY <1>1, <3>1
    <3>5. f[x] \in Nat /\ g[x] \in Nat /\ (x # a => f[x] = g[x])
      BY <3>1
    <3>6. a \in T => f[a] \in Nat /\ g[a] \in Nat
      OBVIOUS
    <3> HIDE DEF F, G
    <3>7. SumFunctionOnSet(g, T) =
            SumFunctionOnSet(f, T) + (IF a \in T THEN g[a] - f[a] ELSE 0)
      <4>1. CASE x = a
        BY <3>1, <3>2, <3>3, <3>4, <3>5, <4>1
      <4>2. CASE x # a
        <5>1. a \in U <=> a \in T
          BY <4>2
        <5> HIDE DEF x, U
        <5> QED
          BY <3>2, <3>3, <3>4, <3>5, <3>6, <4>2, <5>1
      <4> QED
        BY <4>1, <4>2
    <3> QED
      BY <3>7
  <2> QED
    BY <2>2, <2>3
<1> HIDE DEF Claim
<1>2. \A T \in SUBSET S : T \in Claim
  BY <1>1, SubsetInduction
<1> QED
  BY <1>2 DEF Claim

-----------------------------------------------------------------------------
(* The frequency cap *)

USE DayAssumption DEF DayAssumption

\* What may execute in a day beside what the cap was asked of
Slack == IF "resting" \in market.faults THEN Cardinality(Orders) ELSE 0

\* EntriesStayCapped is not inductive: an order that was answered executes
\* without anything asking the cap again, so it takes its place when it is sent;
\* and an approved one has a place reserved, which nothing can take before it is
\* sent, since one entry is under way at a time.
DayInv ==
    /\ trades_today \in Nat /\ entries \in Nat /\ entries <= trades_today
    /\ DOMAIN resting = Orders
    /\ \A o \in Orders : /\ "uncounted" \in DOMAIN resting[o]
                         /\ resting[o].uncounted \in {0, 1}
    /\ "resting" \notin market.faults => \A o \in Orders : resting[o] = NoRest
    /\ Sent <= MaxTrades + Slack
    /\ entry.pc = "approved" => Sent < MaxTrades + Slack

-----------------------------------------------------------------------------
LEMMA CountsOfOrders ==
    /\ Cardinality(Orders) \in Nat
    /\ IsFiniteSet(Uncounted) /\ Cardinality(Uncounted) \in Nat
    /\ Cardinality(Uncounted) <= Cardinality(Orders)
<1>1. Uncounted \subseteq Orders
  BY DEF Uncounted
<1> QED
  BY <1>1, FS_Subset, FS_CardinalityType

LEMMA CountsOfOrdersNext ==
    (/\ Cardinality(Orders) \in Nat
     /\ IsFiniteSet(Uncounted) /\ Cardinality(Uncounted) \in Nat
     /\ Cardinality(Uncounted) <= Cardinality(Orders))'
  BY CountsOfOrders, PTL

LEMMA SlackIsNat == Slack \in Nat
  BY CountsOfOrders DEF Slack

LEMMA InitDay == Init => DayInv
<1> SUFFICES ASSUME Init PROVE DayInv
  OBVIOUS
<1>1. resting = [o \in Orders |-> NoRest] /\ entries = 0 /\ trades_today = 0
  BY DEF Init
<1>2. entry.pc = "none"
  BY DEF Init, NoEntry
<1>3. Uncounted = {}
  BY <1>1 DEF Uncounted, NoRest
<1>4. Sent = 0
  BY <1>1, <1>3, FS_EmptySet DEF Sent
<1> QED
  BY <1>1, <1>2, <1>4, SlackIsNat DEF DayInv, NoRest

\* Orders at rest, counters and the market as they were, and no approval new.
LEMMA DayStands ==
    ASSUME DayInv, UNCHANGED <<resting, entries, market>>,
           trades_today' \in Nat, trades_today' >= trades_today,
           entry'.pc = "approved" => entry.pc = "approved"
    PROVE  DayInv'
<1>1. Sent' = Sent /\ Slack' = Slack
  BY DEF Sent, Slack, Uncounted
<1> QED
  BY <1>1 DEF DayInv

\* The frequency rule lets an entry pass only below the cap of the day.
LEMMA ApprovedBelowCap ==
    ASSUME NEW p, NEW ctx, p.side = "buy", ctx.trades_today = trades_today,
           trades_today \in Nat, Approves(Evaluate(p, ctx, limits))
    PROVE  trades_today < MaxTrades
<1>1. Reject \notin Results(p, ctx, limits)
  BY DEF Approves, Evaluate, Combined
<1>2. Frequency(p, ctx, limits) # Reject
  BY <1>1 DEF Results
<1>3. limits.max_trades = MaxTrades
  BY DEF limits
<1> QED
  BY <1>2, <1>3 DEF Frequency, IncreasesRisk

\* What an approval rests on: every rule passed the order that is to be sent.
LEMMA ApprovalWasEvaluated ==
    ASSUME Assess, entry' # NoEntry
    PROVE  \E priced \in Readable : \E p, ctx :
             /\ p.side = "buy" /\ p.quantity = entry.quantity /\ p.price = entry.price
             /\ ctx.wallet = cash + Worth(held, priced)
             /\ ctx.exposure = Worth(held, priced)
             /\ ctx.pnl = Pnl /\ ctx.trades_today = trades_today
             /\ Approves(Evaluate(p, ctx, limits))
             /\ entry' = [entry EXCEPT !.pc = "approved",
                                       !.quantity = Evaluate(p, ctx, limits).quantity]
<1>1. PICK priced \in Readable, volatility \in {"normal", "abnormal"},
           age \in {0, 2}, confidence \in {0, 1} :
        LET p == [side |-> "buy", quantity |-> entry.quantity,
                  price |-> entry.price, scored |-> TRUE,
                  confidence |-> confidence]
            ctx == [wallet |-> cash + Worth(held, priced), exposure |-> Worth(held, priced),
                    pnl |-> Pnl, volatility |-> volatility,
                    components |-> [name \in {"binance_api"} |->
                                      [status |-> "online", age |-> age]],
                    trades_today |-> trades_today]
            verdict == Evaluate(p, ctx, limits)
        IN  entry' = IF Approves(verdict) /\ verdict.quantity > 0
                     THEN [entry EXCEPT !.pc = "approved",
                                        !.quantity = verdict.quantity]
                     ELSE NoEntry
  BY Zenon DEF Assess
<1> DEFINE p == [side |-> "buy", quantity |-> entry.quantity,
                 price |-> entry.price, scored |-> TRUE,
                 confidence |-> confidence]
           ctx == [wallet |-> cash + Worth(held, priced), exposure |-> Worth(held, priced),
                   pnl |-> Pnl, volatility |-> volatility,
                   components |-> [name \in {"binance_api"} |->
                                     [status |-> "online", age |-> age]],
                   trades_today |-> trades_today]
<1>2. /\ Approves(Evaluate(p, ctx, limits))
      /\ entry' = [entry EXCEPT !.pc = "approved",
                                !.quantity = Evaluate(p, ctx, limits).quantity]
  BY <1>1, Zenon
<1>3. /\ p.side = "buy" /\ p.quantity = entry.quantity /\ p.price = entry.price
      /\ ctx.wallet = cash + Worth(held, priced)
      /\ ctx.exposure = Worth(held, priced)
      /\ ctx.pnl = Pnl /\ ctx.trades_today = trades_today
  OBVIOUS
<1> HIDE DEF p, ctx
<1> QED
  BY <1>2, <1>3, Zenon

LEMMA AssessInv == ASSUME DayInv, Assess PROVE DayInv'
<1>1. UNCHANGED <<resting, entries, trades_today, market>>
  BY DEF Assess, counters
<1>2. CASE entry' = NoEntry
  BY <1>1, <1>2, DayStands DEF NoEntry, DayInv
<1>3. CASE trades_today < MaxTrades
  <2>1. Sent' = Sent /\ Slack' = Slack
    BY <1>1 DEF Sent, Slack, Uncounted
  <2>2. Cardinality(Uncounted) <= Slack
    <3>1. CASE "resting" \in market.faults
      BY <3>1, CountsOfOrders DEF Slack
    <3>2. CASE "resting" \notin market.faults
      <4>1. Uncounted = {}
        BY <3>2 DEF Uncounted, DayInv, NoRest
      <4> QED
        BY <3>2, <4>1, FS_EmptySet DEF Slack
    <3> QED
      BY <3>1, <3>2
  <2>3. Sent < MaxTrades + Slack
    BY <1>3, <2>2, SlackIsNat, CountsOfOrders DEF DayInv, Sent
  <2> QED
    BY <1>1, <2>1, <2>3 DEF DayInv
<1>4. entry' # NoEntry => trades_today < MaxTrades
  <2> SUFFICES ASSUME entry' # NoEntry PROVE trades_today < MaxTrades
    OBVIOUS
  <2>1. PICK p, ctx : /\ p.side = "buy" /\ ctx.trades_today = trades_today
                      /\ Approves(Evaluate(p, ctx, limits))
    BY ApprovalWasEvaluated
  <2> QED
    BY <2>1, ApprovedBelowCap DEF DayInv
<1> QED
  BY <1>2, <1>3, <1>4

\* What a sent order executes at once is counted; what it leaves takes a place.
LEMMA SendCounts ==
    ASSUME DayInv, Send
    PROVE  /\ Sent \in Nat /\ Sent' \in Nat /\ Sent' <= Sent + 1
           /\ trades_today' \in Nat /\ entries' \in Nat /\ entries' <= trades_today'
           /\ DOMAIN resting' = Orders
           /\ \A o \in Orders : /\ "uncounted" \in DOMAIN resting'[o]
                                /\ resting'[o].uncounted \in {0, 1}
           /\ "resting" \notin market.faults => resting' = resting
<1> DEFINE Counts == Sent' \in Nat /\ Sent' <= Sent + 1
           Rows   == trades_today' \in Nat /\ entries' \in Nat /\ entries' <= trades_today'
           Rests  == /\ DOMAIN resting' = Orders
                     /\ \A o \in Orders : /\ "uncounted" \in DOMAIN resting'[o]
                                          /\ resting'[o].uncounted \in {0, 1}
                     /\ "resting" \notin market.faults => resting' = resting
<1>1. Sent \in Nat
  BY CountsOfOrders DEF DayInv, Sent
<1>2. CASE UNCHANGED <<resting, counters>>
  <2>1. Sent' = Sent
    BY <1>2 DEF counters, Sent, Uncounted
  <2> QED
    BY <1>1, <1>2, <2>1 DEF counters, DayInv
<1>3. ASSUME NEW k, NEW q,
             trades_today' = trades_today + Counted(k, q),
             entries' = entries + (IF k > 0 THEN 1 ELSE 0),
             k = q => resting' = resting,
             k # q => /\ "resting" \in market.faults
                      /\ \E o \in Orders : \E s, r, c :
                            /\ resting[o] = NoRest
                            /\ resting' = [resting EXCEPT ![o] =
                                 [symbol |-> s, quantity |-> r, price |-> c,
                                  uncounted |-> IF k > 0 THEN 0 ELSE 1]]
      PROVE  Counts /\ Rows /\ Rests
  <2>1. /\ trades_today' \in Nat /\ entries' \in Nat /\ entries' <= trades_today'
        /\ entries' = IF k > 0 THEN entries + 1 ELSE entries
    BY <1>3 DEF Counted, DayInv
  <2>2. CASE k = q
    <3>1. Uncounted' = Uncounted /\ resting' = resting
      BY <1>3, <2>2 DEF Uncounted
    <3>2. Counts
      BY <2>1, <3>1, CountsOfOrders DEF Sent, DayInv
    <3>3. Rests
      BY <3>1 DEF DayInv
    <3> QED
      BY <2>1, <3>2, <3>3
  <2>3. CASE k # q
    <3>0. PICK o \in Orders : \E s, r, c :
             /\ resting[o] = NoRest
             /\ resting' = [resting EXCEPT ![o] =
                  [symbol |-> s, quantity |-> r, price |-> c,
                   uncounted |-> IF k > 0 THEN 0 ELSE 1]]
      BY <1>3, <2>3
    <3>1. PICK s, r, c :
             /\ resting[o] = NoRest
             /\ resting' = [resting EXCEPT ![o] =
                  [symbol |-> s, quantity |-> r, price |-> c,
                   uncounted |-> IF k > 0 THEN 0 ELSE 1]]
      BY <3>0
    <3>2. /\ DOMAIN resting' = Orders
          /\ resting'[o].uncounted = IF k > 0 THEN 0 ELSE 1
          /\ "uncounted" \in DOMAIN resting'[o]
          /\ \A x \in Orders \ {o} : resting'[x] = resting[x]
      BY <3>1 DEF DayInv
    <3>3. o \notin Uncounted
      BY <3>1 DEF Uncounted, NoRest
    <3>4. Uncounted' = IF k > 0 THEN Uncounted ELSE Uncounted \cup {o}
      BY <3>2, <3>3 DEF Uncounted
    <3>5. Cardinality(Uncounted') = Cardinality(Uncounted) + (IF k > 0 THEN 0 ELSE 1)
      <4>1. Cardinality(Uncounted \cup {o}) = Cardinality(Uncounted) + 1
        BY <3>3, CountsOfOrders, FS_AddElement
      <4>2. Cardinality(Uncounted) \in Nat
        BY CountsOfOrders
      <4>3. CASE k > 0
        <5>1. Uncounted' = Uncounted
          BY <3>4, <4>3
        <5>2. Cardinality(Uncounted') = Cardinality(Uncounted)
          BY <5>1
        <5> QED
          BY <4>2, <4>3, <5>2
      <4>4. CASE ~(k > 0)
        <5>1. Uncounted' = Uncounted \cup {o}
          BY <3>4, <4>4
        <5>2. Cardinality(Uncounted') = Cardinality(Uncounted \cup {o})
          BY <5>1
        <5> QED
          BY <4>1, <4>4, <5>2
      <4> QED
        BY <4>3, <4>4
    <3>6. Sent' = Sent + 1
      BY <2>1, <3>5, CountsOfOrders DEF Sent, DayInv
    <3>7. Rests
      BY <1>3, <2>3, <3>2 DEF DayInv
    <3> QED
      BY <1>1, <2>1, <3>6, <3>7
  <2> QED
    BY <2>2, <2>3
<1>4. \/ UNCHANGED <<resting, counters>>
      \/ \E k, q :
            /\ trades_today' = trades_today + Counted(k, q)
            /\ entries' = entries + (IF k > 0 THEN 1 ELSE 0)
            /\ k = q => resting' = resting
            /\ k # q => /\ "resting" \in market.faults
                        /\ \E o \in Orders : \E s, r, c :
                              /\ resting[o] = NoRest
                              /\ resting' = [resting EXCEPT ![o] =
                                   [symbol |-> s, quantity |-> r, price |-> c,
                                    uncounted |-> IF k > 0 THEN 0 ELSE 1]]
  <2>1. CASE UNCHANGED <<account, resting, counters, records>>
    BY <2>1
  <2>2. CASE \E k \in IF "resting" \in market.faults THEN 0..entry.quantity
                                                    ELSE {entry.quantity} :
                /\ trades_today' = trades_today + Counted(k, entry.quantity)
                /\ entries' = entries + (IF k > 0 THEN 1 ELSE 0)
                /\ IF k = entry.quantity THEN UNCHANGED resting
                   ELSE \E o \in Orders :
                          /\ resting[o] = NoRest
                          /\ resting' = [resting EXCEPT ![o] =
                               [symbol |-> entry.symbol, quantity |-> entry.quantity - k,
                                price |-> price[entry.symbol],
                                uncounted |-> IF k > 0 THEN 0 ELSE 1]]
    <3>1. PICK k \in IF "resting" \in market.faults THEN 0..entry.quantity
                                                   ELSE {entry.quantity} :
                /\ trades_today' = trades_today + Counted(k, entry.quantity)
                /\ entries' = entries + (IF k > 0 THEN 1 ELSE 0)
                /\ IF k = entry.quantity THEN UNCHANGED resting
                   ELSE \E o \in Orders :
                          /\ resting[o] = NoRest
                          /\ resting' = [resting EXCEPT ![o] =
                               [symbol |-> entry.symbol, quantity |-> entry.quantity - k,
                                price |-> price[entry.symbol],
                                uncounted |-> IF k > 0 THEN 0 ELSE 1]]
      BY <2>2
    <3>2. k # entry.quantity => "resting" \in market.faults
      BY <3>1
    <3> QED
      BY <3>1, <3>2, Zenon
  <2> QED
    BY <2>1, <2>2 DEF Send
<1> QED
  BY <1>1, <1>2, <1>3, <1>4

LEMMA SendInv == ASSUME DayInv, Send PROVE DayInv'
<1>1. entry.pc = "approved" /\ entry'.pc = "none" /\ market' = market
  BY DEF Send, NoEntry
<1>2. Sent' <= MaxTrades + Slack /\ Slack' = Slack
  BY <1>1, SendCounts, SlackIsNat DEF DayInv, Slack
<1> QED
  BY <1>1, <1>2, SendCounts DEF DayInv

\* The rest of an order gives up its place for the row it is counted by.
LEMMA ReconciledCounts ==
    ASSUME DayInv, NEW o \in Orders, Reconciled(o)
    PROVE  Sent' = Sent
<1>1. /\ trades_today' = trades_today + resting[o].uncounted
      /\ entries' = entries + resting[o].uncounted
      /\ resting' = [resting EXCEPT ![o] = NoRest]
      /\ entry' = entry /\ market' = market
  BY DEF Reconciled
<1>2. /\ DOMAIN resting' = Orders /\ resting'[o] = NoRest
      /\ \A x \in Orders \ {o} : resting'[x] = resting[x]
  BY <1>1 DEF DayInv
<1>3. NoRest.uncounted = 0 /\ "uncounted" \in DOMAIN NoRest
  BY DEF NoRest
<1>4. Uncounted' = Uncounted \ {o}
  BY <1>2, <1>3 DEF Uncounted
<1>5. Cardinality(Uncounted') = Cardinality(Uncounted) - resting[o].uncounted
  <2>1. CASE resting[o].uncounted = 1
    <3>1. o \in Uncounted
      BY <2>1 DEF Uncounted
    <3>2. Cardinality(Uncounted \ {o}) = Cardinality(Uncounted) - 1
      BY <3>1, CountsOfOrders, FS_RemoveElement
    <3>3. Cardinality(Uncounted') = Cardinality(Uncounted \ {o})
      BY <1>4
    <3> QED
      BY <2>1, <3>2, <3>3
  <2>2. CASE resting[o].uncounted = 0
    <3>1. Uncounted' = Uncounted
      BY <1>4, <2>2 DEF Uncounted
    <3> QED
      BY <2>2, <3>1, CountsOfOrders
  <2> QED
    BY <2>1, <2>2 DEF DayInv
<1>6. resting[o].uncounted \in {0, 1} /\ entries \in Nat
  BY DEF DayInv
<1> QED
  BY <1>1, <1>5, <1>6, CountsOfOrders DEF Sent

LEMMA ReconciledInv ==
    ASSUME DayInv, NEW o \in Orders, Reconciled(o)
    PROVE  DayInv'
<1>1. /\ trades_today' = trades_today + resting[o].uncounted
      /\ entries' = entries + resting[o].uncounted
      /\ resting' = [resting EXCEPT ![o] = NoRest]
      /\ entry' = entry /\ market' = market
  BY DEF Reconciled
<1>2. /\ DOMAIN resting' = Orders /\ resting'[o] = NoRest
      /\ \A x \in Orders \ {o} : resting'[x] = resting[x]
  BY <1>1 DEF DayInv
<1>3. NoRest.uncounted = 0 /\ "uncounted" \in DOMAIN NoRest
  BY DEF NoRest
<1>4. Sent' = Sent /\ Slack' = Slack
  BY <1>1, ReconciledCounts DEF Slack
<1> QED
  BY <1>1, <1>2, <1>3, <1>4 DEF DayInv

LEMMA NewDayCounts == ASSUME DayInv, NewDay PROVE Sent' = 0
<1>1. \A o \in Orders : resting'[o].uncounted = 0
  BY DEF NewDay, DayInv
<1>2. Uncounted' = {}
  BY <1>1 DEF Uncounted
<1> QED
  BY <1>2, FS_EmptySet DEF NewDay, Sent

LEMMA NewDayInv == ASSUME DayInv, NewDay PROVE DayInv'
<1>1. /\ trades_today' = 0 /\ entries' = 0 /\ entry' = entry /\ market' = market
      /\ resting' = [o \in Orders |-> [resting[o] EXCEPT !.uncounted = 0]]
  BY DEF NewDay
<1>2. \A o \in Orders : /\ "uncounted" \in DOMAIN resting'[o]
                        /\ resting'[o].uncounted = 0
  BY <1>1 DEF DayInv
<1>3. Sent' = 0
  BY NewDayCounts
<1>4. Slack' = Slack
  BY <1>1 DEF Slack
<1>5. "resting" \notin market.faults => \A o \in Orders : resting'[o] = NoRest
  <2>1. [NoRest EXCEPT !.uncounted = 0] = NoRest
    <3> DEFINE R == [symbol: {"none"}, quantity: {0}, price: {0}, uncounted: {0}]
    <3>1. NoRest \in R /\ [NoRest EXCEPT !.uncounted = 0] \in R
      BY DEF NoRest
    <3>2. \A a, b \in R : a = b
      OBVIOUS
    <3> HIDE DEF R
    <3> QED
      BY <3>1, <3>2
  <2> QED
    BY <1>1, <2>1 DEF DayInv
<1>6. entry.pc = "approved" => 0 < MaxTrades + Slack
  BY CountsOfOrders, SlackIsNat DEF DayInv, Sent
<1> QED
  BY <1>1, <1>2, <1>3, <1>4, <1>5, <1>6, SlackIsNat DEF DayInv

LEMMA DayStep == DayInv /\ [Next]_vars => DayInv'
<1> SUFFICES ASSUME DayInv, [Next]_vars PROVE DayInv'
  OBVIOUS
<1>1. CASE \E s \in market.symbols : Propose(s) \/ Sell(s) \/ PriceMoves(s)
  <2>1. PICK s : Propose(s) \/ Sell(s) \/ PriceMoves(s)
    BY <1>1
  <2>2. CASE Propose(s)
    BY <2>2, DayStands DEF Propose, counters, DayInv
  <2>3. CASE Sell(s)
    BY <2>3, DayStands DEF Sell, DayInv
  <2>4. CASE PriceMoves(s)
    BY <2>4, DayStands DEF PriceMoves, counters, DayInv
  <2> QED
    BY <2>1, <2>2, <2>3, <2>4
<1>2. CASE \E o \in Orders : Reconciled(o)
  BY <1>2, ReconciledInv
<1>3. CASE Assess
  BY <1>3, AssessInv
<1>4. CASE Send
  BY <1>4, SendInv
<1>5. CASE Heartbeat
  BY <1>5, DayStands DEF Heartbeat, counters, DayInv
<1>6. CASE NewDay
  BY <1>6, NewDayInv
<1>7. CASE UNCHANGED vars
  BY <1>7, DayStands DEF vars, counters, DayInv
<1> QED
  BY <1>1, <1>2, <1>3, <1>4, <1>5, <1>6, <1>7 DEF Next

-----------------------------------------------------------------------------
(* The exposure cap *)

Calm    == market.faults = {}
Entries == [pc: {"none", "proposed", "approved"}, symbol: Symbols \cup {"none"},
            quantity: Nat, price: Nat]

\* In a market that can be read and stands still while an entry is under way,
\* an entry keeps the price it was proposed at, and an approved one the room
\* the exposure rule found for it.
CalmInv ==
    Calm =>
      /\ market.symbols \subseteq Symbols
      /\ cash \in Nat /\ held \in [Symbols -> Nat] /\ price \in [Symbols -> Nat \ {0}]
      /\ entry \in Entries
      /\ entry.pc # "none" =>
           entry.symbol \in market.symbols /\ entry.price = price[entry.symbol]
      /\ entry.pc = "approved" =>
           Fits(entry.quantity, entry, Total * MaxExposurePct - 100 * Exposed)

LEMMA WorthIsNat ==
    ASSUME held \in [Symbols -> Nat], price \in [Symbols -> Nat \ {0}]
    PROVE  Exposed \in Nat
<1> DEFINE f == [s \in Symbols |-> held[s] * price[s]]
<1>1. \A s \in Symbols : f[s] \in Nat
  OBVIOUS
<1>2. Exposed = SumFunctionOnSet(f, Symbols)
  BY DEF Exposed, Worth
<1> HIDE DEF f
<1> QED
  BY <1>1, <1>2, SumIsNat

\* A purchase or a sale of one symbol, at the market's price.
LEMMA WorthMoves ==
    ASSUME held \in [Symbols -> Nat], held' \in [Symbols -> Nat],
           price \in [Symbols -> Nat \ {0}], price' = price, NEW s \in Symbols,
           \A x \in Symbols : x # s => held'[x] = held[x]
    PROVE  Exposed' = Exposed + (held'[s] * price[s] - held[s] * price[s])
<1> DEFINE f == [x \in Symbols |-> held[x] * price[x]]
           g == [x \in Symbols |-> held'[x] * price[x]]
<1>1. /\ \A x \in Symbols : f[x] \in Nat /\ g[x] \in Nat
      /\ \A x \in Symbols : x # s => f[x] = g[x]
      /\ g[s] = held'[s] * price[s] /\ f[s] = held[s] * price[s]
  OBVIOUS
<1>2. Exposed = SumFunctionOnSet(f, Symbols) /\ Exposed' = SumFunctionOnSet(g, Symbols)
  BY DEF Exposed, Worth
<1> HIDE DEF f, g
<1>3. SumFunctionOnSet(g, Symbols) = SumFunctionOnSet(f, Symbols) + (g[s] - f[s])
  BY <1>1, SumChanges
<1> QED
  BY <1>1, <1>2, <1>3

LEMMA NothingLocked == DayInv /\ Calm => Locked = 0
<1> SUFFICES ASSUME DayInv, Calm PROVE Locked = 0
  OBVIOUS
<1> DEFINE f == [o \in Orders |-> resting[o].quantity * resting[o].price]
<1>1. \A o \in Orders : f[o] = 0
  BY DEF DayInv, Calm, NoRest
<1>2. Locked = SumFunctionOnSet(f, Orders)
  BY DEF Locked
<1> HIDE DEF f
<1> QED
  BY <1>1, <1>2, SumOfZeros

LEMMA InitCalm == Init => CalmInv
<1> SUFFICES ASSUME Init, Calm PROVE CalmInv
  BY DEF CalmInv
<1>1. market.symbols \subseteq Symbols /\ market.cash \in Nat
  BY DEF Init
<1>2. held \in [Symbols -> Nat] /\ price \in [Symbols -> Nat \ {0}] /\ cash \in Nat
  BY <1>1 DEF Init
<1>3. entry \in Entries /\ entry.pc = "none"
  BY DEF Init, NoEntry, Entries
<1> QED
  BY <1>1, <1>2, <1>3 DEF CalmInv

LEMMA NoEntryIsEntry == NoEntry \in Entries /\ NoEntry.pc = "none"
  BY DEF NoEntry, Entries

LEMMA ProposeCalm ==
    ASSUME CalmInv, Calm, NEW s \in market.symbols, Propose(s)
    PROVE  CalmInv'
<1>1. UNCHANGED <<cash, held, price, market>> /\ s \in Symbols
  BY DEF Propose, account, CalmInv
<1>2. PICK priced \in Readable :
         \E close \in IF "drift" \in market.faults THEN Prices ELSE {price[s]} :
            LET quantity == ((cash + Worth(held, priced)) * MaxPositionPct) \div (100 * close)
            IN  /\ quantity > 0
                /\ entry' = [pc |-> "proposed", symbol |-> s,
                             quantity |-> quantity, price |-> close]
  BY Zenon DEF Propose
<1>3. priced = Symbols
  BY DEF Readable, Calm
<1> DEFINE quantity == ((cash + Exposed) * MaxPositionPct) \div (100 * price[s])
<1>4. /\ quantity > 0
      /\ entry' = [pc |-> "proposed", symbol |-> s, quantity |-> quantity, price |-> price[s]]
  BY <1>2, <1>3 DEF Calm, Exposed
<1>5. quantity \in Nat
  <2>1. Exposed \in Nat /\ price[s] \in Nat \ {0} /\ cash \in Nat
    BY <1>1, WorthIsNat DEF CalmInv
  <2>2. (cash + Exposed) * MaxPositionPct \in Nat /\ 100 * price[s] \in Nat \ {0}
    BY <2>1
  <2> QED
    BY <2>2, RoundsToNat
<1> HIDE DEF quantity
<1>6. entry' \in Entries /\ entry'.pc = "proposed" /\ entry'.symbol = s
      /\ entry'.price = price[s]
  BY <1>1, <1>4, <1>5 DEF Entries, CalmInv
<1> QED
  BY <1>1, <1>6 DEF CalmInv, Calm

LEMMA AssessCalm == ASSUME CalmInv, Calm, Assess PROVE CalmInv'
<1>1. entry.pc = "proposed" /\ UNCHANGED <<cash, held, price, market>>
  BY DEF Assess, account
<1>2. CASE entry' = NoEntry
  BY <1>1, <1>2, NoEntryIsEntry DEF CalmInv, Calm
<1>3. CASE entry' # NoEntry
  <2>1. PICK priced \in Readable : \E p, ctx :
           /\ p.side = "buy" /\ p.quantity = entry.quantity /\ p.price = entry.price
           /\ ctx.wallet = cash + Worth(held, priced)
           /\ ctx.exposure = Worth(held, priced)
           /\ ctx.pnl = Pnl /\ ctx.trades_today = trades_today
           /\ Approves(Evaluate(p, ctx, limits))
           /\ entry' = [entry EXCEPT !.pc = "approved",
                                     !.quantity = Evaluate(p, ctx, limits).quantity]
    BY <1>3, ApprovalWasEvaluated
  <2>2. PICK p, ctx :
           /\ p.side = "buy" /\ p.quantity = entry.quantity /\ p.price = entry.price
           /\ ctx.wallet = cash + Worth(held, priced)
           /\ ctx.exposure = Worth(held, priced)
           /\ Approves(Evaluate(p, ctx, limits))
           /\ entry' = [entry EXCEPT !.pc = "approved",
                                     !.quantity = Evaluate(p, ctx, limits).quantity]
    BY <2>1
  <2>3. priced = Symbols
    BY DEF Readable, Calm
  <2>4. ctx.wallet = Total /\ ctx.exposure = Exposed
    BY <2>2, <2>3 DEF Total, Exposed
  <2>5. entry \in Entries /\ entry.symbol \in Symbols /\ entry.price = price[entry.symbol]
        /\ entry.price \in Nat \ {0} /\ Exposed \in Nat /\ Total \in Int
    BY <1>1, WorthIsNat DEF CalmInv, Total
  <2>6. Proposal(p) /\ Account(ctx) /\ Limits(limits)
    BY <2>2, <2>4, <2>5 DEF Proposal, Account, Limits, limits, Entries
  <2> DEFINE q == Evaluate(p, ctx, limits).quantity
  <2>7. q \in Nat /\ Fits(q, p, ctx.wallet * limits.max_exposure_pct - 100 * ctx.exposure)
    BY <2>2, <2>6, ApprovedWithinCaps
  <2> HIDE DEF q
  <2>8. entry' = [entry EXCEPT !.pc = "approved", !.quantity = q]
    BY <2>2 DEF q
  <2>9. /\ entry' \in Entries /\ entry'.pc = "approved" /\ entry'.quantity = q
        /\ entry'.symbol = entry.symbol /\ entry'.price = entry.price
    BY <2>5, <2>7, <2>8 DEF Entries
  <2>10. Fits(entry'.quantity, entry', Total * MaxExposurePct - 100 * Exposed)
    BY <2>2, <2>4, <2>7, <2>9 DEF Fits, limits
  <2>11. Total' = Total /\ Exposed' = Exposed
    BY <1>1 DEF Total, Exposed, Worth
  <2> QED
    BY <1>1, <2>9, <2>10, <2>11 DEF CalmInv, Calm
<1> QED
  BY <1>2, <1>3

\* The price of an order sent, once refused or executed in full.
LEMMA SendInFull ==
    ASSUME CalmInv, Calm, DayInv, Send
    PROVE  /\ entry' = NoEntry /\ UNCHANGED <<price, market>>
           /\ \/ UNCHANGED <<cash, held>>
              \/ LET s == entry.symbol
                     q == entry.quantity
                 IN  /\ s \in Symbols /\ q \in Nat /\ entry.price = price[s]
                     /\ Fits(q, entry, Total * MaxExposurePct - 100 * Exposed)
                     /\ q * price[s] <= cash
                     /\ cash' = cash - q * price[s]
                     /\ held' = [held EXCEPT ![s] = @ + q]
<1>1. entry.pc = "approved" /\ entry' = NoEntry /\ UNCHANGED <<price, market>>
  BY DEF Send
<1>2. Locked = 0 /\ cash \in Nat
  BY NothingLocked DEF CalmInv
<1>3. /\ entry.symbol \in Symbols /\ entry.quantity \in Nat
      /\ entry.price = price[entry.symbol]
      /\ Fits(entry.quantity, entry, Total * MaxExposurePct - 100 * Exposed)
  BY <1>1 DEF CalmInv, Entries
<1>4. \/ UNCHANGED <<cash, held>>
      \/ /\ entry.quantity * price[entry.symbol] <= cash - Locked
         /\ cash' = cash - entry.quantity * price[entry.symbol]
         /\ held' = [held EXCEPT ![entry.symbol] = @ + entry.quantity]
  BY DEF Send, Calm, account
<1> QED
  BY <1>1, <1>2, <1>3, <1>4

LEMMA SendCalm == ASSUME CalmInv, Calm, DayInv, Send PROVE CalmInv'
<1>1. entry' = NoEntry /\ UNCHANGED <<price, market>>
  BY SendInFull
<1>2. cash' \in Nat /\ held' \in [Symbols -> Nat]
  <2>1. CASE UNCHANGED <<cash, held>>
    BY <2>1 DEF CalmInv
  <2>2. CASE LET s == entry.symbol
                 q == entry.quantity
             IN  /\ s \in Symbols /\ q \in Nat /\ q * price[s] <= cash
                 /\ cash' = cash - q * price[s]
                 /\ held' = [held EXCEPT ![s] = @ + q]
    <3>1. entry.quantity * price[entry.symbol] \in Nat
      BY <2>2 DEF CalmInv
    <3> QED
      BY <2>2, <3>1 DEF CalmInv
  <2> QED
    BY <2>1, <2>2, SendInFull
<1> QED
  BY <1>1, <1>2, NoEntryIsEntry DEF CalmInv, Calm

LEMMA SellCalm ==
    ASSUME CalmInv, Calm, NEW s \in market.symbols, Sell(s)
    PROVE  CalmInv'
<1>1. /\ entry.pc = "none" /\ UNCHANGED <<price, entry, market>>
      /\ cash \in Nat /\ held \in [Symbols -> Nat] /\ price[s] \in Nat /\ s \in Symbols
  BY DEF Sell, CalmInv
<1>2. PICK q \in 1..held[s] : /\ cash' = cash + q * price[s]
                              /\ held' = [held EXCEPT ![s] = @ - q]
  BY DEF Sell
<1>3. cash' \in Nat /\ held' \in [Symbols -> Nat]
  <2>1. q \in Nat /\ q * price[s] \in Nat
    BY <1>1
  <2> QED
    BY <1>1, <1>2, <2>1
<1> QED
  BY <1>1, <1>3 DEF CalmInv, Calm

LEMMA CalmStep ==
    ASSUME DayInv, CalmInv, [Next]_vars
    PROVE  CalmInv'
<1> SUFFICES ASSUME Calm' PROVE CalmInv'
  BY DEF CalmInv
<1>0. market' = market /\ Calm
  BY DEF Next, Propose, Sell, PriceMoves, Reconciled, Assess, Send, Heartbeat, NewDay,
         vars, Calm
<1>1. ASSUME NEW s \in market.symbols, Propose(s) \/ Sell(s) \/ PriceMoves(s)
      PROVE  CalmInv'
  <2>1. CASE Propose(s)
    BY <1>0, <2>1, ProposeCalm
  <2>2. CASE Sell(s)
    BY <1>0, <2>2, SellCalm
  <2>3. CASE PriceMoves(s)
    <3>1. /\ entry.pc = "none" /\ UNCHANGED <<cash, held, entry, market>>
          /\ price' \in [Symbols -> Nat \ {0}]
      BY <1>0, <2>3 DEF PriceMoves, Calm, account, CalmInv
    <3> QED
      BY <1>0, <3>1 DEF CalmInv
  <2> QED
    BY <1>1, <2>1, <2>2, <2>3
<1>2. CASE \E o \in Orders : Reconciled(o)
  BY <1>0, <1>2 DEF Reconciled, DayInv, Calm
<1>3. CASE Assess
  BY <1>0, <1>3, AssessCalm
<1>4. CASE Send
  BY <1>0, <1>4, SendCalm
<1>5. CASE Heartbeat \/ NewDay \/ UNCHANGED vars
  <2>1. UNCHANGED <<cash, held, price, entry, market>>
    BY <1>5 DEF Heartbeat, NewDay, vars, account
  <2>2. Total' = Total /\ Exposed' = Exposed
    BY <2>1 DEF Total, Exposed, Worth
  <2> QED
    BY <1>0, <2>1, <2>2 DEF CalmInv, Fits
<1> QED
  BY <1>1, <1>2, <1>3, <1>4, <1>5 DEF Next

\* Of a step in a calm market: only an order sent adds to the exposure, and what
\* it adds was left free by the cap.
LEMMA CalmStepCapped ==
    ASSUME DayInv, CalmInv, [Next]_vars, Calm
    PROVE  WithinCap
<1> SUFFICES ASSUME Exposed' > Exposed, price' = price
             PROVE  100 * Exposed' <= MaxExposurePct * Total'
  BY DEF WithinCap
<1>0. /\ cash \in Nat /\ held \in [Symbols -> Nat] /\ price \in [Symbols -> Nat \ {0}]
      /\ Exposed \in Nat
  BY WorthIsNat DEF CalmInv
<1>1. held' # held
  <2>1. held' = held => Exposed' = Exposed
    BY DEF Exposed, Worth
  <2> QED
    BY <1>0, <2>1
<1>2. CASE Send
  <2> DEFINE s == entry.symbol
             q == entry.quantity
  <2>1. /\ s \in Symbols /\ q \in Nat /\ entry.price = price[s]
        /\ Fits(q, entry, Total * MaxExposurePct - 100 * Exposed)
        /\ cash' = cash - q * price[s]
        /\ held' = [held EXCEPT ![s] = @ + q]
    BY <1>1, <1>2, SendInFull
  <2> HIDE DEF s, q
  <2>2. held'[s] = held[s] + q /\ held' \in [Symbols -> Nat]
    BY <1>0, <2>1
  <2>3. Exposed' = Exposed + (held'[s] * price[s] - held[s] * price[s])
    BY <1>0, <2>1, <2>2, WorthMoves
  <2>4. held'[s] * price[s] - held[s] * price[s] = q * price[s] /\ q * price[s] \in Nat
    <3>1. held[s] \in Nat /\ price[s] \in Nat
      BY <1>0, <2>1
    <3>2. (held[s] + q) * price[s] = held[s] * price[s] + q * price[s]
      BY <2>1, <3>1
    <3>3. held[s] * price[s] \in Nat /\ q * price[s] \in Nat
      BY <2>1, <3>1
    <3> QED
      BY <2>2, <3>2, <3>3
  <2>5. Exposed' = Exposed + q * price[s] /\ Total' = Total
    <3>1. Exposed' = Exposed + q * price[s]
      BY <1>0, <2>3, <2>4
    <3>2. Total' = cash' + Exposed' /\ Total = cash + Exposed
      BY DEF Total
    <3> QED
      BY <1>0, <2>1, <2>4, <3>1, <3>2
  <2>6. 100 * (q * price[s]) <= Total * MaxExposurePct - 100 * Exposed
    BY <2>1 DEF Fits
  <2>7. Total * MaxExposurePct = MaxExposurePct * Total /\ MaxExposurePct * Total \in Int
    BY <1>0 DEF Total
  <2> QED
    BY <1>0, <2>4, <2>5, <2>6, <2>7
<1>3. ASSUME NEW s \in market.symbols, Sell(s) PROVE FALSE
  <2>1. PICK q \in 1..held[s] : held' = [held EXCEPT ![s] = @ - q]
    BY <1>3 DEF Sell
  <2>2. s \in Symbols /\ held[s] \in Nat /\ price[s] \in Nat
    BY <1>0 DEF CalmInv
  <2>3. held'[s] = held[s] - q /\ held' \in [Symbols -> Nat]
    BY <1>0, <2>1, <2>2
  <2>4. Exposed' = Exposed + (held'[s] * price[s] - held[s] * price[s])
    BY <1>0, <2>1, <2>2, <2>3, WorthMoves
  <2>5. held[s] * price[s] - held'[s] * price[s] \in Nat
    <3>1. (held[s] - held'[s]) * price[s] = held[s] * price[s] - held'[s] * price[s]
      BY <2>2, <2>3
    <3>2. held[s] - held'[s] \in Nat
      BY <2>2, <2>3
    <3>3. (held[s] - held'[s]) * price[s] \in Nat
      BY <2>2, <3>2
    <3> QED
      BY <3>1, <3>3
  <2>6. held[s] * price[s] \in Int /\ held'[s] * price[s] \in Int
    BY <2>2, <2>3
  <2> QED
    BY <1>0, <2>4, <2>5, <2>6
<1>4. ASSUME NEW o \in Orders, Reconciled(o) PROVE FALSE
  BY <1>4 DEF Reconciled, DayInv, Calm
<1> QED
  BY <1>1, <1>2, <1>3, <1>4
     DEF Next, Propose, PriceMoves, Assess, Heartbeat, NewDay, vars, account

LEMMA AffordedByCaps == DayInv /\ CalmInv => ApprovedIsAffordable
<1> SUFFICES ASSUME DayInv, CalmInv, Calm, entry.pc = "approved"
             PROVE  entry.quantity * entry.price <= cash - Locked
  BY DEF ApprovedIsAffordable, Calm
<1>1. Locked = 0 /\ cash \in Nat /\ Exposed \in Nat /\ Total = cash + Exposed
  BY NothingLocked, WorthIsNat DEF CalmInv, Total
<1>2. 100 * (entry.quantity * entry.price) <= Total * MaxExposurePct - 100 * Exposed
  BY DEF CalmInv, Fits
<1>3. Total * MaxExposurePct <= 100 * Total
  <2>1. Total \in Nat /\ MaxExposurePct \in Nat /\ 100 - MaxExposurePct \in Nat
    BY <1>1
  <2>2. Total * (100 - MaxExposurePct) \in Nat
    BY <2>1
  <2>3. Total * (100 - MaxExposurePct) = 100 * Total - Total * MaxExposurePct
    BY <2>1
  <2>4. Total * MaxExposurePct \in Nat
    BY <2>1
  <2> QED
    BY <2>1, <2>2, <2>3, <2>4
<1>4. entry.quantity * entry.price \in Nat /\ Total * MaxExposurePct \in Nat
  BY <1>1 DEF CalmInv, Entries
<1> QED
  BY <1>1, <1>2, <1>3, <1>4

LEMMA CalmAlways == Spec => []CalmInv
<1>1. DayInv /\ CalmInv /\ [Next]_vars => CalmInv'
  BY CalmStep
<1> QED
  BY <1>1, InitDay, DayStep, InitCalm, PTL DEF Spec

-----------------------------------------------------------------------------
(* The daily loss limit *)

\* The loss rule lets a purchase pass only against a baseline that was taken.
LEMMA ApprovedAgainstBaseline ==
    ASSUME NEW p, NEW ctx, p.side = "buy", ctx.pnl = Pnl,
           Approves(Evaluate(p, ctx, limits))
    PROVE  Pnl.available
<1>1. Reject \notin Results(p, ctx, limits)
  BY DEF Approves, Evaluate, Combined
<1>2. DailyLoss(p, ctx, limits) # Reject
  BY <1>1 DEF Results
<1> QED
  BY <1>2 DEF DailyLoss, IncreasesRisk

\* BuysNeedBaseline is not inductive: an approved entry will be sent whatever
\* happens before, so its place is taken when it is approved.
BaselineInv ==
    /\ latest.kind \in {"none", "taken"}
    /\ latest.kind = "none" => Sent = 0 /\ entry.pc # "approved"
    /\ opening.kind = "stale" => Sent <= IF entry.pc = "approved" THEN 0 ELSE 1

LEMMA InitBaseline == Init => BaselineInv
<1> SUFFICES ASSUME Init PROVE BaselineInv
  OBVIOUS
<1>1. Uncounted = {}
  BY DEF Init, Uncounted, NoRest
<1>2. Sent = 0
  BY <1>1, FS_EmptySet DEF Init, Sent
<1> QED
  BY <1>2 DEF Init, NoSnapshot, NoEntry, BaselineInv

LEMMA SentIsNat == DayInv => Sent \in Nat
  BY CountsOfOrders DEF DayInv, Sent

\* A snapshot, if any, is taken; the day's opening one stays what it was.
Recorded == latest'.kind \in {latest.kind, "taken"} /\ opening' = opening

LEMMA SnapshotRecords ==
    /\ \A value : Snapshot(value) => Recorded
    /\ \A c, h : SnapshotAfterFill(c, h) => Recorded
    /\ UNCHANGED records => Recorded
  BY DEF Snapshot, SnapshotAfterFill, records, Recorded

LEMMA SentStands ==
    ASSUME UNCHANGED <<resting, entries>>
    PROVE  Sent' = Sent
  BY DEF Sent, Uncounted

\* Without a new approval or anything new sent, no part of the invariant is lost
\* while the day lasts.
LEMMA BaselineStands ==
    ASSUME DayInv, BaselineInv, Recorded, Sent' = Sent,
           entry'.pc = "approved" => entry.pc = "approved"
    PROVE  BaselineInv'
  BY SentIsNat DEF Recorded, BaselineInv

LEMMA AssessBaseline ==
    ASSUME DayInv, BaselineInv, Assess
    PROVE  BaselineInv'
<1>1. UNCHANGED <<resting, entries, records>>
  BY DEF Assess, counters
<1>2. Sent' = Sent /\ UNCHANGED <<latest, opening>>
  BY <1>1, SentStands DEF records
<1>3. Sent \in Nat /\ entry.pc = "proposed"
  BY SentIsNat DEF Assess
<1>4. CASE entry' = NoEntry
  BY <1>2, <1>3, <1>4 DEF NoEntry, BaselineInv
<1>5. CASE entry' # NoEntry
  <2>1. PICK p, ctx : /\ p.side = "buy" /\ ctx.pnl = Pnl
                      /\ Approves(Evaluate(p, ctx, limits))
    BY <1>5, ApprovalWasEvaluated
  <2>2. Pnl.available
    BY <2>1, ApprovedAgainstBaseline
  <2>3. opening.kind # "stale" /\ latest.kind = "taken"
    BY <2>2 DEF Pnl, BaselineInv
  <2> QED
    BY <1>2, <2>3 DEF BaselineInv
<1> QED
  BY <1>4, <1>5

\* An entry that is sent takes the place it had.
LEMMA SendBaseline ==
    ASSUME DayInv, BaselineInv, Send
    PROVE  BaselineInv'
<1>1. entry.pc = "approved" /\ entry'.pc = "none"
  BY DEF Send, NoEntry
<1>2. Recorded
  <2>1. UNCHANGED records \/ SnapshotAfterFill(cash', held')
    BY DEF Send
  <2> QED
    BY <2>1, SnapshotRecords
<1>3. Sent' <= Sent + 1 /\ Sent \in Nat /\ Sent' \in Nat
  BY SendCounts
<1> QED
  BY <1>1, <1>2, <1>3 DEF Recorded, BaselineInv

LEMMA BaselineStep ==
    DayInv /\ BaselineInv /\ [Next]_vars => BaselineInv'
<1> SUFFICES ASSUME DayInv, BaselineInv, [Next]_vars PROVE BaselineInv'
  OBVIOUS
<1>1. CASE \E s \in market.symbols : Propose(s) \/ Sell(s) \/ PriceMoves(s)
  <2>1. UNCHANGED <<resting, entries>> /\ (entry'.pc = "approved" => entry.pc = "approved")
    BY <1>1 DEF Propose, Sell, PriceMoves, counters
  <2>2. Recorded
    BY <1>1, SnapshotRecords DEF Propose, Sell, PriceMoves
  <2> QED
    BY <2>1, <2>2, SentStands, BaselineStands
<1>2. CASE \E o \in Orders : Reconciled(o)
  <2>1. PICK o \in Orders : Reconciled(o)
    BY <1>2
  <2>2. Sent' = Sent
    BY <2>1, ReconciledCounts
  <2>3. Recorded /\ entry' = entry
    BY <2>1, SnapshotRecords DEF Reconciled
  <2> QED
    BY <2>2, <2>3, BaselineStands
<1>3. CASE Assess
  BY <1>3, AssessBaseline
<1>4. CASE Send
  BY <1>4, SendBaseline
<1>5. CASE Heartbeat
  <2>1. UNCHANGED <<resting, entries>> /\ entry' = entry
    BY <1>5 DEF Heartbeat, counters
  <2>2. Recorded
    BY <1>5, SnapshotRecords DEF Heartbeat
  <2> QED
    BY <2>1, <2>2, SentStands, BaselineStands
<1>6. CASE NewDay
  <2>1. Sent' = 0
    BY <1>6, NewDayCounts
  <2>2. latest' = latest /\ entry' = entry
    BY <1>6 DEF NewDay
  <2> QED
    BY <2>1, <2>2 DEF BaselineInv
<1>7. CASE UNCHANGED vars
  <2>1. UNCHANGED <<resting, entries, records, entry>>
    BY <1>7 DEF vars, counters
  <2> QED
    BY <2>1, SnapshotRecords, SentStands, BaselineStands
<1> QED
  BY <1>1, <1>2, <1>3, <1>4, <1>5, <1>6, <1>7 DEF Next

-----------------------------------------------------------------------------
(* What holds of every trading day *)

\* On no day do more entries execute than the cap, and the orders that may rest
\* uncounted, allow.
THEOREM EntriesAlwaysCapped == Spec => []EntriesStayCapped
<1>1. DayInv => EntriesStayCapped
  BY CountsOfOrders, SlackIsNat DEF DayInv, EntriesStayCapped, Sent, Slack
<1> QED
  BY <1>1, InitDay, DayStep, PTL DEF Spec

\* In a market that can be read and stands still while an order is under way, an
\* approved order can be paid from free cash.
THEOREM ApprovedAlwaysAffordable == Spec => []ApprovedIsAffordable
  BY CalmAlways, InitDay, DayStep, AffordedByCaps, PTL DEF Spec

\* There no purchase takes the exposure over its cap, whatever is held already.
THEOREM ExposureAlwaysWithinCap == Spec => ExposureStaysCapped
<1>1. DayInv /\ CalmInv /\ [Next]_vars => [market.faults = {} => WithinCap]_vars
  BY CalmStepCapped DEF Calm
<1> QED
  BY <1>1, CalmAlways, InitDay, DayStep, PTL DEF Spec, ExposureStaysCapped

\* Nothing is bought without a baseline: no order is sent before the first
\* snapshot and, all day long after a day that left none, none but the one that
\* was approved before midnight and not yet sent.
THEOREM EntriesNeedBaseline == Spec => []BuysNeedBaseline
<1>1. DayInv /\ BaselineInv => BuysNeedBaseline
  BY SentIsNat DEF BaselineInv, BuysNeedBaseline
<1>2. DayInv /\ BaselineInv /\ [Next]_vars => BaselineInv'
  BY BaselineStep
<1> QED
  BY <1>1, <1>2, InitDay, InitBaseline, DayStep, PTL DEF Spec
=============================================================================
