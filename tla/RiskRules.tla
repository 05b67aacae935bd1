------------------------------ MODULE RiskRules ------------------------------
(***************************************************************************)
(* services/risk_engine.py: the seven rules and how evaluate combines them.  *)
(*                                                                          *)
(* Money is in whole USDT and a quantity counts lot steps, so a suggested    *)
(* quantity is already what round_to_step leaves of it; rounding down after  *)
(* the minimum of two suggestions or before it is the same. Percentages are  *)
(* whole and cross-multiplied.                                               *)
(***************************************************************************)
EXTENDS Integers, FiniteSets, FiniteSetsExt

(* A proposal: [side, quantity, price, scored, confidence]; scored is FALSE    *)
(* when there is no confidence.                                              *)
Notional(p)      == p.quantity * p.price
IncreasesRisk(p) == p.side = "buy"

Pass      == [action |-> "pass",   quantity |-> 0]
Reject    == [action |-> "reject", quantity |-> 0]
Resize(q) == [action |-> "resize", quantity |-> q]

\* A cap of room/100 USDT on a purchase. Below min_notional it is no purchase.
Capped(p, room, minNotional) ==
    IF 100 * Notional(p) <= room THEN Pass
    ELSE IF room < 100 * minNotional THEN Reject
    ELSE Resize(room \div (100 * p.price))

PositionSize(p, ctx, limits) ==
    IF ~IncreasesRisk(p) THEN Pass
    ELSE IF ctx.wallet <= 0 THEN Reject
    ELSE Capped(p, ctx.wallet * limits.max_position_pct, limits.min_notional)

\* The cap without the exposure there already is.
ExposureAlone(p, ctx, limits) ==
    IF ~IncreasesRisk(p) THEN Pass
    ELSE IF ctx.wallet <= 0 THEN Reject
    ELSE Capped(p, ctx.wallet * limits.max_exposure_pct, limits.min_notional)

Exposure(p, ctx, limits) ==
    IF ~IncreasesRisk(p) THEN Pass
    ELSE IF ctx.wallet <= 0 THEN Reject
    ELSE Capped(p, ctx.wallet * limits.max_exposure_pct - 100 * ctx.exposure,
                limits.min_notional)

\* pnl = 100 * (current - baseline) / baseline, of two wallet snapshots
DailyLoss(p, ctx, limits) ==
    IF /\ IncreasesRisk(p)
       /\ \/ ~ctx.pnl.available
          \/ 100 * (ctx.pnl.current - ctx.pnl.baseline)
                <= -limits.max_loss_pct * ctx.pnl.baseline
    THEN Reject ELSE Pass

Confidence(p, limits) ==
    IF \/ p.scored /\ p.confidence < limits.min_confidence
       \/ ~p.scored /\ IncreasesRisk(p)
    THEN Reject ELSE Pass

\* Sigma arithmetic abstracted to its verdict: "normal", or not, or unknown.
Volatility(ctx) == IF ctx.volatility = "normal" THEN Pass ELSE Reject

\* ctx.components: name -> [status, age], no entry if there is no row; the age
\* of a missing heartbeat is beyond any maximum.
Healthy(ctx, limits) ==
    \A name \in limits.required :
        /\ name \in DOMAIN ctx.components
        /\ ctx.components[name].status = "online"
        /\ ctx.components[name].age <= limits.max_age
Health(ctx, limits) == IF Healthy(ctx, limits) THEN Pass ELSE Reject

Frequency(p, ctx, limits) ==
    IF IncreasesRisk(p) /\ ctx.trades_today >= limits.max_trades THEN Reject ELSE Pass

\* ALL_RULES: no rule short-circuits another.
Results(p, ctx, limits) ==
    { Health(ctx, limits), Volatility(ctx), Confidence(p, limits),
      DailyLoss(p, ctx, limits), PositionSize(p, ctx, limits),
      Exposure(p, ctx, limits), Frequency(p, ctx, limits) }

Suggested(results) == {r.quantity : r \in {r \in results : r.action = "resize"}}

\* Any objection rejects; of several caps the tightest wins.
Combined(p, results) ==
    IF Reject \in results THEN [decision |-> "rejected", quantity |-> 0]
    ELSE IF Suggested(results) # {}
         THEN [decision |-> "resized", quantity |-> Min(Suggested(results))]
         ELSE [decision |-> "approved", quantity |-> p.quantity]

Evaluate(p, ctx, limits) == Combined(p, Results(p, ctx, limits))

Approves(verdict) == verdict.decision \in {"approved", "resized"}
=============================================================================
