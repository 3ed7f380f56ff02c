---------------------------- MODULE EntryDecision ---------------------------
(***************************************************************************)
(* From the settings and an entry signal to two orders: Config (its        *)
(* overrides and validate), and what process_bar does between a signal and *)
(* open_pair - capital, weights, funding controls, regime gate, cost gate, *)
(* sizes, limit prices.                                                    *)
(*                                                                         *)
(* Settings are a record; an optional one that is not set is None.         *)
(* Decimals are integers in a unit of their own: z-scores and ratios in    *)
(* hundredths, rates of funding, sigma, fees and slippage in basis points, *)
(* quantities in 1/QtyScale, capital and notionals in units of money, and  *)
(* what funding costs in 1/BpsScale of them.  A price is a number of ticks *)
(* of five significant digits, each worth a unit of money, and the limit   *)
(* price of an order, which is rounded only when it is sent, a number of   *)
(* 1/BpsScale of a tick.                                                   *)
(***************************************************************************)
EXTENDS PairTypes, FiniteSetsExt

QtyScale == 1000

Hundred == 100

BpsScale == 10000

CeilDiv(n, d) == -((-n) \div d)

\* What the first sets wins over what the second has.
Over(f, g) ==
    [name \in DOMAIN f \cup DOMAIN g |-> IF name \in DOMAIN f THEN f[name] ELSE g[name]]

Most(a, b) == Max({a, b})

----------------------------------------------------------------------------
(* Config: settings are the values of all sections, constraints those of    *)
(* instrument_constraints.                                                  *)

BothWays(n) == [direction \in TradeDirections |-> n]

StrategyDefaults == [n_z |-> 384, entry_z |-> 150, tp_z |-> 45, sl_z |-> 350]

StaleCrossDefaults ==
    [stale_cross |-> FALSE, max_age_bars |-> 4, require_reverting |-> TRUE]

PersistentExtremeDefaults ==
    [persistent_extreme |-> FALSE, min_abs_z |-> 150, allowed_directions |-> {}]

SigmaFloorDefaults ==
    [sigma_floor_mode |-> "Const", sigma_floor_const |-> 10,
     sigma_floor_quantile_window |-> 30, sigma_floor_quantile_p |-> 10,
     ewma_half_life |-> 20]

PositionDefaults ==
    [c_mode |-> "FixedNotional", c_value |-> 50000, equity_value |-> None,
     equity_ratio_k |-> None, max_notional |-> None, n_vol |-> 672,
     max_position_groups |-> 1, min_size_policy |-> "SKIP"]

DirectionalSizingDefaults == [multiplier |-> BothWays(Hundred)]

FundingDefaults ==
    [modes |-> {"Filter"}, funding_cost_threshold |-> 10,
     funding_threshold_k |-> 50, funding_size_alpha |-> 50, c_min_ratio |-> 30]

CostGateDefaults ==
    [cost_gate |-> FALSE, enforce |-> FALSE, min_net_edge_bps |-> 0,
     entry_fee_bps |-> 0, exit_fee_bps |-> 0, cost_slippage_bps |-> 0,
     cost_spread_bps |-> 0, extra_bps |-> BothWays(0)]

RegimeGateDefaults ==
    [regime_gate |-> FALSE, lookback_bars |-> 28, max_half_life_bars |-> 40]

RiskDefaults ==
    [max_hold_hours |-> 48, cooldown_hours |-> 24, confirm_bars_tp |-> 0]

ExecutionDefaults ==
    [order_type |-> "Market", slippage_bps |-> 5, post_only_bps |-> 2,
     post_only_ttl_secs |-> 840, leverage |-> None, margin_mode |-> "Cross"]

RuntimeDefaults ==
    [base_url |-> "hyperliquid", interval_secs |-> 900, once |-> FALSE,
     paper |-> FALSE, disable_funding |-> FALSE, state_path |-> None]

AuthDefaults ==
    [private_key |-> None, wallet_address |-> None, vault_address |-> None]

LoggingDefaults ==
    [stats_path |-> "stats.log", stats_format |-> None, trade_path |-> None,
     trade_format |-> None, price_db_path |-> None]

ConstraintDefaults ==
    [min_qty |-> 10, min_notional |-> 10, step_size |-> 1, tick_size |-> 1,
     qty_unit |-> 1, rounding_mode |-> "FLOOR"]

SizingDefaults ==
    Over(PositionDefaults, Over(DirectionalSizingDefaults, FundingDefaults))

SignalDefaults ==
    Over(StrategyDefaults,
      Over(StaleCrossDefaults, Over(PersistentExtremeDefaults, SigmaFloorDefaults)))

ProcessDefaults ==
    Over(RiskDefaults, Over(RuntimeDefaults, Over(AuthDefaults, LoggingDefaults)))

\* Config::default.
DefaultConfig ==
    [settings |->
       Over(SizingDefaults,
         Over(ExecutionDefaults,
           Over(SignalDefaults,
             Over(CostGateDefaults, Over(RegimeGateDefaults, ProcessDefaults))))),
     constraints |-> [leg \in Legs |-> ConstraintDefaults]]

\* apply_overrides: what a file sets wins over what is there, value by value.
Overridden(config, overrides) ==
    [settings |-> Over(overrides.settings, config.settings),
     constraints |->
        [leg \in Legs |->
            IF leg \in DOMAIN overrides.constraints
            THEN Over(overrides.constraints[leg], config.constraints[leg])
            ELSE config.constraints[leg]]]

\* The types of the settings that become part of an order, once they are set;
\* orders that slippage or offset leave without a price are left out.
SettingTypes ==
    [c_mode |-> {"FixedNotional", "EquityRatio"}, c_value |-> Int,
     equity_value |-> Int \cup {None}, equity_ratio_k |-> Int \cup {None},
     max_notional |-> Int \cup {None}, min_size_policy |-> {"SKIP", "ADJUST"},
     multiplier |-> [TradeDirections -> Int],
     funding_cost_threshold |-> Int, funding_threshold_k |-> Int,
     funding_size_alpha |-> Int, c_min_ratio |-> Int,
     order_type |-> {"Market", "Limit", "PostOnly"},
     slippage_bps |-> 0..(BpsScale - 1), post_only_bps |-> 0..(BpsScale - 1)]

ConstraintTypes ==
    [min_qty |-> Int, min_notional |-> Int, step_size |-> Int,
     qty_unit |-> Nat \ {0}, rounding_mode |-> {"FLOOR", "CEIL", "ROUND"}]

\* What a settings file sets has its type.
WellTyped(overrides) ==
    /\ \A name \in DOMAIN SettingTypes \cap DOMAIN overrides.settings :
         overrides.settings[name] \in SettingTypes[name]
    /\ \A leg \in Legs \cap DOMAIN overrides.constraints :
         \A name \in DOMAIN ConstraintTypes \cap DOMAIN overrides.constraints[leg] :
           overrides.constraints[leg][name] \in ConstraintTypes[name]

StrategyValid(s) ==
    /\ s.n_z > 0
    /\ s.entry_z < s.sl_z
    /\ s.tp_z < s.entry_z
    /\ s.stale_cross => s.max_age_bars > 0
    /\ s.persistent_extreme =>
          /\ s.min_abs_z > 0 /\ s.min_abs_z < s.sl_z
          /\ s.allowed_directions # {}

SigmaFloorValid(s) ==
    /\ s.sigma_floor_const > 0
    /\ s.sigma_floor_quantile_window > 0
    /\ s.sigma_floor_quantile_p > 0 /\ s.sigma_floor_quantile_p <= Hundred
    /\ s.ewma_half_life > 0

CapitalConfigured(s) ==
    /\ s.c_mode = "FixedNotional" => s.c_value # None
    /\ s.c_mode = "EquityRatio" => s.equity_ratio_k # None

\* No look at equity_value, and max_notional is not compared with c_value.
PositionValid(s) ==
    /\ s.n_vol > 0
    /\ CapitalConfigured(s)
    /\ s.max_notional # None => s.max_notional > 0
    /\ s.max_position_groups > 0
    /\ \A direction \in TradeDirections : s.multiplier[direction] > 0

\* Does not ask for the parameters of the funding modes: the defaults have them
\* all, and a file cannot take a default away.
GatesValid(s) ==
    /\ s.c_min_ratio # None => s.c_min_ratio >= 0 /\ s.c_min_ratio <= Hundred
    /\ s.min_net_edge_bps >= 0
    /\ s.entry_fee_bps >= 0 /\ s.exit_fee_bps >= 0
    /\ s.cost_slippage_bps >= 0 /\ s.cost_spread_bps >= 0
    /\ \A direction \in TradeDirections : s.extra_bps[direction] >= 0
    /\ s.regime_gate => s.lookback_bars >= 3 /\ s.max_half_life_bars > 0

\* A path that is set is not blank, and a log format needs its path.
RuntimeValid(s) ==
    /\ s.leverage # None => s.leverage > 0
    /\ s.interval_secs > 0
    /\ \A path \in {s.base_url, s.state_path, s.stats_path, s.trade_path,
                     s.price_db_path} : path # "blank"
    /\ s.stats_format # None => s.stats_path # None
    /\ s.trade_format # None => s.trade_path # None

\* A constraint of no size passes (a mutant).
ConstraintsValidLoosely(k) == k.min_qty > 0 /\ k.tick_size > 0

ConstraintsValid(k) == k.min_qty > 0 /\ k.step_size > 0 /\ k.tick_size > 0

Valid(config) ==
    /\ StrategyValid(config.settings)
    /\ SigmaFloorValid(config.settings)
    /\ PositionValid(config.settings)
    /\ GatesValid(config.settings)
    /\ RuntimeValid(config.settings)
    /\ \A leg \in Legs : ConstraintsValid(config.constraints[leg])

----------------------------------------------------------------------------
(* Bars with an entry signal: prices are positive, everything else may be    *)
(* missing.                                                                 *)

BarRecords ==
    [direction : TradeDirections, z : Int, sigma : Int,
     vols : [Legs -> Int] \cup {None}, prices : [Legs -> Nat \ {0}],
     equity : Int \cup {None}, rates : [Legs -> Int] \cup {None},
     interval : Int \cup {None}, half_life : Int \cup {None}]

----------------------------------------------------------------------------
(* Capital and sizes.                                                       *)

Equity(s, bar) ==
    IF s.c_mode = "FixedNotional" THEN s.c_value
    ELSE IF bar.equity # None THEN bar.equity ELSE s.equity_value

\* compute_capital and the directional multiplier; equity_ratio_k and the
\* multipliers are in hundredths.
Capital(s, bar) ==
    LET base == IF s.c_mode = "FixedNotional" THEN s.c_value
                ELSE (Equity(s, bar) * s.equity_ratio_k) \div Hundred
    IN  (base * s.multiplier[bar.direction]) \div Hundred

\* risk_parity_weights: the calmer leg gets more, and a leg without any
\* volatility a half.
Notional(capital, vols) ==
    LET even == \E leg \in Legs : vols[leg] <= 0
        eth == IF even THEN capital \div 2
               ELSE (capital * vols["btc"]) \div (vols["eth"] + vols["btc"])
    IN  [leg \in Legs |-> IF leg = "eth" THEN eth ELSE capital - eth]

\* n/d rounded to a multiple of the unit; ROUND is to the even one of two.
Rounded(n, d, unit, mode) ==
    LET down == n \div (d * unit)
        rest == 2 * (n - down * d * unit)
        up == \/ mode = "CEIL" /\ rest > 0
              \/ mode = "ROUND" /\ rest > d * unit
              \/ mode = "ROUND" /\ rest = d * unit /\ down % 2 = 1
    IN  (down + IF up THEN 1 ELSE 0) * unit

\* round_qty: to the step, and then to the precision.
RoundQty(k, n, d, mode) ==
    Rounded(Rounded(n, d, k.step_size, mode), 1, k.qty_unit, "ROUND")

BelowMinimum(k, qty, price) ==
    qty < k.min_qty \/ qty * price < k.min_notional * QtyScale

\* The smallest order of the constraints.
MinimumQty(k, price) ==
    IF k.min_notional * QtyScale > k.min_qty * price
    THEN RoundQty(k, k.min_notional * QtyScale, price, "CEIL")
    ELSE RoundQty(k, k.min_qty, 1, "CEIL")

\* Lifts every order to the minimum on top of its size (a mutant).
ConvertNotionalAdds(k, policy, notional, price) ==
    RoundQty(k, notional * QtyScale, price, k.rounding_mode)
      + MinimumQty(k, price)

\* convert_notional for a positive price and step: a quantity, or None where the
\* order is skipped.
ConvertNotional(k, policy, notional, price) ==
    LET qty == RoundQty(k, notional * QtyScale, price, k.rounding_mode)
    IN  IF ~BelowMinimum(k, qty, price) THEN qty
        ELSE IF policy = "SKIP" THEN None
        ELSE MinimumQty(k, price)

----------------------------------------------------------------------------
(* Funding controls and gates.                                              *)

\* estimate_funding_cost; never negative.
FundingCost(direction, notional, rates, hours, interval) ==
    LET eth_side == IF direction = "LongEthShortBtc" THEN 1 ELSE -1
    IN  Most(0, eth_side * CeilDiv(hours, interval)
                  * (rates["eth"] * notional["eth"] - rates["btc"] * notional["btc"]))

FundingKnown(bar) == bar.rates # None

BarFundingCost(s, bar, notional) ==
    IF FundingKnown(bar)
    THEN FundingCost(bar.direction, notional, bar.rates, s.max_hold_hours,
                     IF bar.interval = None THEN 8 ELSE bar.interval)
    ELSE 0

\* The capital of the Size mode is computed and never used.
ControlsMissing(s) ==
    \/ "Filter" \in s.modes /\ s.funding_cost_threshold = None
    \/ "Threshold" \in s.modes /\ s.funding_threshold_k = None
    \/ "Size" \in s.modes /\ (s.funding_size_alpha = None \/ s.c_min_ratio = None)

FundingFilter(s, cost) ==
    "Filter" \in s.modes /\ cost > s.funding_cost_threshold

\* The z-score does not reach entry_z and k times the cost per notional.
FundingThreshold(s, z, cost, capital) ==
    /\ "Threshold" \in s.modes
    /\ IF capital > 0
       THEN capital * (Abs(z) - s.entry_z)
              < CeilDiv(s.funding_threshold_k * cost, BpsScale)
       ELSE Abs(z) < s.entry_z

\* SpreadHalfLifeTracker: a half-life is known once its window is full.
RegimeBlocks(s, half_life) ==
    /\ s.regime_gate
    /\ ~(half_life # None /\ half_life <= s.max_half_life_bars)

\* The expected edge pays for fees, funding and the margin of the direction.
CostGatePass(s, bar, cost, capital) ==
    LET expected == Most(0, Abs(bar.z) - s.tp_z) * bar.sigma
        required == s.entry_fee_bps + s.exit_fee_bps + s.cost_slippage_bps
                      + s.cost_spread_bps + s.min_net_edge_bps
                      + s.extra_bps[bar.direction]
    IN  IF capital > 0
        THEN capital * (expected - Hundred * required) >= Hundred * cost
        ELSE expected >= Hundred * required

CostGateBlocks(s, bar, cost, capital) ==
    s.cost_gate /\ s.enforce /\ ~CostGatePass(s, bar, cost, capital)

----------------------------------------------------------------------------
(* The orders.                                                              *)

\* A market order stays away from the price (a mutant).
LimitPriceInside(s, side, price) ==
    price * (BpsScale - Sign(side) * s.slippage_bps)

\* limit_price: market orders cross the price by slippage_bps, post-only orders
\* stay away from it.
LimitPrice(s, side, price) ==
    LET shift == [Market |-> Sign(side) * s.slippage_bps,
                  Limit |-> 0,
                  PostOnly |-> -Sign(side) * s.post_only_bps]
    IN  price * (BpsScale + shift[s.order_type])

EntryOrder(s, bar, leg, qty) ==
    LET side == EntrySide(bar.direction, leg)
    IN  [leg |-> leg, side |-> side, qty |-> qty, order_type |-> s.order_type,
         reference |-> bar.prices[leg],
         limit_price |-> LimitPrice(s, side, bar.prices[leg]),
         reduce_only |-> FALSE]

\* The orders of a call.
Orders ==
    [leg : Legs, side : Sides, qty : Int,
     order_type : SettingTypes.order_type, reference : Nat, limit_price : Int,
     reduce_only : BOOLEAN]

Error(why) == [kind |-> "error", why |-> why]

Blocked(why) == [kind |-> "blocked", why |-> why]

\* ETH first, and BTC only once ETH has a size.
SizedOrders(config, notional, bar) ==
    LET s == config.settings
        k == config.constraints
        qty(leg) == ConvertNotional(k[leg], s.min_size_policy, notional[leg],
                                    bar.prices[leg])
    IN  IF k["eth"].step_size <= 0 THEN Error("constraints")
        ELSE IF qty("eth") = None THEN Blocked("BelowMinSizeEth")
        ELSE IF k["btc"].step_size <= 0 THEN Error("constraints")
        ELSE IF qty("btc") = None THEN Blocked("BelowMinSizeBtc")
        ELSE [kind |-> "orders",
              orders |-> <<EntryOrder(s, bar, "eth", qty("eth")),
                           EntryOrder(s, bar, "btc", qty("btc"))>>]

\* The gates, once capital and notionals are known.
Gated(config, bar, capital, notional, cost) ==
    LET s == config.settings
    IN  IF FundingKnown(bar) /\ ControlsMissing(s) THEN Error("funding_config")
        ELSE IF FundingKnown(bar) /\ FundingFilter(s, cost)
        THEN Blocked("FundingFilter")
        ELSE IF FundingKnown(bar) /\ FundingThreshold(s, bar.z, cost, capital)
        THEN Blocked("FundingThreshold")
        ELSE IF RegimeBlocks(s, bar.half_life) THEN Blocked("RegimeGate")
        ELSE IF CostGateBlocks(s, bar, cost, capital) THEN Blocked("CostGate")
        ELSE SizedOrders(config, notional, bar)

\* What process_bar makes of an entry signal: an error ends the run.
Decision(config, bar) ==
    LET s == config.settings
        capital == Capital(s, bar)
        notional == Notional(capital, bar.vols)
    IN  IF bar.vols = None THEN Blocked("VolatilityUnavailable")
        ELSE IF s.c_mode = "EquityRatio" /\ Equity(s, bar) = None
        THEN Error("equity")
        ELSE IF ~CapitalConfigured(s) THEN Error("capital_config")
        ELSE IF s.max_notional # None /\ capital > s.max_notional
        THEN Error("max_notional")
        ELSE IF FundingKnown(bar) /\ bar.interval = 0 THEN Error("interval")
        ELSE Gated(config, bar, capital, notional,
                   BarFundingCost(s, bar, notional))
=============================================================================
