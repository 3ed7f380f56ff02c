----------------------------- MODULE MCOrderPath ----------------------------
\* Constants for TLC: settings files that change one thing or two, bars with an
\* entry signal, lone legs, and a market on both sides of the ladder's reach.
EXTENDS OrderPath

Settings(r) == [settings |-> r, constraints |-> <<>>]

EthConstraint(settings, r) ==
    [settings |-> settings, constraints |-> [leg \in {"eth"} |-> r]]

Halved == [BothWays(Hundred) EXCEPT !["LongEthShortBtc"] = 50]

CostlyLong == [BothWays(0) EXCEPT !["LongEthShortBtc"] = 76]

\* Accepted ones; capital of 400 is too little for the ETH leg, of 800 for BTC.
GoodFiles ==
    {Settings(<<>>),
     Settings([leverage |-> 3, private_key |-> "key"]),
     Settings([order_type |-> "PostOnly", max_notional |-> 60000]),
     Settings([c_mode |-> "EquityRatio", equity_ratio_k |-> 50]),
     Settings([c_value |-> 400]),
     Settings([c_value |-> 800]),
     Settings([c_value |-> 400, max_notional |-> 400, min_size_policy |-> "ADJUST"]),
     Settings([max_notional |-> 30000, multiplier |-> Halved]),
     Settings([paper |-> TRUE, c_mode |-> "EquityRatio", equity_ratio_k |-> 50,
               equity_value |-> 50000]),
     Settings([modes |-> {"Filter", "Threshold", "Size"},
               funding_cost_threshold |-> 4000000]),
     Settings([disable_funding |-> TRUE, modes |-> {"Threshold"}, order_type |-> "Limit"]),
     Settings([cost_gate |-> TRUE, enforce |-> TRUE, entry_fee_bps |-> 10,
               exit_fee_bps |-> 10, extra_bps |-> CostlyLong, modes |-> {}]),
     Settings([regime_gate |-> TRUE, lookback_bars |-> 3]),
     EthConstraint([max_notional |-> 50000],
                   [step_size |-> 5, rounding_mode |-> "ROUND"]),
     EthConstraint([max_notional |-> 50000],
                   [step_size |-> 4, rounding_mode |-> "CEIL", qty_unit |-> 10]),
     EthConstraint([c_value |-> 40, min_size_policy |-> "ADJUST"],
                   [min_qty |-> 1, min_notional |-> 1])}

\* Refused ones, for every group of checks.
BadFiles ==
    {Settings([sl_z |-> 150]),
     Settings([stale_cross |-> TRUE, max_age_bars |-> 0]),
     Settings([persistent_extreme |-> TRUE]),
     Settings([sigma_floor_quantile_p |-> 101]),
     Settings([c_mode |-> "EquityRatio"]), Settings([max_notional |-> 0]),
     Settings([c_min_ratio |-> 101]), Settings([exit_fee_bps |-> -1]),
     Settings([interval_secs |-> 0]), Settings([trade_format |-> "Json"]),
     Settings([price_db_path |-> "blank"]),
     EthConstraint(<<>>, [step_size |-> 0])}

MCFiles == GoodFiles \cup BadFiles

Bar(direction, z, equity, rates, half_life) ==
    [direction |-> direction, z |-> z, sigma |-> 30,
     vols |-> [leg \in Legs |-> IF leg = "eth" THEN 2 ELSE 1],
     prices |-> [leg \in Legs |-> IF leg = "eth" THEN 20000 ELSE 60000],
     equity |-> equity, rates |-> rates,
     interval |-> None, half_life |-> half_life]

\* A short position in ETH pays on both legs, a long one is paid.
Rates == [leg \in Legs |-> IF leg = "eth" THEN -10 ELSE 10]

\* Without rates, with rates that cost something, with rates that pay, and
\* without any volatility; only just a signal, or a strong one.
MCBars ==
    {Bar("LongEthShortBtc", -160, None, None, None),
     Bar("ShortEthLongBtc", 150, 90000, Rates, 5),
     Bar("LongEthShortBtc", -300, 90000, Rates, 5),
     [Bar("ShortEthLongBtc", 200, 90000, None, 50)
        EXCEPT !.vols = [leg \in Legs |-> 0]]}

MCLeftovers == {[leg |-> "eth", qty |-> -100, entry_price |-> 20000],
                [leg |-> "btc", qty |-> 7, entry_price |-> 60000]}

MCMoves == {48, 60}

MCLots == [leg \in Legs |-> IF leg = "eth" THEN 10 ELSE 1]
=============================================================================
