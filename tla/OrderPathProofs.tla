------------------------- MODULE OrderPathProofs ------------------------
(***************************************************************************)
(* From a settings file to the exchange (EntryDecision, OrderPath), proved *)
(* for every file whose values have their types, every bar and lone leg,   *)
(* any market, retry budget, limiter, latency and number of faults.        *)
(***************************************************************************)
EXTENDS OrderPath, TLAPS

----------------------------------------------------------------------------
(* Settings have their types, whatever a file sets.                         *)

LEMMA OverFirst ==
    ASSUME NEW f, NEW g, NEW name, name \in DOMAIN f
    PROVE  name \in DOMAIN Over(f, g) /\ Over(f, g)[name] = f[name]
  BY DEF Over

LEMMA OverSecond ==
    ASSUME NEW f, NEW g, NEW name, name \notin DOMAIN f, name \in DOMAIN g
    PROVE  name \in DOMAIN Over(f, g) /\ Over(f, g)[name] = g[name]
  BY DEF Over

SizingNames ==
    {"c_mode", "c_value", "equity_value", "equity_ratio_k", "max_notional",
     "min_size_policy"}

FundingNames ==
    {"funding_cost_threshold", "funding_threshold_k", "funding_size_alpha", "c_min_ratio"}

OrderNames == {"order_type", "slippage_bps", "post_only_bps"}

LEMMA Names ==
    DOMAIN SettingTypes = SizingNames \cup {"multiplier"} \cup FundingNames \cup OrderNames
  BY DEF SettingTypes, SizingNames, FundingNames, OrderNames

LEMMA DefaultTypes ==
    \A name \in DOMAIN SettingTypes :
      /\ name \in DOMAIN DefaultConfig.settings
      /\ DefaultConfig.settings[name] \in SettingTypes[name]
  <1> DEFINE funding == Over(DirectionalSizingDefaults, FundingDefaults)
             rest == Over(SignalDefaults,
                       Over(CostGateDefaults, Over(RegimeGateDefaults, ProcessDefaults)))
             second == Over(ExecutionDefaults, rest)
             all == Over(SizingDefaults, second)
  <1>1. DefaultConfig.settings = all
    BY DEF DefaultConfig
  <1>2. SizingDefaults = Over(PositionDefaults, funding)
    BY DEF SizingDefaults
  <1>3. /\ SizingNames \subseteq DOMAIN PositionDefaults
        /\ \A name \in SizingNames : PositionDefaults[name] \in SettingTypes[name]
    BY DEF SizingNames, PositionDefaults, SettingTypes
  <1>4. /\ "multiplier" \notin DOMAIN PositionDefaults
        /\ "multiplier" \in DOMAIN DirectionalSizingDefaults
        /\ DirectionalSizingDefaults["multiplier"] \in SettingTypes["multiplier"]
    BY DEF PositionDefaults, DirectionalSizingDefaults, SettingTypes, BothWays, Hundred
  <1>5. /\ \A name \in FundingNames :
             /\ name \notin DOMAIN PositionDefaults
             /\ name \notin DOMAIN DirectionalSizingDefaults
        /\ FundingNames \subseteq DOMAIN FundingDefaults
        /\ \A name \in FundingNames : FundingDefaults[name] \in SettingTypes[name]
    BY DEF FundingNames, PositionDefaults, DirectionalSizingDefaults, FundingDefaults,
           SettingTypes
  <1>6. /\ \A name \in OrderNames :
             /\ name \notin DOMAIN PositionDefaults
             /\ name \notin DOMAIN DirectionalSizingDefaults
             /\ name \notin DOMAIN FundingDefaults
        /\ OrderNames \subseteq DOMAIN ExecutionDefaults
        /\ \A name \in OrderNames : ExecutionDefaults[name] \in SettingTypes[name]
    BY DEF OrderNames, PositionDefaults, DirectionalSizingDefaults, FundingDefaults,
           ExecutionDefaults, SettingTypes, BpsScale
  <1> HIDE DEF funding, rest, second, all
  <1>7. ASSUME NEW name \in SizingNames
        PROVE  name \in DOMAIN all /\ all[name] = PositionDefaults[name]
    <2>1. name \in DOMAIN SizingDefaults /\ SizingDefaults[name] = PositionDefaults[name]
      BY <1>2, <1>3, OverFirst
    <2> QED
      BY <2>1, OverFirst DEF all
  <1>8. "multiplier" \in DOMAIN all
        /\ all["multiplier"] = DirectionalSizingDefaults["multiplier"]
    <2>1. "multiplier" \in DOMAIN funding
          /\ funding["multiplier"] = DirectionalSizingDefaults["multiplier"]
      BY <1>4, OverFirst DEF funding
    <2>2. "multiplier" \in DOMAIN SizingDefaults
          /\ SizingDefaults["multiplier"] = funding["multiplier"]
      BY <1>2, <1>4, <2>1, OverSecond
    <2> QED
      BY <2>1, <2>2, OverFirst DEF all
  <1>9. ASSUME NEW name \in FundingNames
        PROVE  name \in DOMAIN all /\ all[name] = FundingDefaults[name]
    <2>1. name \in DOMAIN funding /\ funding[name] = FundingDefaults[name]
      BY <1>5, OverSecond DEF funding
    <2>2. name \in DOMAIN SizingDefaults /\ SizingDefaults[name] = funding[name]
      BY <1>2, <1>5, <2>1, OverSecond
    <2> QED
      BY <2>1, <2>2, OverFirst DEF all
  <1>10. ASSUME NEW name \in OrderNames
         PROVE  name \in DOMAIN all /\ all[name] = ExecutionDefaults[name]
    <2>1. name \notin DOMAIN funding
      BY <1>6 DEF funding, Over
    <2>2. name \notin DOMAIN SizingDefaults
      BY <1>2, <1>6, <2>1 DEF Over
    <2>3. name \in DOMAIN second /\ second[name] = ExecutionDefaults[name]
      BY <1>6, OverFirst DEF second
    <2> QED
      BY <2>2, <2>3, OverSecond DEF all
  <1> QED
    BY <1>1, <1>3, <1>4, <1>5, <1>6, <1>7, <1>8, <1>9, <1>10, Names


SettingsOK(s) ==
    \A name \in DOMAIN SettingTypes : name \in DOMAIN s /\ s[name] \in SettingTypes[name]

ConstraintsOK(k) ==
    \A name \in DOMAIN ConstraintTypes : name \in DOMAIN k /\ k[name] \in ConstraintTypes[name]

ConfigOK(c) ==
    SettingsOK(c.settings) /\ \A leg \in Legs : ConstraintsOK(c.constraints[leg])

LEMMA DefaultsOK == ConfigOK(DefaultConfig)
  <1>1. ConstraintsOK(ConstraintDefaults)
    BY DEF ConstraintsOK, ConstraintDefaults, ConstraintTypes
  <1>2. \A leg \in Legs : DefaultConfig.constraints[leg] = ConstraintDefaults
    BY DEF DefaultConfig
  <1>3. SettingsOK(DefaultConfig.settings)
    BY DefaultTypes DEF SettingsOK
  <1> QED
    BY <1>1, <1>2, <1>3 DEF ConfigOK

LEMMA OverriddenOK ==
    ASSUME NEW c, ConfigOK(c), NEW file, WellTyped(file)
    PROVE  ConfigOK(Overridden(c, file))
  <1> DEFINE new == Overridden(c, file)
  <1>1. SettingsOK(new.settings)
    <2>1. new.settings = Over(file.settings, c.settings)
      BY DEF Overridden
    <2>2. ASSUME NEW name \in DOMAIN SettingTypes
          PROVE  /\ name \in DOMAIN Over(file.settings, c.settings)
                 /\ Over(file.settings, c.settings)[name] \in SettingTypes[name]
      <3>1. name \in DOMAIN c.settings /\ c.settings[name] \in SettingTypes[name]
        BY DEF ConfigOK, SettingsOK
      <3>2. CASE name \in DOMAIN file.settings
        BY <3>2, OverFirst DEF WellTyped
      <3>3. CASE name \notin DOMAIN file.settings
        BY <3>1, <3>3, OverSecond
      <3> QED
        BY <3>2, <3>3
    <2> QED
      BY <2>1, <2>2 DEF SettingsOK
  <1>2. ASSUME NEW leg \in Legs PROVE ConstraintsOK(new.constraints[leg])
    <2>1. ConstraintsOK(c.constraints[leg])
      BY DEF ConfigOK
    <2>2. CASE leg \in DOMAIN file.constraints
      <3>1. new.constraints[leg] = Over(file.constraints[leg], c.constraints[leg])
        BY <2>2 DEF Overridden
      <3>2. ASSUME NEW name \in DOMAIN ConstraintTypes
            PROVE  /\ name \in DOMAIN Over(file.constraints[leg], c.constraints[leg])
                   /\ Over(file.constraints[leg], c.constraints[leg])[name]
                        \in ConstraintTypes[name]
        <4>1. /\ name \in DOMAIN c.constraints[leg]
              /\ c.constraints[leg][name] \in ConstraintTypes[name]
          BY <2>1 DEF ConstraintsOK
        <4>2. CASE name \in DOMAIN file.constraints[leg]
          BY <2>2, <4>2, OverFirst DEF WellTyped
        <4>3. CASE name \notin DOMAIN file.constraints[leg]
          BY <4>1, <4>3, OverSecond
        <4> QED
          BY <4>2, <4>3
      <3> QED
        BY <3>1, <3>2 DEF ConstraintsOK
    <2>3. CASE leg \notin DOMAIN file.constraints
      <3>1. new.constraints[leg] = c.constraints[leg]
        BY <2>3 DEF Overridden
      <3> QED
        BY <2>1, <3>1
    <2> QED
      BY <2>2, <2>3
  <1> QED
    BY <1>1, <1>2 DEF ConfigOK

LEMMA SettingsFacts ==
    ASSUME NEW s, SettingsOK(s)
    PROVE  /\ s.c_mode \in {"FixedNotional", "EquityRatio"}
           /\ s.c_value \in Int
           /\ s.equity_value \in Int \cup {None} /\ s.equity_ratio_k \in Int \cup {None}
           /\ s.max_notional \in Int \cup {None}
           /\ s.min_size_policy \in {"SKIP", "ADJUST"}
           /\ s.multiplier \in [TradeDirections -> Int]
           /\ s.funding_cost_threshold \in Int /\ s.funding_threshold_k \in Int
           /\ s.funding_size_alpha \in Int /\ s.c_min_ratio \in Int
           /\ s.order_type \in {"Market", "Limit", "PostOnly"}
           /\ s.slippage_bps \in Nat /\ s.slippage_bps <= BpsScale
           /\ s.post_only_bps \in Nat /\ s.post_only_bps <= BpsScale
  <1> USE DEF SettingsOK, SettingTypes
  <1>1. s["c_mode"] \in {"FixedNotional", "EquityRatio"} /\ s["c_value"] \in Int
    OBVIOUS
  <1>2. s["equity_value"] \in Int \cup {None} /\ s["equity_ratio_k"] \in Int \cup {None}
    OBVIOUS
  <1>3. s["max_notional"] \in Int \cup {None} /\ s["min_size_policy"] \in {"SKIP", "ADJUST"}
    OBVIOUS
  <1>4. s["multiplier"] \in [TradeDirections -> Int]
    OBVIOUS
  <1>5. s["funding_cost_threshold"] \in Int /\ s["funding_threshold_k"] \in Int
    OBVIOUS
  <1>6. s["funding_size_alpha"] \in Int /\ s["c_min_ratio"] \in Int
    OBVIOUS
  <1>7. s["order_type"] \in {"Market", "Limit", "PostOnly"}
    OBVIOUS
  <1>8. s["slippage_bps"] \in 0..(BpsScale - 1) /\ s["post_only_bps"] \in 0..(BpsScale - 1)
    OBVIOUS
  <1> HIDE DEF SettingsOK, SettingTypes
  <1>9. /\ s["slippage_bps"] \in Nat /\ s["slippage_bps"] <= BpsScale
        /\ s["post_only_bps"] \in Nat /\ s["post_only_bps"] <= BpsScale
    <2>1. \A n \in 0..(BpsScale - 1) : n \in Nat /\ n <= BpsScale
      BY DEF BpsScale
    <2> QED
      BY <1>8, <2>1
  <1> QED
    BY <1>1, <1>2, <1>3, <1>4, <1>5, <1>6, <1>7, <1>8, <1>9

LEMMA ConstraintFacts ==
    ASSUME NEW k, ConstraintsOK(k)
    PROVE  /\ k.min_qty \in Int /\ k.min_notional \in Int /\ k.step_size \in Int
           /\ k.qty_unit \in Nat \ {0} /\ k.rounding_mode \in {"FLOOR", "CEIL", "ROUND"}
  <1> USE DEF ConstraintsOK, ConstraintTypes
  <1>1. k["min_qty"] \in Int /\ k["min_notional"] \in Int /\ k["step_size"] \in Int
    OBVIOUS
  <1>2. k["qty_unit"] \in Nat \ {0}
    OBVIOUS
  <1>3. k["rounding_mode"] \in {"FLOOR", "CEIL", "ROUND"}
    OBVIOUS
  <1> HIDE DEF ConstraintsOK, ConstraintTypes
  <1> QED
    BY <1>1, <1>2, <1>3

----------------------------------------------------------------------------
(* Sizes.                                                                   *)

LEMMA Division ==
    ASSUME NEW n \in Int, NEW d \in Nat \ {0}
    PROVE  /\ n \div d \in Int
           /\ d * (n \div d) <= n /\ n < d * (n \div d) + d
           /\ (n \div d) * d = d * (n \div d)
           /\ n >= 0 => n \div d >= 0
  <1>1. n \div d \in Int /\ d * (n \div d) <= n /\ n < d * (n \div d) + d
    OBVIOUS
  <1>2. (n \div d) * d = d * (n \div d)
    BY <1>1
  <1>3. ASSUME n >= 0, n \div d < 0 PROVE FALSE
    <2>1. d * (n \div d) + d <= 0
      <3>1. \A a \in Int : a < 0 => d * a + d <= 0
        <4> SUFFICES ASSUME NEW a \in Int, a < 0 PROVE d * a + d <= 0
          OBVIOUS
        <4>1. d * (a + 1) <= 0
          OBVIOUS
        <4>2. d * (a + 1) = d * a + d
          OBVIOUS
        <4> QED
          BY <4>1, <4>2
      <3> QED
        BY <1>1, <1>3, <3>1
    <2> QED
      BY <1>1, <1>3, <2>1
  <1> QED
    BY <1>1, <1>2, <1>3

LEMMA RoundedInt ==
    ASSUME NEW n \in Int, NEW d \in Nat \ {0}, NEW unit \in Nat \ {0}, NEW mode
    PROVE  Rounded(n, d, unit, mode) \in Int
  <1>1. d * unit \in Nat \ {0}
    OBVIOUS
  <1>2. n \div (d * unit) \in Int
    BY <1>1, Division
  <1> DEFINE down == n \div (d * unit)
  <1>3. /\ down \in Int
        /\ \A b \in {0, 1} : (down + b) * unit \in Int
    BY <1>2
  <1> HIDE DEF down
  <1> QED
    BY <1>3 DEF Rounded, down

LEMMA RoundQtyInt ==
    ASSUME NEW k, ConstraintsOK(k), k.step_size > 0,
           NEW n \in Int, NEW d \in Nat \ {0}, NEW mode
    PROVE  RoundQty(k, n, d, mode) \in Int
  <1>1. k.step_size \in Nat \ {0} /\ k.qty_unit \in Nat \ {0}
    BY ConstraintFacts
  <1>2. Rounded(n, d, k.step_size, mode) \in Int
    BY <1>1, RoundedInt
  <1>3. Rounded(Rounded(n, d, k.step_size, mode), 1, k.qty_unit, "ROUND") \in Int
    BY <1>1, <1>2, RoundedInt
  <1> QED
    BY <1>3 DEF RoundQty

LEMMA MinimumQtyInt ==
    ASSUME NEW k, ConstraintsOK(k), k.step_size > 0, NEW price \in Nat \ {0}
    PROVE  MinimumQty(k, price) \in Int
  <1>1. k.min_notional * QtyScale \in Int /\ k.min_qty \in Int
    BY ConstraintFacts DEF QtyScale
  <1>2. RoundQty(k, k.min_notional * QtyScale, price, "CEIL") \in Int
    BY <1>1, RoundQtyInt
  <1>3. RoundQty(k, k.min_qty, 1, "CEIL") \in Int
    BY <1>1, RoundQtyInt
  <1> QED
    BY <1>2, <1>3 DEF MinimumQty

LEMMA ConvertedInt ==
    ASSUME NEW k, ConstraintsOK(k), k.step_size > 0, NEW policy,
           NEW notional \in Int, NEW price \in Nat \ {0}
    PROVE  ConvertNotional(k, policy, notional, price) \in Int \cup {None}
  <1>1. notional * QtyScale \in Int
    BY DEF QtyScale
  <1>2. RoundQty(k, notional * QtyScale, price, k.rounding_mode) \in Int
    BY <1>1, RoundQtyInt
  <1>3. MinimumQty(k, price) \in Int
    BY MinimumQtyInt
  <1> QED
    BY <1>2, <1>3 DEF ConvertNotional

\* What rounding adds to a size, and what that is worth.
LEMMA RoundedWorth ==
    ASSUME NEW n \in Int, NEW d \in Nat \ {0}, NEW unit \in Nat \ {0},
           NEW mode \in {"FLOOR", "ROUND", "CEIL"}
    PROVE  2 * (Rounded(n, d, unit, mode) * d - n)
             <= [FLOOR |-> 0, ROUND |-> 1, CEIL |-> 2][mode] * (d * unit)
  <1> DEFINE whole == d * unit
             down == n \div whole
             rest == 2 * (n - down * d * unit)
             up == \/ mode = "CEIL" /\ rest > 0
                   \/ mode = "ROUND" /\ rest > whole
                   \/ mode = "ROUND" /\ rest = whole /\ down % 2 = 1
             bit == IF up THEN 1 ELSE 0
             most == [FLOOR |-> 0, ROUND |-> 1, CEIL |-> 2][mode]
  <1>1. whole \in Nat \ {0}
    OBVIOUS
  <1>2. down \in Int /\ whole * down <= n /\ n < whole * down + whole
    BY <1>1, Division
  <1>3. Rounded(n, d, unit, mode) = (down + bit) * unit
    BY DEF Rounded
  <1>4. down * d * unit = whole * down /\ (down + bit) * unit * d = whole * (down + bit)
    <2>1. bit \in Int
      OBVIOUS
    <2> HIDE DEF down, bit
    <2> QED
      BY <1>2, <2>1
  <1>5. PICK w \in Nat, q \in Int : w = whole /\ q = whole * down
    <2> HIDE DEF whole, down
    <2>1. whole * down \in Int
      BY <1>1, <1>2
    <2> QED
      BY <1>1, <2>1
  <1>6. rest = 2 * (n - q) /\ q <= n /\ n < q + w
    BY <1>2, <1>4, <1>5
  <1>7. whole * (down + bit) = IF up THEN q + w ELSE q
    <2> HIDE DEF whole, down, up
    <2> QED
      BY <1>1, <1>2, <1>5
  <1>8. PICK x \in Int : x = (down + bit) * unit * d /\ x = IF up THEN q + w ELSE q
    BY <1>4, <1>5, <1>7
  <1>9. Rounded(n, d, unit, mode) * d = x
    BY <1>3, <1>8
  <1>10. 2 * (x - n) <= most * w
    <2>1. CASE mode = "FLOOR"
      BY <1>5, <1>6, <1>8, <2>1
    <2>2. CASE mode = "ROUND"
      <3>1. up => rest >= w
        BY <1>5, <1>6, <2>2
      <3> HIDE DEF rest, up
      <3> QED
        BY <1>6, <1>8, <2>2, <3>1
    <2>3. CASE mode = "CEIL"
      BY <1>5, <1>6, <1>8, <2>3
    <2> QED
      BY <2>1, <2>2, <2>3
  <1> QED
    BY <1>5, <1>9, <1>10

\* So much for the step, and then for the precision.
LEMMA RoundQtyWorth ==
    ASSUME NEW k, ConstraintsOK(k), k.step_size > 0, NEW n \in Int, NEW d \in Nat \ {0},
           NEW mode \in {"FLOOR", "ROUND", "CEIL"}
    PROVE  2 * (RoundQty(k, n, d, mode) * d - n) <= Slack(k, mode) * d
  <1>1. PICK step \in Nat \ {0}, unit \in Nat \ {0} : step = k.step_size /\ unit = k.qty_unit
    BY ConstraintFacts
  <1>2. PICK most \in Nat : most = [FLOOR |-> 0, ROUND |-> 1, CEIL |-> 2][mode]
    OBVIOUS
  <1>3. PICK x \in Int : x = Rounded(n, d, step, mode)
    BY RoundedInt
  <1>4. 2 * (x * d - n) <= most * (d * step)
    BY <1>2, <1>3, RoundedWorth
  <1>5. PICK y \in Int : y = Rounded(x, 1, unit, "ROUND")
    BY RoundedInt
  <1>6. 2 * (y * 1 - x) <= 1 * (1 * unit)
    <2>1. 2 * (y * 1 - x) <= [FLOOR |-> 0, ROUND |-> 1, CEIL |-> 2]["ROUND"] * (1 * unit)
      BY <1>5, RoundedWorth
    <2> QED
      BY <2>1
  <1>7. PICK half \in Nat : half = unit \div 2 /\ y - x <= half
    BY <1>6
  <1>8. RoundQty(k, n, d, mode) = y
    BY <1>1, <1>3, <1>5 DEF RoundQty
  <1>9. Slack(k, mode) = most * step + 2 * half
    BY <1>1, <1>2, <1>7 DEF Slack
  <1>10. (y - x) * d <= half * d
    <2>1. (half - (y - x)) * d >= 0
      <3>1. half - (y - x) \in Nat
        BY <1>7
      <3> QED
        BY <3>1
    <2> QED
      BY <2>1
  <1>11. PICK a \in Int, b \in Int, c \in Int, e \in Int :
           a = x * d /\ b = y * d /\ c = most * (d * step) /\ e = half * d
    OBVIOUS
  <1>12. (y - x) * d = b - a /\ (most * step + 2 * half) * d = c + 2 * e
    BY <1>11
  <1>13. 2 * (b - n) <= c + 2 * e
    BY <1>4, <1>10, <1>11, <1>12
  <1> QED
    BY <1>8, <1>9, <1>11, <1>12, <1>13

LEMMA Money ==
    ASSUME NEW k, ConstraintsOK(k), k.step_size > 0, NEW price \in Nat
    PROVE  /\ k.min_notional * QtyScale \in Int /\ k.min_qty * price \in Int
           /\ MinimumWorth(k, price) \in Int
           /\ MinimumWorth(k, price) \in {k.min_notional * QtyScale, k.min_qty * price}
           /\ MinimumWorth(k, price) >= k.min_notional * QtyScale
           /\ MinimumWorth(k, price) >= k.min_qty * price
           /\ \A mode \in {"FLOOR", "ROUND", "CEIL"} :
                Slack(k, mode) \in Int /\ Slack(k, mode) <= Slack(k, "CEIL")
  <1>1. k.min_notional \in Int /\ k.min_qty \in Int /\ k.step_size \in Int
        /\ k.qty_unit \in Nat \ {0}
    BY ConstraintFacts
  <1>2. k.min_notional * QtyScale \in Int /\ k.min_qty * price \in Int
    BY <1>1 DEF QtyScale
  <1>3. \A a, b \in Int : Most(a, b) \in {a, b} /\ Most(a, b) >= a /\ Most(a, b) >= b
    BY DEF Most, Max
  <1>4. /\ Slack(k, "FLOOR") = 0 * k.step_size + 2 * (k.qty_unit \div 2)
        /\ Slack(k, "ROUND") = 1 * k.step_size + 2 * (k.qty_unit \div 2)
        /\ Slack(k, "CEIL") = 2 * k.step_size + 2 * (k.qty_unit \div 2)
    BY DEF Slack
  <1>5. k.qty_unit \div 2 \in Int
    BY <1>1
  <1>6. \A mode \in {"FLOOR", "ROUND", "CEIL"} :
          Slack(k, mode) \in Int /\ Slack(k, mode) <= Slack(k, "CEIL")
    BY <1>1, <1>4, <1>5
  <1>7. \A a, b \in Int : Most(a, b) \in Int
    BY <1>3
  <1>8. PICK a \in Int, b \in Int : a = k.min_notional * QtyScale /\ b = k.min_qty * price
    BY <1>2
  <1> QED
    BY <1>3, <1>6, <1>7, <1>8 DEF MinimumWorth

\* The smallest order is worth what the constraints ask for, rounded up.
LEMMA MinimumQtyWorth ==
    ASSUME NEW k, ConstraintsOK(k), k.step_size > 0, NEW price \in Nat \ {0}
    PROVE  WorthAtMost(k, "CEIL", MinimumQty(k, price), price, MinimumWorth(k, price))
  <1>1. PICK a \in Int, m \in Int, b \in Int :
          a = k.min_notional * QtyScale /\ m = k.min_qty /\ b = m * price
    BY Money, ConstraintFacts
  <1>2. /\ MinimumWorth(k, price) \in {a, b}
        /\ MinimumWorth(k, price) >= a /\ MinimumWorth(k, price) >= b
    BY <1>1, Money
  <1>3. MinimumQty(k, price) \in Int
    BY MinimumQtyInt
  <1>4. PICK slack \in Int : slack = Slack(k, "CEIL")
    BY Money
  <1>5. CASE a > b
    <2>1. MinimumQty(k, price) = RoundQty(k, a, price, "CEIL")
      BY <1>1, <1>5 DEF MinimumQty
    <2>2. MinimumWorth(k, price) = a
      BY <1>2, <1>5
    <2> QED
      BY <2>1, <2>2, RoundQtyWorth DEF WorthAtMost
  <1>6. CASE ~(a > b)
    <2>1. MinimumQty(k, price) = RoundQty(k, m, 1, "CEIL")
      BY <1>1, <1>6 DEF MinimumQty
    <2>2. MinimumWorth(k, price) = b
      BY <1>2, <1>6
    <2>3. PICK q \in Int : q = MinimumQty(k, price)
      BY <1>3
    <2>4. 2 * (q * 1 - m) <= slack * 1
      BY <1>4, <2>1, <2>3, RoundQtyWorth
    <2>5. (slack - 2 * (q - m)) * price >= 0
      <3>1. slack - 2 * (q - m) \in Nat
        BY <2>4
      <3> QED
        BY <3>1
    <2>6. 2 * (q * price - m * price) <= slack * price
      BY <2>5
    <2> QED
      BY <1>1, <1>4, <2>2, <2>3, <2>6 DEF WorthAtMost
  <1> QED
    BY <1>5, <1>6

\* A size is worth its share but for rounding, or is the smallest one.
LEMMA Converted ==
    ASSUME NEW k, ConstraintsOK(k), k.step_size > 0, NEW policy \in {"SKIP", "ADJUST"},
           NEW notional \in Int, NEW price \in Nat \ {0},
           ConvertNotional(k, policy, notional, price) # None
    PROVE  LET qty == ConvertNotional(k, policy, notional, price)
           IN  \/ WorthAtMost(k, k.rounding_mode, qty, price, QtyScale * notional)
               \/ /\ policy = "ADJUST"
                  /\ WorthAtMost(k, "CEIL", qty, price, MinimumWorth(k, price))
  <1>1. notional * QtyScale \in Int /\ notional * QtyScale = QtyScale * notional
    BY DEF QtyScale
  <1>2. k.rounding_mode \in {"FLOOR", "ROUND", "CEIL"}
    BY ConstraintFacts
  <1>3. WorthAtMost(k, k.rounding_mode,
                    RoundQty(k, notional * QtyScale, price, k.rounding_mode), price,
                    QtyScale * notional)
    BY <1>1, <1>2, RoundQtyWorth DEF WorthAtMost
  <1> QED
    BY <1>3, MinimumQtyWorth DEF ConvertNotional

----------------------------------------------------------------------------
(* Capital and the share of a leg.                                          *)

LEMMA BarFacts ==
    ASSUME NEW bar \in BarRecords
    PROVE  /\ bar.direction \in TradeDirections
           /\ bar.vols \in [Legs -> Int] \cup {None}
           /\ bar.prices["eth"] \in Nat \ {0} /\ bar.prices["btc"] \in Nat \ {0}
           /\ bar.equity \in Int \cup {None}
  BY DEF BarRecords, Legs

LEMMA CapitalInt ==
    ASSUME NEW s, SettingsOK(s), NEW bar \in BarRecords, CapitalConfigured(s),
           s.c_mode = "EquityRatio" => Equity(s, bar) # None
    PROVE  Capital(s, bar) \in Int
  <1>1. s.multiplier[bar.direction] \in Int
    BY SettingsFacts, BarFacts
  <1>2. ASSUME NEW a \in Int PROVE a \div Hundred \in Int
    BY DEF Hundred
  <1>3. ASSUME NEW a \in Int, NEW b \in Int PROVE (a * b) \div Hundred \in Int
    BY <1>2
  <1>4. CASE s.c_mode = "FixedNotional"
    BY <1>1, <1>3, <1>4, SettingsFacts DEF Capital
  <1>5. CASE s.c_mode = "EquityRatio"
    <2>1. s.equity_ratio_k \in Int
      BY <1>5, SettingsFacts DEF CapitalConfigured
    <2>2. Equity(s, bar) \in Int
      BY <1>5, SettingsFacts, BarFacts DEF Equity
    <2>3. (Equity(s, bar) * s.equity_ratio_k) \div Hundred \in Int
      BY <2>1, <2>2, <1>3
    <2> QED
      BY <1>1, <1>3, <1>5, <2>3 DEF Capital
  <1> QED
    BY <1>4, <1>5, SettingsFacts

LEMMA Quotient ==
    ASSUME NEW n \in Int, NEW d \in Nat \ {0}, NEW a \in Int
    PROVE  /\ n <= a * d => n \div d <= a
           /\ a * d <= n => a <= n \div d
  <1>1. PICK q \in Int : q = n \div d /\ d * q <= n /\ n < d * q + d
    BY Division
  <1>2. ASSUME n <= a * d, q > a PROVE FALSE
    <2>1. (q - a) * d >= 1 * d
      <3>1. (q - a - 1) * d >= 0
        <4>1. q - a - 1 \in Nat
          BY <1>2
        <4> QED
          BY <4>1
      <3> QED
        BY <3>1
    <2>2. PICK x \in Int, y \in Int : x = a * d /\ y = d * q
      OBVIOUS
    <2>3. (q - a) * d = y - x
      BY <2>2
    <2> QED
      BY <1>1, <1>2, <2>1, <2>2, <2>3
  <1>3. ASSUME a * d <= n, a > q PROVE FALSE
    <2>1. (a - q) * d >= 1 * d
      <3>1. (a - q - 1) * d >= 0
        <4>1. a - q - 1 \in Nat
          BY <1>3
        <4> QED
          BY <4>1
      <3> QED
        BY <3>1
    <2>2. PICK x \in Int, y \in Int : x = a * d /\ y = d * q
      OBVIOUS
    <2>3. (a - q) * d = x - y
      BY <2>2
    <2> QED
      BY <1>1, <1>3, <2>1, <2>2, <2>3
  <1> QED
    BY <1>1, <1>2, <1>3

\* The shares add up to the capital, and have its sign.
LEMMA Shares ==
    ASSUME NEW capital \in Int, NEW vols \in [Legs -> Int]
    PROVE  /\ Notional(capital, vols)["eth"] \in Int
           /\ Notional(capital, vols)["btc"] \in Int
           /\ Notional(capital, vols)["eth"] + Notional(capital, vols)["btc"] = capital
           /\ \A leg \in Legs : IF capital >= 0 THEN Notional(capital, vols)[leg] >= 0
                                ELSE Notional(capital, vols)[leg] <= 0
  <1> DEFINE even == \E leg \in Legs : vols[leg] <= 0
             eth == IF even THEN capital \div 2
                    ELSE (capital * vols["btc"]) \div (vols["eth"] + vols["btc"])
  <1>1. /\ eth \in Int
        /\ IF capital >= 0 THEN 0 <= eth /\ eth <= capital ELSE capital <= eth /\ eth <= 0
    <2>1. vols["eth"] \in Int /\ vols["btc"] \in Int
      BY DEF Legs
    <2>2. CASE even
      BY <2>2
    <2>3. CASE ~even
      <3>1. PICK x \in Nat \ {0}, y \in Nat \ {0} : x = vols["eth"] /\ y = vols["btc"]
        BY <2>1, <2>3 DEF Legs
      <3>2. PICK n \in Int : n = capital * y
        OBVIOUS
      <3>3. eth = n \div (x + y)
        BY <2>3, <3>1, <3>2
      <3>4. x + y \in Nat \ {0} /\ n \div (x + y) \in Int
        <4>1. x + y \in Nat \ {0}
          OBVIOUS
        <4> QED
          BY <4>1, Division
      <3>5. PICK whole \in Int, part \in Int :
              whole = capital * (x + y) /\ part = capital * x /\ whole = part + n
        BY <3>2
      <3>6. CASE capital >= 0
        <4>1. part >= 0 /\ n >= 0
          BY <3>2, <3>5, <3>6
        <4>2. 0 * (x + y) <= n /\ n <= capital * (x + y)
          BY <3>5, <4>1
        <4>3. 0 <= n \div (x + y) /\ n \div (x + y) <= capital
          BY <3>4, <4>2, Quotient
        <4> QED
          BY <3>3, <3>4, <3>6, <4>3
      <3>7. CASE capital < 0
        <4>1. part <= 0 /\ n <= 0
          <5>1. -capital \in Nat
            BY <3>7
          <5>2. (-capital) * x >= 0 /\ (-capital) * y >= 0
            BY <5>1
          <5> QED
            BY <3>2, <3>5, <5>2
        <4>2. n <= 0 * (x + y) /\ capital * (x + y) <= n
          BY <3>5, <4>1
        <4>3. capital <= n \div (x + y) /\ n \div (x + y) <= 0
          BY <3>4, <4>2, Quotient
        <4> QED
          BY <3>3, <3>4, <3>7, <4>3
      <3> QED
        BY <3>6, <3>7
    <2> QED
      BY <2>2, <2>3
  <1>2. Notional(capital, vols) = [leg \in Legs |-> IF leg = "eth" THEN eth ELSE capital - eth]
    BY DEF Notional
  <1> HIDE DEF eth
  <1>3. /\ Notional(capital, vols)["eth"] = eth
        /\ Notional(capital, vols)["btc"] = capital - eth
    BY <1>2 DEF Legs
  <1> QED
    BY <1>1, <1>3 DEF Legs

----------------------------------------------------------------------------
(* Orders and decisions.                                                    *)

\* An order that can be sent: a market order's limit price is a price, and on
\* the far side of the reference; a resting order's is on the near side.
OrderOK(o) ==
    LET beyond == Sign(o.side) * (o.limit_price - BpsScale * o.reference)
    IN  /\ o \in Orders
        /\ o.order_type = "Market" => o.limit_price >= 0 /\ beyond >= 0
        /\ o.order_type # "Market" => beyond <= 0

LEMMA Shifted ==
    ASSUME NEW price \in Nat, NEW bps \in Nat, bps <= 10000
    PROVE  /\ price * (10000 + bps) \in Nat /\ price * (10000 - bps) \in Nat
           /\ price * (10000 + bps) - 10000 * price >= 0
           /\ price * (10000 - bps) - 10000 * price <= 0
  <1>1. PICK d \in Nat : d = price * bps
    OBVIOUS
  <1>2. price * (10000 + bps) = 10000 * price + d
    BY <1>1
  <1>3. price * (10000 - bps) = 10000 * price - d
    BY <1>1
  <1>4. price * (10000 - bps) \in Nat
    <2>1. 10000 - bps \in Nat
      OBVIOUS
    <2> QED
      BY <2>1
  <1> QED
    BY <1>1, <1>2, <1>3, <1>4

LEMMA LimitPrices ==
    ASSUME NEW s, SettingsOK(s), NEW side \in Sides, NEW price \in Nat \ {0}
    PROVE  LET limit == LimitPrice(s, side, price)
               beyond == Sign(side) * (limit - BpsScale * price)
           IN  /\ limit \in Int
               /\ s.order_type = "Market" => limit >= 0 /\ beyond >= 0
               /\ s.order_type # "Market" => beyond <= 0
  <1> DEFINE shift == [Market |-> Sign(side) * s.slippage_bps,
                       Limit |-> 0,
                       PostOnly |-> -Sign(side) * s.post_only_bps]
             limit == LimitPrice(s, side, price)
             beyond == Sign(side) * (limit - 10000 * price)
  <1>1. PICK slip \in Nat, off \in Nat :
          slip = s.slippage_bps /\ off = s.post_only_bps /\ slip <= 10000 /\ off <= 10000
    BY SettingsFacts DEF BpsScale
  <1>2. s.order_type \in {"Market", "Limit", "PostOnly"}
    BY SettingsFacts
  <1>3. limit = price * (10000 + shift[s.order_type])
    BY DEF LimitPrice, BpsScale
  <1>4. /\ shift["Market"] = Sign(side) * slip
        /\ shift["Limit"] = 0
        /\ shift["PostOnly"] = -Sign(side) * off
    BY <1>1
  <1>5. Sign(side) \in {1, -1}
    BY DEF Sign
  <1> HIDE DEF shift, limit
  <1>6. CASE s.order_type = "Limit"
    <2>1. limit = 10000 * price
      BY <1>3, <1>4, <1>6
    <2> QED
      BY <1>5, <1>6, <2>1 DEF limit, BpsScale
  <1>7. CASE s.order_type = "Market"
    <2>1. PICK up \in Nat, down \in Nat :
            /\ up = price * (10000 + slip) /\ down = price * (10000 - slip)
            /\ up - 10000 * price >= 0 /\ down - 10000 * price <= 0
      BY <1>1, Shifted
    <2>2. limit = IF Sign(side) = 1 THEN up ELSE down
      <3>1. CASE Sign(side) = 1
        BY <1>3, <1>4, <1>7, <2>1, <3>1
      <3>2. CASE Sign(side) = -1
        <4>1. 10000 + (-1) * slip = 10000 - slip
          OBVIOUS
        <4> QED
          BY <1>3, <1>4, <1>7, <2>1, <3>2, <4>1
      <3> QED
        BY <1>5, <3>1, <3>2
    <2> QED
      BY <1>5, <1>7, <2>1, <2>2 DEF limit, BpsScale
  <1>8. CASE s.order_type = "PostOnly"
    <2>1. PICK up \in Nat, down \in Nat :
            /\ up = price * (10000 + off) /\ down = price * (10000 - off)
            /\ up - 10000 * price >= 0 /\ down - 10000 * price <= 0
      BY <1>1, Shifted
    <2>2. limit = IF Sign(side) = 1 THEN down ELSE up
      <3>1. CASE Sign(side) = 1
        <4>1. 10000 + (-1 * off) = 10000 - off
          OBVIOUS
        <4> QED
          BY <1>3, <1>4, <1>8, <2>1, <3>1, <4>1
      <3>2. CASE Sign(side) = -1
        <4>1. 10000 + (-(-1) * off) = 10000 + off
          OBVIOUS
        <4> QED
          BY <1>3, <1>4, <1>8, <2>1, <3>2, <4>1
      <3> QED
        BY <1>5, <3>1, <3>2
    <2> QED
      BY <1>5, <1>8, <2>1, <2>2 DEF limit, BpsScale
  <1> QED
    BY <1>2, <1>6, <1>7, <1>8

LEMMA EntryOrderOK ==
    ASSUME NEW s, SettingsOK(s), NEW bar \in BarRecords, NEW leg \in Legs, NEW qty \in Int
    PROVE  /\ OrderOK(EntryOrder(s, bar, leg, qty))
           /\ EntryOrder(s, bar, leg, qty).leg = leg
           /\ EntryOrder(s, bar, leg, qty).qty = qty
  <1> DEFINE side == EntrySide(bar.direction, leg)
             price == bar.prices[leg]
             limit == LimitPrice(s, side, price)
             o == EntryOrder(s, bar, leg, qty)
  <1>1. side \in Sides
    BY DEF EntrySide, Sides
  <1>2. price \in Nat \ {0}
    BY BarFacts DEF Legs
  <1>3. /\ limit \in Int
        /\ s.order_type = "Market" =>
             limit >= 0 /\ Sign(side) * (limit - BpsScale * price) >= 0
        /\ s.order_type # "Market" => Sign(side) * (limit - BpsScale * price) <= 0
    BY <1>1, <1>2, LimitPrices
  <1>4. s.order_type \in SettingTypes.order_type
    BY SettingsFacts DEF SettingTypes
  <1>5. o = [leg |-> leg, side |-> side, qty |-> qty, order_type |-> s.order_type,
             reference |-> price, limit_price |-> limit, reduce_only |-> FALSE]
    BY DEF EntryOrder
  <1> HIDE DEF side, price, limit, o
  <1>6. o \in Orders
    BY <1>1, <1>2, <1>3, <1>4, <1>5 DEF Orders
  <1>7. o.leg = leg /\ o.qty = qty /\ o.order_type = s.order_type
        /\ o.limit_price = limit /\ o.side = side /\ o.reference = price
    BY <1>5
  <1>8. OrderOK(o)
    BY <1>3, <1>6, <1>7 DEF OrderOK
  <1> QED
    BY <1>7, <1>8 DEF o

LEMMA RepairOrderOK ==
    ASSUME NEW leftover \in Leftovers
    PROVE  OrderOK([leg |-> leftover.leg,
                    side |-> CloseForQty(leftover.qty),
                    qty |-> Abs(leftover.qty),
                    order_type |-> "Market",
                    reference |-> leftover.entry_price,
                    limit_price |-> leftover.entry_price * BpsScale,
                    reduce_only |-> TRUE])
  <1>1. /\ leftover.leg \in Legs /\ leftover.qty \in Int
        /\ leftover.entry_price \in Nat \ {0}
    BY OrderPathAssumption
  <1>2. CloseForQty(leftover.qty) \in Sides /\ Abs(leftover.qty) \in Int
    BY <1>1 DEF CloseForQty, Sides, Abs
  <1>3. "Market" \in SettingTypes.order_type
    BY DEF SettingTypes
  <1>4. PICK limit \in Nat : /\ limit = leftover.entry_price * BpsScale
                           /\ limit = BpsScale * leftover.entry_price
    BY <1>1 DEF BpsScale
  <1>5. Sign(CloseForQty(leftover.qty)) * (limit - limit) >= 0
    BY DEF Sign
  <1> QED
    BY <1>1, <1>2, <1>3, <1>4, <1>5 DEF OrderOK, Orders

\* The size of a leg whose share of the capital is notional[leg].
SizeOf(c, notional, bar, leg) ==
    ConvertNotional(c.constraints[leg], c.settings.min_size_policy, notional[leg],
                    bar.prices[leg])

\* The two orders that share out the capital.
PairOf(c, notional, bar, pair) ==
    /\ SizeOf(c, notional, bar, "eth") # None /\ SizeOf(c, notional, bar, "btc") # None
    /\ pair = <<EntryOrder(c.settings, bar, "eth", SizeOf(c, notional, bar, "eth")),
                EntryOrder(c.settings, bar, "btc", SizeOf(c, notional, bar, "btc"))>>

\* Nothing but orders of these sizes, or no orders at all.
SizedOrBlocked(c, notional, bar, d) ==
    \/ d.kind = "blocked"
    \/ d.kind = "orders" /\ PairOf(c, notional, bar, d.orders)

LEMMA BlockedKind ==
    ASSUME NEW why
    PROVE  Blocked(why).kind = "blocked"
  BY DEF Blocked

LEMMA ErrorKind ==
    ASSUME NEW why
    PROVE  Error(why).kind = "error" /\ Error(why).why = why
  BY DEF Error

LEMMA Sized ==
    ASSUME NEW c, ConfigOK(c), Valid(c), NEW notional, NEW bar
    PROVE  SizedOrBlocked(c, notional, bar, SizedOrders(c, notional, bar))
  <1> DEFINE eth == SizeOf(c, notional, bar, "eth")
             btc == SizeOf(c, notional, bar, "btc")
             pair == <<EntryOrder(c.settings, bar, "eth", eth),
                       EntryOrder(c.settings, bar, "btc", btc)>>
  <1>1. c.constraints["eth"].step_size > 0 /\ c.constraints["btc"].step_size > 0
    BY DEF Valid, ConstraintsValid, Legs
  <1>2. /\ ~(c.constraints["eth"].step_size <= 0)
        /\ ~(c.constraints["btc"].step_size <= 0)
    <2>1. c.constraints["eth"].step_size \in Int /\ c.constraints["btc"].step_size \in Int
      BY ConstraintFacts DEF ConfigOK, Legs
    <2> QED
      BY <1>1, <2>1
  <1>3. SizedOrders(c, notional, bar) =
          IF eth = None THEN Blocked("BelowMinSizeEth")
          ELSE IF btc = None THEN Blocked("BelowMinSizeBtc")
          ELSE [kind |-> "orders", orders |-> pair]
    BY <1>2 DEF SizedOrders, SizeOf
  <1> HIDE DEF eth, btc, pair
  <1>4. CASE eth = None \/ btc = None
    BY <1>3, <1>4, BlockedKind DEF SizedOrBlocked
  <1>5. CASE eth # None /\ btc # None
    <2>1. SizedOrders(c, notional, bar) = [kind |-> "orders", orders |-> pair]
      BY <1>3, <1>5
    <2>2. PairOf(c, notional, bar, pair)
      BY <1>5 DEF PairOf, eth, btc, pair
    <2> QED
      BY <2>1, <2>2 DEF SizedOrBlocked
  <1> QED
    BY <1>4, <1>5

\* A file cannot take the parameters of the funding modes away.
LEMMA ControlsThere ==
    ASSUME NEW s, SettingsOK(s)
    PROVE  ~ControlsMissing(s)
  <1>1. /\ s.funding_cost_threshold \in Int /\ s.funding_threshold_k \in Int
        /\ s.funding_size_alpha \in Int /\ s.c_min_ratio \in Int
    BY SettingsFacts
  <1>2. None \notin Int
    BY NoneAssumption
  <1> QED
    BY <1>1, <1>2 DEF ControlsMissing

LEMMA GatedDecision ==
    ASSUME NEW c, ConfigOK(c), Valid(c), NEW bar, NEW capital, NEW notional, NEW cost
    PROVE  SizedOrBlocked(c, notional, bar, Gated(c, bar, capital, notional, cost))
  <1> DEFINE s == c.settings
  <1>1. ~ControlsMissing(s)
    BY ControlsThere DEF ConfigOK
  <1>2. Gated(c, bar, capital, notional, cost) =
          IF FundingKnown(bar) /\ FundingFilter(s, cost) THEN Blocked("FundingFilter")
          ELSE IF FundingKnown(bar) /\ FundingThreshold(s, bar.z, cost, capital)
          THEN Blocked("FundingThreshold")
          ELSE IF RegimeBlocks(s, bar.half_life) THEN Blocked("RegimeGate")
          ELSE IF CostGateBlocks(s, bar, cost, capital) THEN Blocked("CostGate")
          ELSE SizedOrders(c, notional, bar)
    BY <1>1 DEF Gated
  <1>3. \/ Gated(c, bar, capital, notional, cost).kind = "blocked"
        \/ Gated(c, bar, capital, notional, cost) = SizedOrders(c, notional, bar)
    <2> HIDE DEF s
    <2> QED
      BY <1>2, BlockedKind
  <1> QED
    BY <1>3, Sized DEF SizedOrBlocked

\* What a decision can be, under settings that were accepted.
LEMMA Decisions ==
    ASSUME NEW c, ConfigOK(c), Valid(c), NEW bar \in BarRecords
    PROVE  LET d == Decision(c, bar)
               capital == Capital(c.settings, bar)
               notional == Notional(capital, bar.vols)
           IN  \/ d.kind = "error" /\ d.why \in {"max_notional", "equity", "interval"}
               \/ d.kind = "blocked"
               \/ /\ d.kind = "orders"
                  /\ bar.vols \in [Legs -> Int] /\ capital \in Int
                  /\ c.settings.max_notional # None => capital <= c.settings.max_notional
                  /\ PairOf(c, notional, bar, d.orders)
  <1> DEFINE s == c.settings
             d == Decision(c, bar)
             capital == Capital(s, bar)
             notional == Notional(capital, bar.vols)
             cost == BarFundingCost(s, bar, notional)
             final == Gated(c, bar, capital, notional, cost)
             fine == d.kind = "error" /\ d.why \in {"max_notional", "equity", "interval"}
  <1>1. CapitalConfigured(s) /\ SettingsOK(s)
    BY DEF Valid, PositionValid, ConfigOK
  <1>2. d = IF bar.vols = None THEN Blocked("VolatilityUnavailable")
            ELSE IF s.c_mode = "EquityRatio" /\ Equity(s, bar) = None THEN Error("equity")
            ELSE IF s.max_notional # None /\ capital > s.max_notional
            THEN Error("max_notional")
            ELSE IF FundingKnown(bar) /\ bar.interval = 0 THEN Error("interval")
            ELSE final
    BY <1>1 DEF Decision
  <1>3. SizedOrBlocked(c, notional, bar, final)
    BY GatedDecision
  <1>4. bar.vols \in [Legs -> Int] \cup {None}
    BY BarFacts
  <1>5. (s.c_mode = "EquityRatio" => Equity(s, bar) # None) => capital \in Int
    BY <1>1, CapitalInt
  <1>6. s.max_notional \in Int \cup {None}
    BY <1>1, SettingsFacts
  <1> HIDE DEF s, d, capital, notional, cost, final
  <1>7. CASE bar.vols = None
    BY <1>2, <1>7, BlockedKind DEF s, d, capital, notional
  <1>8. CASE bar.vols # None
    <2>1. bar.vols \in [Legs -> Int]
      BY <1>4, <1>8
    <2>2. CASE s.c_mode = "EquityRatio" /\ Equity(s, bar) = None
      <3>1. d = Error("equity")
        BY <1>2, <1>8, <2>2
      <3>2. fine
        BY <3>1, ErrorKind
      <3> QED
        BY <3>2 DEF d
    <2>3. CASE ~(s.c_mode = "EquityRatio" /\ Equity(s, bar) = None)
      <3>1. capital \in Int
        BY <1>5, <2>3
      <3>2. CASE s.max_notional # None /\ capital > s.max_notional
        <4>1. d = Error("max_notional")
          BY <1>2, <1>8, <2>3, <3>2
        <4>2. fine
          BY <4>1, ErrorKind
        <4> QED
          BY <4>2 DEF d
      <3>3. CASE ~(s.max_notional # None /\ capital > s.max_notional)
        <4>1. s.max_notional # None => capital <= s.max_notional
          BY <1>6, <3>1, <3>3
        <4>2. CASE FundingKnown(bar) /\ bar.interval = 0
          <5>1. d = Error("interval")
            BY <1>2, <1>8, <2>3, <3>3, <4>2
          <5>2. fine
            BY <5>1, ErrorKind
          <5> QED
            BY <5>2 DEF d
        <4>3. CASE ~(FundingKnown(bar) /\ bar.interval = 0)
          <5>1. d = final
            BY <1>2, <1>8, <2>3, <3>3, <4>3
          <5>2. \/ d.kind = "blocked"
                \/ d.kind = "orders" /\ PairOf(c, notional, bar, d.orders)
            BY <1>3, <5>1 DEF SizedOrBlocked
          <5> QED
            BY <2>1, <3>1, <4>1, <5>2 DEF s, d, capital, notional
        <4> QED
          BY <4>2, <4>3
      <3> QED
        BY <3>2, <3>3
    <2> QED
      BY <2>2, <2>3
  <1> QED
    BY <1>7, <1>8

\* Every order of a decision can be sent.
LEMMA PairOK ==
    ASSUME NEW c, ConfigOK(c), Valid(c), NEW bar \in BarRecords, NEW capital \in Int,
           bar.vols \in [Legs -> Int], NEW pair,
           PairOf(c, Notional(capital, bar.vols), bar, pair)
    PROVE  /\ pair \in Seq({o \in Orders : OrderOK(o)}) /\ pair # <<>>
           /\ OrderOK(Head(pair))
  <1> DEFINE notional == Notional(capital, bar.vols)
             s == c.settings
             eth == EntryOrder(s, bar, "eth", SizeOf(c, notional, bar, "eth"))
             btc == EntryOrder(s, bar, "btc", SizeOf(c, notional, bar, "btc"))
  <1>1. notional["eth"] \in Int /\ notional["btc"] \in Int
    BY Shares
  <1>2. bar.prices["eth"] \in Nat \ {0} /\ bar.prices["btc"] \in Nat \ {0}
    BY BarFacts
  <1>3. ASSUME NEW leg \in Legs
        PROVE  ConstraintsOK(c.constraints[leg]) /\ c.constraints[leg].step_size > 0
    BY DEF ConfigOK, Valid, ConstraintsValid
  <1> HIDE DEF notional
  <1>4. /\ SizeOf(c, notional, bar, "eth") \in Int \cup {None}
        /\ SizeOf(c, notional, bar, "btc") \in Int \cup {None}
    BY <1>1, <1>2, <1>3, ConvertedInt DEF SizeOf, Legs
  <1>5. SizeOf(c, notional, bar, "eth") \in Int /\ SizeOf(c, notional, bar, "btc") \in Int
    BY <1>4 DEF PairOf, notional
  <1>6. OrderOK(eth) /\ OrderOK(btc)
    BY <1>5, EntryOrderOK DEF ConfigOK, Legs
  <1>7. pair = <<eth, btc>>
    BY DEF PairOf, notional
  <1> HIDE DEF eth, btc
  <1> QED
    BY <1>6, <1>7 DEF OrderOK


----------------------------------------------------------------------------
(* Prices and sizes of requests.                                            *)

Last == Max({MaxAttempts, 4}) - 1

LEMMA AtLeastFour ==
    /\ Max({MaxAttempts, 4}) \in Nat /\ Max({MaxAttempts, 4}) >= 4
    /\ Max({MaxAttempts, 4}) >= MaxAttempts
  <1>1. MaxAttempts \in Nat
    BY OrderPathAssumption
  <1> QED
    BY <1>1 DEF Max

LEMMA LaterOfTwo ==
    ASSUME NEW a \in Int, NEW b \in Int
    PROVE  Max({a, b}) \in {a, b} /\ Max({a, b}) >= a /\ Max({a, b}) >= b
  BY DEF Max

LEMMA CappedAt120 ==
    ASSUME NEW n \in Int
    PROVE  Min({n, 120}) = IF n <= 120 THEN n ELSE 120
  BY DEF Min

\* The ladder widens from attempt to attempt, and ends on its last rung.
LEMMA Ladder ==
    ASSUME attempt \in 0..Last
    PROVE  /\ Widening \in Nat /\ LastRung \in Nat
           /\ Widening <= LastRung
           /\ attempt = Last => Widening = LastRung
  <1>1. Last \in Nat /\ attempt \in Nat /\ attempt <= Last
    BY AtLeastFour DEF Last
  <1>2. /\ Widening = IF 15 * attempt <= 120 THEN 15 * attempt ELSE 120
        /\ LastRung = IF 15 * Last <= 120 THEN 15 * Last ELSE 120
    <2>1. 15 * attempt \in Int /\ 15 * Last \in Int
      BY <1>1
    <2>2. Min({15 * attempt, 120}) = IF 15 * attempt <= 120 THEN 15 * attempt ELSE 120
      BY <2>1, CappedAt120
    <2>3. Min({15 * Last, 120}) = IF 15 * Last <= 120 THEN 15 * Last ELSE 120
      BY <2>1, CappedAt120
    <2>4. Widening = Min({15 * attempt, 120}) /\ LastRung = Min({15 * Last, 120})
      BY DEF Widening, LastRung, Last
    <2> QED
      BY <2>2, <2>3, <2>4
  <1> QED
    BY <1>1, <1>2

LEMMA Ceiling ==
    ASSUME NEW n \in Int
    PROVE  /\ CeilDiv(n, BpsScale) \in Int
           /\ BpsScale * CeilDiv(n, BpsScale) >= n
           /\ BpsScale * (CeilDiv(n, BpsScale) - 1) < n
  <1>1. ASSUME NEW m \in Int
        PROVE  /\ m \div 10000 \in Int
               /\ 10000 * (m \div 10000) <= m /\ m < 10000 * (m \div 10000) + 10000
    OBVIOUS
  <1>2. CeilDiv(n, BpsScale) = -((-n) \div 10000)
    BY DEF CeilDiv, BpsScale
  <1>3. PICK m \in Int : m = -n
    OBVIOUS
  <1> QED
    BY <1>1, <1>2, <1>3 DEF BpsScale

\* A price is rounded to the side of the market it was widened to, by less than a
\* tick.
LEMMA Aligned ==
    ASSUME NEW n \in Int
    PROVE  /\ AlignPrice("Buy", n) \in Int /\ AlignPrice("Sell", n) \in Int
           /\ BpsScale * AlignPrice("Buy", n) >= n
           /\ BpsScale * (AlignPrice("Buy", n) - 1) < n
           /\ BpsScale * AlignPrice("Sell", n) <= n
           /\ BpsScale * (AlignPrice("Sell", n) + 1) > n
  <1>1. /\ n \div 10000 \in Int
        /\ 10000 * (n \div 10000) <= n /\ n < 10000 * (n \div 10000) + 10000
    OBVIOUS
  <1>2. AlignPrice("Sell", n) = n \div 10000
    BY DEF AlignPrice, BpsScale
  <1>3. AlignPrice("Buy", n) = CeilDiv(n, BpsScale)
    BY DEF AlignPrice
  <1>4. /\ AlignPrice("Sell", n) \in Int
        /\ BpsScale * AlignPrice("Sell", n) <= n
        /\ BpsScale * (AlignPrice("Sell", n) + 1) > n
    BY <1>1, <1>2 DEF BpsScale
  <1> QED
    BY <1>3, <1>4, Ceiling

LEMMA BpsOfInt ==
    ASSUME NEW n \in Int, NEW bps \in Nat
    PROVE  /\ BpsOf(n, bps) \in Int
           /\ n >= 0 => BpsOf(n, bps) >= 0
  <1>1. PICK q \in Int, r \in Nat : /\ q = n \div BpsScale /\ r = n % BpsScale
                                    /\ n >= 0 => q >= 0
    BY DEF BpsScale
  <1>2. PICK a \in Int : a = bps * q /\ (n >= 0 => a >= 0)
    BY <1>1
  <1>3. PICK b \in Nat : b = bps * r
    OBVIOUS
  <1>4. PICK c \in Int : c = CeilDiv(b, BpsScale) /\ BpsScale * c >= b
    BY Ceiling
  <1>5. c >= 0
    BY <1>4 DEF BpsScale
  <1>6. BpsOf(n, bps) = a + c
    BY <1>1, <1>2, <1>3, <1>4 DEF BpsOf
  <1> QED
    BY <1>2, <1>5, <1>6

\* More basis points of a price are no less.
LEMMA BpsOfGrows ==
    ASSUME NEW n \in Nat, NEW low \in Nat, NEW high \in Nat, low <= high
    PROVE  BpsOf(n, low) <= BpsOf(n, high)
  <1>1. PICK q \in Nat, r \in Nat : q = n \div BpsScale /\ r = n % BpsScale
    BY DEF BpsScale
  <1>2. high - low \in Nat
    OBVIOUS
  <1>3. (high - low) * q >= 0 /\ (high - low) * r >= 0
    BY <1>2
  <1>4. PICK a \in Int, b \in Int, c \in Int, d \in Int :
          a = low * q /\ b = high * q /\ c = low * r /\ d = high * r
    OBVIOUS
  <1>5. a <= b /\ c <= d
    BY <1>3, <1>4
  <1>6. PICK x \in Int, y \in Int :
          /\ x = CeilDiv(c, BpsScale) /\ y = CeilDiv(d, BpsScale)
          /\ BpsScale * (x - 1) < c /\ BpsScale * y >= d
    BY Ceiling
  <1>7. x <= y
    BY <1>5, <1>6 DEF BpsScale
  <1>8. BpsOf(n, low) = a + x /\ BpsOf(n, high) = b + y
    BY <1>1, <1>4, <1>6 DEF BpsOf
  <1> QED
    BY <1>5, <1>7, <1>8

LEMMA PriceInt ==
    ASSUME NEW o \in Orders, attempt \in 0..Last
    PROVE  Price(o) \in Int
  <1>1. o.limit_price \in Int /\ o.side \in Sides
    BY DEF Orders
  <1>2. BpsOf(o.limit_price, Widening) \in Int
    BY <1>1, BpsOfInt, Ladder
  <1> DEFINE add == IF o.order_type = "Market"
                    THEN Sign(o.side) * BpsOf(o.limit_price, Widening) ELSE 0
  <1>3. add \in Int
    BY <1>2 DEF Sign
  <1>4. Price(o) = AlignPrice(o.side, o.limit_price + add)
    BY DEF Price
  <1> HIDE DEF add
  <1> QED
    BY <1>1, <1>3, <1>4, Aligned DEF Sides

LEMMA SizeDown ==
    ASSUME NEW o \in Orders
    PROVE  AlignSize(o) \in Int /\ AlignSize(o) <= o.qty
  <1>1. o.qty \in Int /\ Lots[o.leg] \in Nat \ {0}
    BY OrderPathAssumption DEF Orders
  <1>2. /\ o.qty \div Lots[o.leg] \in Int
        /\ Lots[o.leg] * (o.qty \div Lots[o.leg]) <= o.qty
        /\ (o.qty \div Lots[o.leg]) * Lots[o.leg] = Lots[o.leg] * (o.qty \div Lots[o.leg])
    BY <1>1, Division
  <1> QED
    BY <1>1, <1>2 DEF AlignSize

\* Of a market order: its price is beyond the reference, by no more than slippage,
\* the rung and a tick; and it reaches at least as far as the rung.
LEMMA MarketPrices ==
    ASSUME NEW o, OrderOK(o), o.order_type = "Market", attempt \in 0..Last
    PROVE  LET sign == Sign(o.side)
               rung == BpsOf(o.limit_price, Widening)
           IN  /\ sign * (Price(o) - o.reference) >= 0
               /\ BpsScale * (sign * (Price(o) - o.reference) - 1)
                    < sign * (o.limit_price - BpsScale * o.reference) + rung
               /\ sign * (BpsScale * Price(o) - (o.limit_price + sign * rung)) >= 0
  <1>1. /\ o.side \in Sides /\ o.reference \in Nat /\ o.limit_price \in Nat
        /\ Sign(o.side) * (o.limit_price - BpsScale * o.reference) >= 0
    BY DEF OrderOK, Orders
  <1>2. PICK w \in Nat : w = BpsOf(o.limit_price, Widening)
    <2>1. o.limit_price \in Int /\ o.limit_price >= 0
      BY <1>1
    <2>2. BpsOf(o.limit_price, Widening) \in Int /\ BpsOf(o.limit_price, Widening) >= 0
      BY <2>1, BpsOfInt, Ladder
    <2>3. BpsOf(o.limit_price, Widening) \in Nat
      BY <2>2
    <2> QED
      BY <2>3
  <1>3. PICK p \in Nat, r \in Nat : p = o.limit_price /\ r = o.reference
    BY <1>1
  <1>4. PICK x \in Int : x = Price(o)
    <2>1. o \in Orders
      BY DEF OrderOK
    <2> QED
      BY <2>1, PriceInt
  <1>5. x = AlignPrice(o.side, p + Sign(o.side) * w)
    BY <1>2, <1>3, <1>4 DEF Price
  <1>6. CASE o.side = "Buy"
    <2>1. Sign(o.side) = 1
      BY <1>6 DEF Sign
    <2>2. PICK n \in Int : n = p + w /\ n = p + Sign(o.side) * w
      BY <2>1
    <2>3. BpsScale * x >= n /\ BpsScale * (x - 1) < n
      BY <1>5, <1>6, <2>2, Aligned
    <2>4. p >= BpsScale * r
      BY <1>1, <1>3, <2>1 DEF BpsScale
    <2>5. /\ 1 * (x - r) >= 0
          /\ BpsScale * (1 * (x - r) - 1) < 1 * (p - BpsScale * r) + w
          /\ 1 * (BpsScale * x - (p + 1 * w)) >= 0
      BY <2>2, <2>3, <2>4 DEF BpsScale
    <2> QED
      BY <1>2, <1>3, <1>4, <2>1, <2>5
  <1>7. CASE o.side = "Sell"
    <2>1. Sign(o.side) = -1
      BY <1>7 DEF Sign
    <2>2. PICK n \in Int : n = p - w /\ n = p + Sign(o.side) * w
      BY <2>1
    <2>3. BpsScale * x <= n /\ BpsScale * (x + 1) > n
      BY <1>5, <1>7, <2>2, Aligned
    <2>4. p <= BpsScale * r
      BY <1>1, <1>3, <2>1 DEF BpsScale
    <2>5. /\ (-1) * (x - r) >= 0
          /\ BpsScale * ((-1) * (x - r) - 1) < (-1) * (p - BpsScale * r) + w
          /\ (-1) * (BpsScale * x - (p + (-1) * w)) >= 0
      BY <2>2, <2>3, <2>4 DEF BpsScale
    <2> QED
      BY <1>2, <1>3, <1>4, <2>1, <2>5
  <1> QED
    BY <1>1, <1>6, <1>7 DEF Sides

\* Of a resting order: its price is on the near side of the reference, and rounded
\* towards it.
LEMMA RestingPrices ==
    ASSUME NEW o, OrderOK(o), o.order_type # "Market", attempt \in 0..Last
    PROVE  LET beyond == Sign(o.side) * (Price(o) - o.reference)
           IN  /\ beyond <= 0
               /\ BpsScale * beyond >= Sign(o.side) * (o.limit_price - BpsScale * o.reference)
  <1>1. /\ o \in Orders /\ o.side \in Sides /\ o.reference \in Nat /\ o.limit_price \in Int
        /\ Sign(o.side) * (o.limit_price - BpsScale * o.reference) <= 0
    BY DEF OrderOK, Orders
  <1>2. PICK p \in Int, r \in Nat, x \in Int :
          p = o.limit_price /\ r = o.reference /\ x = Price(o)
    BY <1>1, PriceInt
  <1>3. x = AlignPrice(o.side, p)
    BY <1>2 DEF Price
  <1>4. CASE o.side = "Buy"
    <2>1. Sign(o.side) = 1
      BY <1>4 DEF Sign
    <2>2. BpsScale * x >= p /\ BpsScale * (x - 1) < p
      BY <1>2, <1>3, <1>4, Aligned
    <2>3. p <= BpsScale * r
      BY <1>1, <1>2, <2>1 DEF BpsScale
    <2>4. 1 * (x - r) <= 0 /\ BpsScale * (1 * (x - r)) >= 1 * (p - BpsScale * r)
      BY <2>2, <2>3 DEF BpsScale
    <2> QED
      BY <1>2, <2>1, <2>4
  <1>5. CASE o.side = "Sell"
    <2>1. Sign(o.side) = -1
      BY <1>5 DEF Sign
    <2>2. BpsScale * x <= p /\ BpsScale * (x + 1) > p
      BY <1>2, <1>3, <1>5, Aligned
    <2>3. p >= BpsScale * r
      BY <1>1, <1>2, <2>1 DEF BpsScale
    <2>4. (-1) * (x - r) <= 0 /\ BpsScale * ((-1) * (x - r)) >= (-1) * (p - BpsScale * r)
      BY <2>2, <2>3 DEF BpsScale
    <2> QED
      BY <1>2, <2>1, <2>4
  <1> QED
    BY <1>1, <1>4, <1>5 DEF Sides

----------------------------------------------------------------------------
(* The invariant.                                                           *)

Sendable == {o \in Orders : OrderOK(o)}

Accepted == pc \notin {"start", "refused"}

\* Every variable has its type, and what is to be sent can be sent.
StateInv ==
    /\ pc \in {"start", "refused", "idle", "sending", "waiting", "down"}
    /\ orders \in Seq(Sendable)
    /\ pc \in {"sending", "waiting"} <=> orders # <<>>
    /\ attempt \in 0..Last
    /\ delay \in Nat
    /\ request \in {"leverage", "order"}
    /\ move \in Moves \cup {0}
    /\ cached \in BOOLEAN
    /\ limiter \in Nat \cup {None}
    /\ nonce \in Nat /\ clock \in Nat /\ faults \in 0..MaxFaults
    /\ skew \in Int
    /\ sent \in Requests \cup {None}
    /\ gone \in [nonce : Nat, set_back : BOOLEAN]

\* A process past its start has settings that were accepted.
ConfigInv ==
    /\ ConfigOK(config)
    /\ Accepted => Valid(config)
    /\ ~Accepted => verdict = None

\* The request under way is the one this attempt makes.
WaitingInv ==
    pc = "waiting" =>
      /\ cached /\ sent # None /\ sent.request = request
      /\ request = "order" => sent.price = Price(Head(orders))

\* The last nonce is the last request's; a request that did not wait for the asset
\* specs is not later than the limiter believes; and until the wall clock is set
\* back, nonces stay behind it.
ClockInv ==
    /\ sent # None => sent.nonce = nonce
    /\ sent # None /\ sent.cached => limiter # None /\ limiter >= sent.at
    /\ ~gone.set_back =>
         /\ skew = 0 /\ gone.nonce < clock /\ nonce <= clock
         /\ pc \notin {"waiting", "down"} => nonce < clock

\* The last verdict is what the settings make of its bar.
VerdictInv ==
    verdict # None =>
      verdict.bar \in BarRecords /\ verdict.decision = Decision(config, verdict.bar)

PathInv == StateInv /\ ConfigInv /\ WaitingInv /\ ClockInv /\ VerdictInv

LEMMA OrderedInit == Init => PathInv
  <1> SUFFICES ASSUME Init PROVE PathInv
    OBVIOUS
  <1>1. 0 \in 0..Last /\ MaxFaults \in Nat /\ Setback \in Nat
    BY OrderPathAssumption, AtLeastFour DEF Last
  <1>2. StateInv
    <2>1. <<>> \in Seq(Sendable)
      OBVIOUS
    <2>2. 0 \in 0..MaxFaults
      BY <1>1
    <2>3. clock = Setback + 1 /\ clock \in Nat
      BY <1>1 DEF Init
    <2>4. gone \in [nonce : Nat, set_back : BOOLEAN] /\ sent = None
      BY DEF Init
    <2>5. /\ pc = "start" /\ orders = <<>> /\ attempt = 0 /\ delay = 0
          /\ request = "order" /\ move = 0 /\ cached = FALSE /\ limiter = None
          /\ nonce = 0 /\ faults = 0 /\ skew = 0
      BY DEF Init
    <2>6. pc \in {"sending", "waiting"} <=> orders # <<>>
      BY <2>5
    <2>7. limiter \in Nat \cup {None} /\ sent \in Requests \cup {None}
      BY <2>4, <2>5
    <2>8. cached \in BOOLEAN
      BY <2>5
    <2>9. move \in Moves \cup {0} /\ request \in {"leverage", "order"}
      BY <2>5
    <2>10. orders \in Seq(Sendable)
      BY <2>1, <2>5
    <2>11. attempt \in 0..Last /\ faults \in 0..MaxFaults
      BY <1>1, <2>2, <2>5
    <2> QED
      BY <2>3, <2>4, <2>5, <2>6, <2>7, <2>8, <2>9, <2>10, <2>11 DEF StateInv
  <1>3. ConfigInv
    BY DefaultsOK DEF Init, ConfigInv, Accepted
  <1>4. WaitingInv /\ VerdictInv
    BY DEF Init, WaitingInv, VerdictInv
  <1>5. ClockInv
    BY <1>1 DEF Init, ClockInv
  <1> QED
    BY <1>2, <1>3, <1>4, <1>5 DEF PathInv

----------------------------------------------------------------------------
(* What attempts and answers do.                                            *)

\* Until now at least, the call goes on with orders that can be sent or ends.
MovedOn(now) ==
    /\ pc' \in {"idle", "sending", "down"}
    /\ orders' \in Seq(Sendable)
    /\ pc' = "sending" <=> orders' # <<>>
    /\ attempt' \in 0..Last
    /\ delay' \in Nat
    /\ request' \in {"leverage", "order"}
    /\ clock' \in Nat /\ clock' >= now

LEMMA HeadSendable ==
    ASSUME NEW s \in Seq(Sendable), s # <<>>
    PROVE  Head(s) \in Orders /\ OrderOK(Head(s)) /\ Tail(s) \in Seq(Sendable)
  BY DEF Sendable

LEMMA FirstRequests ==
    ASSUME NEW o
    PROVE  FirstRequest(o) \in {"leverage", "order"}
  BY DEF FirstRequest

LEMMA Tries ==
    ASSUME NEW o
    PROVE  Attempts(o) \in Nat /\ Attempts(o) <= Last + 1
  <1>1. MaxAttempts \in Nat
    BY OrderPathAssumption
  <1> QED
    BY <1>1, AtLeastFour DEF Attempts, Last

LEMMA FailedMovesOn ==
    ASSUME StateInv, orders # <<>>, NEW why, NEW now \in Nat, AttemptFailed(why, now)
    PROVE  /\ MovedOn(now)
           /\ \/ given_up' = given_up
              \/ /\ given_up' = [why |-> why, order |-> Head(orders), move |-> move]
                 /\ ~(Retryable(Head(orders), why) /\ attempt + 1 < Attempts(Head(orders)))
  <1> DEFINE o == Head(orders)
             again == Retryable(o, why) /\ attempt + 1 < Attempts(o)
  <1>1. /\ orders \in Seq(Sendable) /\ attempt \in Nat /\ attempt \in 0..Last
        /\ delay \in Nat /\ request \in {"leverage", "order"}
    BY AtLeastFour DEF StateInv, Last
  <1>2. Attempts(o) \in Nat /\ Attempts(o) <= Last + 1 /\ Last \in Nat
    <2>1. Last \in Nat
      BY AtLeastFour DEF Last
    <2> QED
      BY <2>1, Tries
  <1>3. CASE again
    <2>1. /\ attempt' = attempt + 1 /\ request' = FirstRequest(o)
          /\ clock' = now + delay /\ delay' = 2 * delay
          /\ pc' = "sending" /\ orders' = orders /\ given_up' = given_up
      BY <1>3 DEF AttemptFailed
    <2>2. attempt' \in 0..Last
      BY <1>1, <1>2, <1>3, <2>1
    <2>3. clock' \in Nat /\ clock' >= now /\ delay' \in Nat
      BY <1>1, <2>1
    <2> HIDE DEF o
    <2> QED
      BY <1>1, <2>1, <2>2, <2>3, FirstRequests DEF MovedOn
  <1>4. CASE ~again
    <2>1. /\ given_up' = [why |-> why, order |-> o, move |-> move]
          /\ orders' = <<>> /\ clock' = now /\ pc' = "down"
          /\ attempt' = attempt /\ delay' = delay /\ request' = request
      BY <1>4 DEF AttemptFailed, retry_vars
    <2>2. MovedOn(now)
      BY <1>1, <2>1 DEF MovedOn
    <2> QED
      BY <1>4, <2>1, <2>2
  <1> QED
    BY <1>3, <1>4

LEMMA DoneMovesOn ==
    ASSUME StateInv, orders # <<>>, NEW now \in Nat, OrderDone(now)
    PROVE  MovedOn(now) /\ given_up' = given_up
  <1>1. /\ orders \in Seq(Sendable) /\ attempt \in 0..Last
        /\ delay \in Nat /\ request \in {"leverage", "order"}
    BY DEF StateInv
  <1>2. orders' = Tail(orders) /\ orders' \in Seq(Sendable) /\ clock' = now
        /\ given_up' = given_up
    BY <1>1, HeadSendable DEF OrderDone
  <1>3. CASE orders' = <<>>
    <2>1. pc' = "idle" /\ attempt' = attempt /\ delay' = delay /\ request' = request
      BY <1>3 DEF OrderDone, retry_vars
    <2> QED
      BY <1>1, <1>2, <1>3, <2>1 DEF MovedOn
  <1>4. CASE orders' # <<>>
    <2>1. /\ pc' = "sending" /\ attempt' = 0 /\ delay' = BaseDelay
          /\ request' = FirstRequest(Head(orders'))
      BY <1>4 DEF OrderDone
    <2>2. request' \in {"leverage", "order"}
      BY <2>1, FirstRequests
    <2>3. BaseDelay \in Nat /\ 0 \in 0..Last
      BY OrderPathAssumption, AtLeastFour DEF Last
    <2> QED
      BY <1>2, <1>4, <2>1, <2>2, <2>3 DEF MovedOn
  <1> QED
    BY <1>3, <1>4

\* The limiter lets nothing through before its time.
LEMMA Waits ==
    ASSUME StateInv
    PROVE  /\ Waited \in Nat /\ Waited >= clock
           /\ limiter # None => Waited >= limiter + MinInterval
  <1>1. clock \in Nat /\ limiter \in Nat \cup {None} /\ MinInterval \in Nat
    BY OrderPathAssumption DEF StateInv
  <1>2. CASE limiter = None
    BY <1>1, <1>2 DEF Waited
  <1>3. CASE limiter # None
    <2>1. limiter + MinInterval \in Nat
      BY <1>1, <1>3
    <2>2. Waited = Max({clock, limiter + MinInterval})
      BY <1>3 DEF Waited
    <2>3. PICK a \in Nat : a = limiter + MinInterval
      BY <2>1
    <2> QED
      BY <1>1, <2>2, <2>3, LaterOfTwo
  <1> QED
    BY <1>2, <1>3

LEMMA NoncesGrow ==
    ASSUME StateInv, NEW now \in Nat
    PROVE  /\ NextNonce(now) \in Nat /\ NextNonce(now) > nonce
           /\ skew = 0 /\ nonce < now => NextNonce(now) = now
           /\ skew = 0 => NextNonce(now) >= now
  <1>1. nonce \in Nat /\ skew \in Int
    BY DEF StateInv
  <1> QED
    BY <1>1 DEF NextNonce

\* An invariant's other parts when the call moves on and nothing is sent.
LEMMA MovedOnKeeps ==
    ASSUME PathInv, pc \in {"sending", "waiting"}, NEW now \in Nat, now >= clock,
           pc = "waiting" => now > clock,
           MovedOn(now),
           faults' \in 0..MaxFaults, cached' \in BOOLEAN, limiter' \in Nat \cup {None},
           limiter' = limiter \/ (limiter # None => limiter' # None /\ limiter' >= limiter),
           UNCHANGED <<config, move, nonce, skew, verdict, sent, gone>>
    PROVE  PathInv'
  <1> USE DEF PathInv
  <1>1. StateInv'
    BY DEF StateInv, MovedOn
  <1>2. ConfigInv'
    BY DEF ConfigInv, Accepted, MovedOn
  <1>3. WaitingInv'
    BY DEF WaitingInv, MovedOn
  <1>4. ClockInv'
    <2>1. /\ sent' = sent /\ nonce' = nonce /\ skew' = skew /\ gone' = gone
          /\ clock' \in Nat /\ clock \in Nat /\ clock' >= clock /\ nonce \in Nat
          /\ pc = "waiting" => clock' > clock
          /\ gone.nonce \in Nat
      BY DEF StateInv, MovedOn
    <2>2. sent' # None => sent'.nonce = nonce'
      BY <2>1 DEF ClockInv
    <2>3. sent' # None /\ sent'.cached => limiter' # None /\ limiter' >= sent'.at
      <3> SUFFICES ASSUME sent # None, sent.cached
                   PROVE  limiter' # None /\ limiter' >= sent.at
        BY <2>1
      <3>1. limiter # None /\ limiter >= sent.at /\ sent.at \in Nat /\ limiter \in Nat
        BY DEF ClockInv, StateInv, Requests
      <3>2. limiter' # None /\ limiter' >= limiter
        BY <3>1
      <3>3. limiter' \in Nat
        BY <3>2
      <3> QED
        BY <3>1, <3>2, <3>3
    <2>4. ~gone'.set_back =>
            /\ skew' = 0 /\ gone'.nonce < clock' /\ nonce' <= clock'
            /\ pc' \notin {"waiting", "down"} => nonce' < clock'
      BY <2>1 DEF ClockInv
    <2> QED
      BY <2>2, <2>3, <2>4 DEF ClockInv
  <1>5. VerdictInv'
    BY DEF VerdictInv
  <1> QED
    BY <1>1, <1>2, <1>3, <1>4, <1>5


----------------------------------------------------------------------------
(* Each action keeps the invariant.                                         *)

LEMMA KeepsLoadConfig ==
    ASSUME PathInv, NEW file \in Files, NEW key, LoadConfig(file, key)
    PROVE  PathInv'
  <1> USE DEF PathInv
  <1>1. /\ pc' \in {"idle", "refused"}
        /\ pc' = "idle" => Valid(config')
        /\ config' = Overridden(DefaultConfig, file)
    BY DEF LoadConfig
  <1>2. UNCHANGED <<orders, attempt, delay, request, move, cached, limiter, nonce,
                    clock, skew, faults, verdict, sent, gone>>
    BY DEF LoadConfig, retry_vars, process_vars, time_vars, history_vars
  <1>3. pc = "start"
    BY DEF LoadConfig
  <1>4. StateInv'
    BY <1>1, <1>2, <1>3 DEF StateInv
  <1>5. ConfigInv'
    <2>1. ConfigOK(config')
      BY <1>1, DefaultsOK, OverriddenOK, OrderPathAssumption
    <2>2. verdict' = None
      BY <1>2, <1>3 DEF ConfigInv, Accepted
    <2> QED
      BY <1>1, <2>1, <2>2 DEF ConfigInv, Accepted
  <1>6. WaitingInv'
    BY <1>1 DEF WaitingInv
  <1>7. ClockInv'
    BY <1>1, <1>2, <1>3 DEF ClockInv
  <1>8. VerdictInv'
    BY <1>2, <1>3 DEF ConfigInv, Accepted, VerdictInv
  <1> QED
    BY <1>4, <1>5, <1>6, <1>7, <1>8

LEMMA Calls ==
    ASSUME StateInv, pc = "idle", NEW new \in Seq(Sendable), new # <<>>,
           Call(new), clock' = clock
    PROVE  MovedOn(clock) /\ move' \in Moves \cup {0}
  <1>1. /\ orders = <<>> /\ attempt \in 0..Last /\ delay \in Nat
        /\ request \in {"leverage", "order"} /\ move \in Moves \cup {0}
        /\ clock \in Nat /\ orders \in Seq(Sendable)
    BY DEF StateInv
  <1>2. CASE config.settings.paper
    <2>1. UNCHANGED <<pc, orders, attempt, delay, request, move>>
      BY <1>2 DEF Call, retry_vars
    <2> QED
      BY <1>1, <2>1 DEF MovedOn
  <1>3. CASE ~config.settings.paper
    <2>1. /\ orders' = new /\ attempt' = 0 /\ delay' = BaseDelay
          /\ request' = FirstRequest(Head(new)) /\ move' \in Moves /\ pc' = "sending"
      BY <1>3 DEF Call
    <2>2. request' \in {"leverage", "order"}
      BY <2>1, FirstRequests
    <2>3. BaseDelay \in Nat /\ 0 \in 0..Last
      BY OrderPathAssumption, AtLeastFour DEF Last
    <2> QED
      BY <1>1, <2>1, <2>2, <2>3 DEF MovedOn
  <1> QED
    BY <1>2, <1>3

\* Between calls, a step that reads settings and starts a call.
LEMMA CalledKeeps ==
    ASSUME PathInv, pc = "idle", MovedOn(clock), move' \in Moves \cup {0},
           UNCHANGED <<config, cached, limiter, nonce, clock, skew, faults, sent, gone>>
    PROVE  StateInv' /\ WaitingInv' /\ ClockInv' /\ ConfigInv'
  <1> USE DEF PathInv
  <1>1. pc' \in {"idle", "sending", "down"}
    BY DEF MovedOn
  <1>2. StateInv'
    BY DEF StateInv, MovedOn
  <1>3. WaitingInv'
    BY <1>1 DEF WaitingInv
  <1>4. ClockInv'
    BY <1>1 DEF ClockInv
  <1>5. ConfigInv'
    BY <1>1 DEF ConfigInv, Accepted
  <1> QED
    BY <1>2, <1>3, <1>4, <1>5

LEMMA SeenIsABar ==
    ASSUME NEW s, NEW bar \in BarRecords
    PROVE  Seen(s, bar) \in BarRecords
  <1> DEFINE equity == IF ~s.paper /\ s.c_mode = "EquityRatio" THEN bar.equity ELSE None
             rates == IF s.disable_funding THEN None ELSE bar.rates
  <1>1. equity \in Int \cup {None} /\ rates \in [Legs -> Int] \cup {None}
    BY DEF BarRecords
  <1>2. Seen(s, bar) = [bar EXCEPT !.equity = equity, !.rates = rates]
    BY DEF Seen
  <1> HIDE DEF equity, rates
  <1> QED
    BY <1>1, <1>2 DEF BarRecords

LEMMA KeepsSignal ==
    ASSUME PathInv, NEW bar \in Bars, Signal(bar)
    PROVE  PathInv'
  <1> USE DEF PathInv
  <1> DEFINE seen == Seen(config.settings, bar)
             d == Decision(config, seen)
  <1>1. /\ pc = "idle"
        /\ UNCHANGED <<config, cached, limiter, nonce, clock, skew, faults, sent, gone>>
        /\ verdict' = [bar |-> seen, decision |-> d]
        /\ \/ d.kind = "orders" /\ Call(d.orders)
           \/ d.kind = "blocked" /\ UNCHANGED <<pc, orders, retry_vars, move>>
           \/ d.kind = "error" /\ pc' = "down" /\ UNCHANGED <<orders, retry_vars, move>>
    BY DEF Signal, process_vars, time_vars
  <1>2. seen \in BarRecords
    BY SeenIsABar, OrderPathAssumption
  <1>3. ConfigOK(config) /\ Valid(config)
    BY <1>1 DEF ConfigInv, Accepted
  <1>4. /\ orders = <<>> /\ attempt \in 0..Last /\ delay \in Nat
        /\ request \in {"leverage", "order"} /\ move \in Moves \cup {0}
        /\ clock \in Nat /\ orders \in Seq(Sendable)
    BY <1>1 DEF StateInv
  <1>5. MovedOn(clock) /\ move' \in Moves \cup {0}
    <2>1. CASE d.kind = "orders"
      <3>1. Call(d.orders)
        BY <1>1, <2>1
      <3>2. /\ seen.vols \in [Legs -> Int] /\ Capital(config.settings, seen) \in Int
            /\ PairOf(config, Notional(Capital(config.settings, seen), seen.vols), seen,
                      d.orders)
        <4> HIDE DEF seen
        <4> QED
          BY <1>2, <1>3, <2>1, Decisions
      <3>3. d.orders \in Seq(Sendable) /\ d.orders # <<>>
        <4> HIDE DEF seen, d
        <4> QED
          BY <1>2, <1>3, <3>2, PairOK DEF Sendable
      <3> HIDE DEF d, seen
      <3> QED
        BY <1>1, <3>1, <3>3, Calls
    <2>2. CASE d.kind = "blocked"
      <3>1. UNCHANGED <<pc, orders, attempt, delay, request, move>>
        BY <1>1, <2>2 DEF retry_vars
      <3> QED
        BY <1>1, <1>4, <3>1 DEF MovedOn
    <2>3. CASE d.kind = "error"
      <3>1. pc' = "down" /\ UNCHANGED <<orders, attempt, delay, request, move>>
        BY <1>1, <2>3 DEF retry_vars
      <3> QED
        BY <1>1, <1>4, <3>1 DEF MovedOn
    <2> QED
      BY <1>1, <2>1, <2>2, <2>3
  <1>6. StateInv' /\ WaitingInv' /\ ClockInv' /\ ConfigInv'
    BY <1>1, <1>5, CalledKeeps
  <1>7. VerdictInv'
    <2> HIDE DEF seen
    <2> QED
      BY <1>1, <1>2 DEF VerdictInv
  <1> QED
    BY <1>6, <1>7

LEMMA KeepsRepair ==
    ASSUME PathInv, NEW leftover \in Leftovers, Repair(leftover)
    PROVE  PathInv'
  <1> USE DEF PathInv
  <1> DEFINE order == [leg |-> leftover.leg,
                       side |-> CloseForQty(leftover.qty),
                       qty |-> Abs(leftover.qty),
                       order_type |-> "Market",
                       reference |-> leftover.entry_price,
                       limit_price |-> leftover.entry_price * BpsScale,
                       reduce_only |-> TRUE]
  <1>1. /\ pc = "idle" /\ Call(<<order>>)
        /\ UNCHANGED <<config, cached, limiter, nonce, clock, skew, faults, verdict, sent,
                       gone>>
    BY DEF Repair, process_vars, time_vars, history_vars
  <1>2. OrderOK(order)
    BY RepairOrderOK
  <1> HIDE DEF order
  <1>3. <<order>> \in Seq(Sendable) /\ <<order>> # <<>>
    BY <1>2 DEF Sendable, OrderOK
  <1>4. MovedOn(clock) /\ move' \in Moves \cup {0}
    BY <1>1, <1>3, Calls
  <1>5. StateInv' /\ WaitingInv' /\ ClockInv' /\ ConfigInv'
    BY <1>1, <1>4, CalledKeeps
  <1>6. VerdictInv'
    BY <1>1 DEF VerdictInv
  <1> QED
    BY <1>5, <1>6

LEMMA KeepsSendFails ==
    ASSUME PathInv, SendFails
    PROVE  /\ PathInv'
           /\ UNCHANGED <<config, verdict, sent, gone>>
           /\ \/ given_up' = given_up
              \/ given_up'.why # "no_match"
  <1> USE DEF PathInv
  <1>1. /\ pc = "sending" /\ limiter' = Waited
        /\ UNCHANGED <<config, move, nonce, skew, verdict, sent, gone>>
    BY DEF SendFails
  <1>2. orders # <<>> /\ clock \in Nat /\ faults \in 0..MaxFaults /\ cached \in BOOLEAN
    BY <1>1 DEF StateInv
  <1>3. MaxFaults \in Nat /\ LoadTimes \subseteq Nat \ {0}
    BY OrderPathAssumption
  <1>4. Waited \in Nat /\ Waited >= clock
    BY Waits
  <1>5. PICK why \in {"transient", "fatal"}, latency \in Nat :
          /\ AttemptFailed(why, Waited + latency)
          /\ cached' \in BOOLEAN /\ faults' \in 0..MaxFaults
    <2>1. CASE /\ ~cached
               /\ \E why \in {"transient", "fatal"}, latency \in LoadTimes :
                    Fault(why) /\ AttemptFailed(why, Waited + latency)
               /\ UNCHANGED cached
      <3>1. PICK why \in {"transient", "fatal"}, latency \in LoadTimes :
              Fault(why) /\ AttemptFailed(why, Waited + latency)
        BY <2>1
      <3>2. faults' \in 0..MaxFaults
        BY <1>2, <1>3, <3>1 DEF Fault
      <3>3. latency \in Nat
        BY <1>3
      <3> QED
        BY <1>2, <2>1, <3>1, <3>2, <3>3
    <2>2. CASE /\ cached' = TRUE
               /\ \E latency \in SpecTimes : AttemptFailed("fatal", Waited + latency)
               /\ UNCHANGED faults
      <3>1. PICK latency \in SpecTimes : AttemptFailed("fatal", Waited + latency)
        BY <2>2
      <3>2. latency \in Nat
        BY <1>3, <3>1 DEF SpecTimes
      <3> QED
        BY <1>2, <2>2, <3>1, <3>2
    <2> QED
      BY <2>1, <2>2 DEF SendFails
  <1>6. PICK now \in Nat : now = Waited + latency /\ now >= clock
    <2>1. Waited + latency \in Nat /\ Waited + latency >= clock
      BY <1>2, <1>4
    <2> QED
      BY <2>1
  <1>7. /\ MovedOn(now)
        /\ \/ given_up' = given_up
           \/ given_up' = [why |-> why, order |-> Head(orders), move |-> move]
    BY <1>2, <1>5, <1>6, FailedMovesOn
  <1>8. /\ limiter' \in Nat \cup {None}
        /\ limiter # None => limiter' # None /\ limiter' >= limiter
    <2>1. limiter \in Nat \cup {None} /\ MinInterval \in Nat
      BY OrderPathAssumption DEF StateInv
    <2>2. limiter # None => limiter' >= limiter
      BY <1>1, <1>4, <2>1, Waits
    <2>3. None \notin Nat
      BY NoneAssumption
    <2> QED
      BY <1>1, <1>4, <2>2, <2>3
  <1>9. PathInv'
    BY <1>1, <1>5, <1>6, <1>7, <1>8, MovedOnKeeps
  <1> QED
    BY <1>1, <1>5, <1>7, <1>9


\* An answer; the market order given up for want of a match was at its last attempt.
LEMMA KeepsReply ==
    ASSUME PathInv, NEW latency \in Latencies, Reply(latency)
    PROVE  /\ PathInv'
           /\ UNCHANGED <<config, verdict, sent, gone>>
           /\ \/ given_up' = given_up
              \/ given_up'.why # "no_match"
              \/ /\ given_up' = [why |-> "no_match", order |-> Head(orders), move |-> move]
                 /\ request = "order" /\ pc = "waiting" /\ orders # <<>>
                 /\ Head(orders).order_type = "Market"
                 /\ ~Reaches(Head(orders), sent.price)
                 /\ attempt = Last
  <1> USE DEF PathInv
  <1>1. /\ pc = "waiting"
        /\ UNCHANGED <<config, move, cached, limiter, nonce, skew, verdict, sent, gone>>
    BY DEF Reply, process_vars
  <1>2. /\ orders # <<>> /\ clock \in Nat /\ faults \in 0..MaxFaults /\ cached \in BOOLEAN
        /\ limiter \in Nat \cup {None} /\ attempt \in 0..Last /\ delay \in Nat
        /\ orders \in Seq(Sendable)
    BY <1>1 DEF StateInv
  <1>3. MaxFaults \in Nat /\ latency \in Nat \ {0}
    BY OrderPathAssumption
  <1>4. PICK now \in Nat : now = clock + latency /\ now > clock
    <2>1. clock + latency \in Nat /\ clock + latency > clock
      BY <1>2, <1>3
    <2> QED
      BY <2>1
  <1> DEFINE fault == \E why \in {"transient", "fatal"} : Fault(why) /\ AttemptFailed(why, now)
             leverage == /\ request = "leverage" /\ request' = "order"
                         /\ pc' = "sending" /\ clock' = now
                         /\ UNCHANGED <<orders, attempt, delay, faults, given_up>>
             missed == /\ request = "order" /\ Head(orders).order_type = "Market"
                       /\ ~Reaches(Head(orders), sent.price)
                       /\ AttemptFailed("no_match", now) /\ UNCHANGED faults
             done == request = "order" /\ OrderDone(now) /\ UNCHANGED faults
             ending == \/ given_up' = given_up
                       \/ given_up'.why # "no_match"
                       \/ /\ given_up' = [why |-> "no_match", order |-> Head(orders),
                                          move |-> move]
                          /\ request = "order" /\ pc = "waiting" /\ orders # <<>>
                          /\ Head(orders).order_type = "Market"
                          /\ ~Reaches(Head(orders), sent.price)
                          /\ attempt = Last
  <1>5. fault \/ leverage \/ missed \/ done
    BY <1>4 DEF Reply
  <1>6. MovedOn(now) /\ faults' \in 0..MaxFaults /\ ending
    <2>1. CASE fault
      <3>1. PICK why \in {"transient", "fatal"} : Fault(why) /\ AttemptFailed(why, now)
        BY <2>1
      <3>2. faults' \in 0..MaxFaults
        BY <1>2, <1>3, <3>1 DEF Fault
      <3>3. /\ MovedOn(now)
            /\ \/ given_up' = given_up
               \/ given_up' = [why |-> why, order |-> Head(orders), move |-> move]
        BY <1>2, <3>1, FailedMovesOn
      <3>4. why # "no_match"
        OBVIOUS
      <3>5. ending
        BY <3>3, <3>4
      <3> HIDE DEF ending
      <3> QED
        BY <3>2, <3>3, <3>5
    <2>2. CASE leverage
      <3>1. MovedOn(now)
        BY <1>2, <1>4, <2>2 DEF MovedOn
      <3> QED
        BY <1>2, <2>2, <3>1
    <2>3. CASE missed
      <3>1. /\ MovedOn(now)
            /\ \/ given_up' = given_up
               \/ /\ given_up' = [why |-> "no_match", order |-> Head(orders), move |-> move]
                  /\ ~(Retryable(Head(orders), "no_match")
                         /\ attempt + 1 < Attempts(Head(orders)))
        BY <1>2, <2>3, FailedMovesOn
      <3>2. Retryable(Head(orders), "no_match")
        BY <2>3 DEF Retryable
      <3>3. ~(attempt + 1 < Attempts(Head(orders))) => attempt = Last
        <4>1. Attempts(Head(orders)) = Max({MaxAttempts, 4})
          BY <2>3 DEF Attempts
        <4>2. Max({MaxAttempts, 4}) \in Nat
          BY AtLeastFour
        <4>3. PICK m \in Nat : m = Max({MaxAttempts, 4})
          BY <4>2
        <4>4. Last = m - 1
          BY <4>3 DEF Last
        <4> QED
          BY <1>2, <4>1, <4>3, <4>4
      <3>4. ending
        BY <1>1, <1>2, <2>3, <3>1, <3>2, <3>3
      <3>5. faults' \in 0..MaxFaults
        BY <1>2, <2>3
      <3> HIDE DEF ending
      <3> QED
        BY <3>1, <3>4, <3>5
    <2>4. CASE done
      <3>1. MovedOn(now) /\ given_up' = given_up
        BY <1>2, <2>4, DoneMovesOn
      <3> QED
        BY <1>2, <2>4, <3>1
    <2> HIDE DEF fault, leverage, missed, done
    <2> QED
      BY <1>5, <2>1, <2>2, <2>3, <2>4
  <1>7. PathInv'
    <2>1. cached' \in BOOLEAN /\ limiter' \in Nat \cup {None} /\ limiter' = limiter
      BY <1>1, <1>2
    <2> HIDE DEF PathInv, fault, leverage, missed, done, ending
    <2>2. MovedOn(now) /\ faults' \in 0..MaxFaults /\ now >= clock
      BY <1>2, <1>4, <1>6
    <2> QED
      BY <1>1, <1>4, <2>1, <2>2, MovedOnKeeps
  <1> HIDE DEF PathInv
  <1> QED
    BY <1>1, <1>6, <1>7

\* What a request adds to the history, and when.
LEMMA SendEffects ==
    ASSUME PathInv, NEW latency \in LoadTimes \cup {0}, Send(latency)
    PROVE  /\ pc = "sending" /\ orders # <<>> /\ Head(orders) \in Orders
           /\ OrderOK(Head(orders))
           /\ clock' \in Nat /\ limiter' \in Nat /\ limiter' >= clock
           /\ clock' >= limiter' /\ (cached => clock' = limiter')
           /\ limiter # None => clock' >= limiter + MinInterval
           /\ nonce' = NextNonce(clock') /\ nonce' \in Nat /\ nonce' > nonce
           /\ sent' \in Requests /\ sent' # None
           /\ sent'.request = request /\ sent'.nonce = nonce' /\ sent'.at = clock'
           /\ sent'.cached = cached /\ sent'.order = Head(orders)
           /\ sent'.price = Price(Head(orders)) /\ sent'.size = AlignSize(Head(orders))
           /\ pc' = "waiting" /\ cached' = TRUE
           /\ UNCHANGED <<config, orders, attempt, delay, request, move, skew, faults,
                          verdict, gone, given_up>>
           /\ request = "order" => AlignSize(Head(orders)) > 0
  <1> USE DEF PathInv
  <1>1. /\ pc = "sending" /\ latency \in SpecTimes /\ limiter' = Waited
        /\ cached' = TRUE /\ clock' = Waited + latency /\ nonce' = NextNonce(clock')
        /\ sent' = [request |-> request, nonce |-> nonce', at |-> clock',
                    cached |-> cached, order |-> Head(orders), attempt |-> attempt,
                    price |-> Price(Head(orders)), size |-> AlignSize(Head(orders))]
        /\ pc' = "waiting"
        /\ UNCHANGED <<config, orders, attempt, delay, request, move, skew, faults,
                       verdict, gone, given_up>>
        /\ request = "order" => AlignSize(Head(orders)) > 0
    BY DEF Send, retry_vars
  <1>2. /\ orders # <<>> /\ orders \in Seq(Sendable) /\ clock \in Nat
        /\ limiter \in Nat \cup {None} /\ attempt \in 0..Last /\ attempt \in Nat
        /\ request \in {"leverage", "order"} /\ cached \in BOOLEAN /\ nonce \in Nat
    BY <1>1, AtLeastFour DEF StateInv, Last
  <1>3. Head(orders) \in Orders /\ OrderOK(Head(orders))
    BY <1>2, HeadSendable
  <1>4. latency \in Nat /\ (cached => latency = 0)
    BY <1>1, OrderPathAssumption DEF SpecTimes
  <1>5. Waited \in Nat /\ Waited >= clock /\ (limiter # None => Waited >= limiter + MinInterval)
    BY Waits
  <1>6. /\ clock' \in Nat /\ limiter' \in Nat /\ limiter' >= clock
        /\ clock' >= limiter' /\ (cached => clock' = limiter')
    BY <1>1, <1>4, <1>5
  <1>7. limiter # None => clock' >= limiter + MinInterval
    <2>1. MinInterval \in Nat
      BY OrderPathAssumption
    <2> QED
      BY <1>1, <1>2, <1>4, <1>5, <2>1
  <1>8. nonce' \in Nat /\ nonce' > nonce
    BY <1>1, <1>6, NoncesGrow
  <1>9. sent' \in Requests
    <2>1. Price(Head(orders)) \in Int /\ AlignSize(Head(orders)) \in Int
      BY <1>2, <1>3, PriceInt, SizeDown
    <2> QED
      BY <1>1, <1>2, <1>3, <1>6, <1>8, <2>1 DEF Requests
  <1>10. sent' # None
    BY <1>9, NoneAssumption
  <1>11. /\ sent'.request = request /\ sent'.nonce = nonce' /\ sent'.at = clock'
         /\ sent'.cached = cached /\ sent'.order = Head(orders)
         /\ sent'.price = Price(Head(orders)) /\ sent'.size = AlignSize(Head(orders))
    BY <1>1
  <1> HIDE DEF PathInv
  <1> QED
    BY <1>1, <1>2, <1>3, <1>6, <1>7, <1>8, <1>9, <1>10, <1>11

LEMMA KeepsSend ==
    ASSUME PathInv, NEW latency \in LoadTimes \cup {0}, Send(latency)
    PROVE  PathInv'
  <1> USE DEF PathInv
  <1>1. /\ pc = "sending" /\ orders # <<>>
        /\ clock' \in Nat /\ limiter' \in Nat /\ limiter' >= clock
        /\ clock' >= limiter' /\ (cached => clock' = limiter')
        /\ nonce' = NextNonce(clock') /\ nonce' \in Nat
        /\ sent' \in Requests /\ sent' # None /\ sent'.request = request
        /\ sent'.nonce = nonce' /\ sent'.at = clock' /\ sent'.cached = cached
        /\ sent'.price = Price(Head(orders))
        /\ pc' = "waiting" /\ cached' = TRUE
        /\ UNCHANGED <<config, orders, attempt, delay, request, move, skew, faults,
                       verdict, gone>>
    <2> HIDE DEF PathInv
    <2> QED
      BY SendEffects
  <1>2. StateInv'
    BY <1>1 DEF StateInv
  <1>3. ConfigInv'
    BY <1>1 DEF ConfigInv, Accepted
  <1>4. WaitingInv'
    <2>1. Price(Head(orders))' = Price(Head(orders))
      BY <1>1 DEF Price, Widening
    <2> QED
      BY <1>1, <2>1 DEF WaitingInv
  <1>5. ClockInv'
    <2>1. sent'.cached => limiter' >= sent'.at
      BY <1>1 DEF StateInv
    <2>2. limiter' # None
      BY <1>1, NoneAssumption
    <2>3. ~gone.set_back =>
            skew' = 0 /\ gone'.nonce < clock' /\ nonce' <= clock'
      <3> SUFFICES ASSUME ~gone.set_back
                   PROVE  skew' = 0 /\ gone'.nonce < clock' /\ nonce' <= clock'
        OBVIOUS
      <3>1. /\ skew = 0 /\ gone.nonce < clock /\ nonce < clock
            /\ clock \in Nat /\ nonce \in Nat /\ gone.nonce \in Nat
        BY <1>1 DEF ClockInv, StateInv
      <3>2. clock <= clock' /\ nonce < clock' /\ gone.nonce < clock'
        BY <1>1, <3>1
      <3>3. nonce' = clock'
        BY <1>1, <3>1, <3>2, NoncesGrow
      <3> QED
        BY <1>1, <3>1, <3>2, <3>3
    <2> QED
      BY <1>1, <2>1, <2>2, <2>3 DEF ClockInv
  <1>6. VerdictInv'
    BY <1>1 DEF VerdictInv
  <1> QED
    BY <1>2, <1>3, <1>4, <1>5, <1>6

LEMMA KeepsCrash ==
    ASSUME PathInv, Crash
    PROVE  PathInv'
  <1> USE DEF PathInv
  <1>1. /\ pc \in {"sending", "waiting"} /\ pc' = "down" /\ orders' = <<>>
        /\ faults < MaxFaults /\ faults' = faults + 1
        /\ UNCHANGED <<config, attempt, delay, request, move, cached, limiter, nonce,
                       clock, skew, verdict, sent, gone>>
    BY DEF Crash, Fault, retry_vars, process_vars, history_vars
  <1>2. StateInv'
    <2>1. MaxFaults \in Nat /\ faults \in Nat
      BY OrderPathAssumption DEF StateInv
    <2>2. faults' \in 0..MaxFaults
      BY <1>1, <2>1
    <2>3. orders' \in Seq(Sendable)
      BY <1>1
    <2> QED
      BY <1>1, <2>2, <2>3 DEF StateInv
  <1>3. ConfigInv'
    BY <1>1 DEF ConfigInv, Accepted
  <1>4. WaitingInv'
    BY <1>1 DEF WaitingInv
  <1>5. ClockInv'
    BY <1>1 DEF ClockInv
  <1>6. VerdictInv'
    BY <1>1 DEF VerdictInv
  <1> QED
    BY <1>2, <1>3, <1>4, <1>5, <1>6

LEMMA KeepsRestart ==
    ASSUME PathInv, Restart
    PROVE  PathInv'
  <1> USE DEF PathInv
  <1>1. /\ pc = "down" /\ pc' = "idle" /\ clock' = clock + 1
        /\ cached' = FALSE /\ limiter' = None /\ nonce' = 0 /\ sent' = None
        /\ gone' = [gone EXCEPT !.nonce = Max({gone.nonce, nonce})]
        /\ UNCHANGED <<config, orders, attempt, delay, request, move, skew, faults, verdict>>
    BY DEF Restart, NewProcess, retry_vars
  <1>2. /\ clock \in Nat /\ nonce \in Nat /\ gone.nonce \in Nat
        /\ gone \in [nonce : Nat, set_back : BOOLEAN] /\ orders = <<>>
    BY <1>1 DEF StateInv
  <1>3. PICK most \in Nat : /\ most = Max({gone.nonce, nonce})
                            /\ most \in {gone.nonce, nonce}
    <2>1. gone.nonce \in Int /\ nonce \in Int
      BY <1>2
    <2>2. Max({gone.nonce, nonce}) \in {gone.nonce, nonce}
      BY <2>1, LaterOfTwo
    <2> QED
      BY <1>2, <2>2
  <1>4. /\ gone' \in [nonce : Nat, set_back : BOOLEAN]
        /\ gone'.nonce = most /\ gone'.set_back = gone.set_back
    BY <1>1, <1>2, <1>3
  <1>5. StateInv'
    <2>1. /\ clock' \in Nat /\ nonce' \in Nat
          /\ limiter' \in Nat \cup {None} /\ sent' \in Requests \cup {None}
      BY <1>1, <1>2
    <2>2. cached' \in BOOLEAN
      BY <1>1
    <2>3. pc' \in {"sending", "waiting"} <=> orders' # <<>>
      BY <1>1, <1>2
    <2> QED
      BY <1>1, <1>4, <2>1, <2>2, <2>3 DEF StateInv
  <1>6. ConfigInv'
    BY <1>1 DEF ConfigInv, Accepted
  <1>7. WaitingInv'
    BY <1>1 DEF WaitingInv
  <1>8. ClockInv'
    <2>1. ~gone'.set_back =>
            skew = 0 /\ gone.nonce < clock /\ nonce <= clock
      BY <1>4 DEF ClockInv
    <2>2. ~gone'.set_back =>
            skew' = 0 /\ gone'.nonce < clock' /\ nonce' <= clock' /\ nonce' < clock'
      BY <1>1, <1>2, <1>3, <1>4, <2>1
    <2> QED
      BY <1>1, <2>2 DEF ClockInv
  <1>9. VerdictInv'
    BY <1>1 DEF VerdictInv
  <1> QED
    BY <1>5, <1>6, <1>7, <1>8, <1>9

LEMMA KeepsClockSetBack ==
    ASSUME PathInv, ClockSetBack
    PROVE  PathInv'
  <1> USE DEF PathInv
  <1>1. /\ faults < MaxFaults /\ faults' = faults + 1 /\ skew' = skew - Setback
        /\ gone' = [gone EXCEPT !.set_back = TRUE]
        /\ UNCHANGED <<pc, config, orders, attempt, delay, request, move, cached, limiter,
                       nonce, clock, verdict, sent>>
    BY DEF ClockSetBack, Fault, retry_vars, process_vars
  <1>2. /\ gone' \in [nonce : Nat, set_back : BOOLEAN] /\ gone'.set_back
        /\ gone'.nonce = gone.nonce
    BY <1>1 DEF StateInv
  <1>3. StateInv'
    <2>1. MaxFaults \in Nat /\ Setback \in Nat /\ faults \in Nat /\ skew \in Int
      BY OrderPathAssumption DEF StateInv
    <2>2. faults' \in 0..MaxFaults /\ skew' \in Int
      BY <1>1, <2>1
    <2> QED
      BY <1>1, <1>2, <2>1, <2>2 DEF StateInv
  <1>4. ConfigInv'
    BY <1>1 DEF ConfigInv, Accepted
  <1>5. WaitingInv'
    BY <1>1 DEF WaitingInv, Price, Widening
  <1>6. ClockInv'
    BY <1>1, <1>2 DEF ClockInv
  <1>7. VerdictInv'
    BY <1>1 DEF VerdictInv
  <1> QED
    BY <1>3, <1>4, <1>5, <1>6, <1>7


LEMMA PathStep == PathInv /\ [Next]_vars => PathInv'
  <1> SUFFICES ASSUME PathInv, [Next]_vars PROVE PathInv'
    OBVIOUS
  <1>1. ASSUME NEW file \in Files, NEW key \in BOOLEAN, LoadConfig(file, key) PROVE PathInv'
    BY <1>1, KeepsLoadConfig
  <1>2. ASSUME NEW bar \in Bars, Signal(bar) PROVE PathInv'
    BY <1>2, KeepsSignal
  <1>3. ASSUME NEW leftover \in Leftovers, Repair(leftover) PROVE PathInv'
    BY <1>3, KeepsRepair
  <1>4. ASSUME NEW latency \in LoadTimes \cup {0}, Send(latency) PROVE PathInv'
    BY <1>4, KeepsSend
  <1>5. CASE SendFails
    BY <1>5, KeepsSendFails
  <1>6. ASSUME NEW latency \in Latencies, Reply(latency) PROVE PathInv'
    BY <1>6, KeepsReply
  <1>7. CASE Crash
    BY <1>7, KeepsCrash
  <1>8. CASE Restart
    BY <1>8, KeepsRestart
  <1>9. CASE ClockSetBack
    BY <1>9, KeepsClockSetBack
  <1>10. CASE UNCHANGED vars
    <2>1. UNCHANGED <<pc, config, orders, attempt, delay, request, move, cached, limiter,
                      nonce, clock, skew, faults, verdict, sent, gone>>
      BY <1>10 DEF vars, retry_vars, process_vars, time_vars, history_vars
    <2>2. StateInv'
      BY <2>1 DEF PathInv, StateInv
    <2>3. ConfigInv'
      BY <2>1 DEF PathInv, ConfigInv, Accepted
    <2>4. WaitingInv'
      BY <2>1 DEF PathInv, WaitingInv, Price, Widening
    <2>5. ClockInv' /\ VerdictInv'
      BY <2>1 DEF PathInv, ClockInv, VerdictInv
    <2> QED
      BY <2>2, <2>3, <2>4, <2>5 DEF PathInv
  <1> QED
    BY <1>1, <1>2, <1>3, <1>4, <1>5, <1>6, <1>7, <1>8, <1>9, <1>10 DEF Next

LEMMA PathInvariant == Spec => []PathInv
  BY OrderedInit, PathStep, PTL DEF Spec

----------------------------------------------------------------------------
(* What the invariant says.                                                 *)

\* Type correctness: attempts within their budget, and the request under way is
\* the one post_order or update_leverage sent.
THEOREM PathTypeCorrect == Spec => []TypeOK
  <1>1. PathInv => TypeOK
    BY DEF PathInv, StateInv, WaitingInv, TypeOK, Last
  <1> QED
    BY <1>1, PathInvariant, PTL

\* process_bar ends the run at an entry signal for three reasons only, whatever
\* settings Config::validate accepted.
THEOREM ValidatedSettingsRun == Spec => []ValidatedRuns
  <1>1. PathInv => ValidatedRuns
    <2> SUFFICES ASSUME PathInv, verdict # None, verdict.decision.kind = "error"
                 PROVE  verdict.decision.why \in {"max_notional", "equity", "interval"}
      BY DEF ValidatedRuns
    <2>1. /\ verdict.bar \in BarRecords /\ verdict.decision = Decision(config, verdict.bar)
          /\ ConfigOK(config) /\ Valid(config)
      BY DEF PathInv, VerdictInv, ConfigInv
    <2> QED
      BY <2>1, Decisions
  <1> QED
    BY <1>1, PathInvariant, PTL

\* convert_notional and the weights: whatever the rounding mode, the step and the
\* precision, a leg exceeds its share by what this mode adds at most, unless the
\* policy lifts it to the minimum, and then the minimum by as little; and the pair
\* exceeds max_notional by no more than the legs may.
THEOREM EntriesWithinCapital == Spec => []EntryWithinCapital
  <1>1. PathInv => EntryWithinCapital
    <2> SUFFICES ASSUME PathInv, verdict # None, verdict.decision.kind = "orders"
                 PROVE  EntryWithinCapital
      BY DEF EntryWithinCapital
    <2> DEFINE s == config.settings
               bar == verdict.bar
               capital == Capital(s, bar)
               notional == Notional(capital, bar.vols)
               pair == verdict.decision.orders
               lifts == s.min_size_policy = "ADJUST"
               size(leg) == SizeOf(config, notional, bar, leg)
               worth(i) == pair[i].qty * bar.prices[pair[i].leg]
               beyond(i) ==
                 LET k == config.constraints[pair[i].leg]
                     price == bar.prices[pair[i].leg]
                 IN  IF lifts
                     THEN Slack(k, "CEIL") * price + 2 * Most(0, MinimumWorth(k, price))
                     ELSE Slack(k, k.rounding_mode) * price
    <2>1. /\ bar \in BarRecords /\ verdict.decision = Decision(config, bar)
          /\ ConfigOK(config) /\ Valid(config)
      BY DEF PathInv, VerdictInv, ConfigInv
    <2>2. /\ bar.vols \in [Legs -> Int] /\ capital \in Int
          /\ s.max_notional # None => capital <= s.max_notional
          /\ PairOf(config, notional, bar, pair)
      <3> HIDE DEF bar
      <3> QED
        BY <2>1, Decisions
    <2>3. /\ notional["eth"] \in Int /\ notional["btc"] \in Int
          /\ notional["eth"] + notional["btc"] = capital
          /\ IF capital >= 0 THEN notional["eth"] >= 0 /\ notional["btc"] >= 0
             ELSE notional["eth"] <= 0 /\ notional["btc"] <= 0
      BY <2>2, Shares DEF Legs
    <2>4. /\ SettingsOK(s) /\ s.min_size_policy \in {"SKIP", "ADJUST"}
          /\ s.max_notional \in Int \cup {None}
          /\ s.max_notional # None => s.max_notional > 0
      BY <2>1, SettingsFacts DEF ConfigOK, Valid, PositionValid
    <2>5. bar.prices["eth"] \in Nat \ {0} /\ bar.prices["btc"] \in Nat \ {0}
      BY <2>1, BarFacts
    <2>6. ASSUME NEW leg \in Legs
          PROVE  ConstraintsOK(config.constraints[leg]) /\ config.constraints[leg].step_size > 0
      BY <2>1 DEF ConfigOK, Valid, ConstraintsValid
    <2> HIDE DEF capital, notional, bar, pair, s
    <2>7. ASSUME NEW leg \in Legs
          PROVE  LET k == config.constraints[leg]
                     price == bar.prices[leg]
                 IN  /\ size(leg) \in Int
                     /\ \/ WorthAtMost(k, k.rounding_mode, size(leg), price,
                                       QtyScale * notional[leg])
                        \/ lifts /\ WorthAtMost(k, "CEIL", size(leg), price,
                                                MinimumWorth(k, price))
      <3> DEFINE k == config.constraints[leg]
      <3>1. notional[leg] \in Int /\ bar.prices[leg] \in Nat \ {0}
        BY <2>3, <2>5 DEF Legs
      <3>2. size(leg) = ConvertNotional(k, s.min_size_policy, notional[leg], bar.prices[leg])
        BY DEF SizeOf, s
      <3>3. size(leg) # None
        BY <2>2 DEF PairOf, Legs
      <3>4. ConstraintsOK(k) /\ k.step_size > 0
        BY <2>6
      <3> HIDE DEF k, size
      <3>5. size(leg) \in Int
        BY <3>1, <3>2, <3>3, <3>4, ConvertedInt
      <3>6. \/ WorthAtMost(k, k.rounding_mode, size(leg), bar.prices[leg],
                           QtyScale * notional[leg])
            \/ lifts /\ WorthAtMost(k, "CEIL", size(leg), bar.prices[leg],
                                    MinimumWorth(k, bar.prices[leg]))
        BY <2>4, <3>1, <3>2, <3>3, <3>4, Converted
      <3> QED
        BY <3>5, <3>6 DEF k, size
    <2>8. /\ pair[1].leg = "eth" /\ pair[1].qty = size("eth")
          /\ pair[2].leg = "btc" /\ pair[2].qty = size("btc")
      <3>1. pair = <<EntryOrder(s, bar, "eth", size("eth")),
                     EntryOrder(s, bar, "btc", size("btc"))>>
        BY <2>2 DEF PairOf, s
      <3> HIDE DEF size
      <3>2. /\ EntryOrder(s, bar, "eth", size("eth")).leg = "eth"
            /\ EntryOrder(s, bar, "eth", size("eth")).qty = size("eth")
            /\ EntryOrder(s, bar, "btc", size("btc")).leg = "btc"
            /\ EntryOrder(s, bar, "btc", size("btc")).qty = size("btc")
        BY DEF EntryOrder
      <3> QED
        BY <3>1, <3>2
    <2> HIDE DEF size
    <2>9. ASSUME NEW i \in 1..2
          PROVE  LET k == config.constraints[pair[i].leg]
                     price == bar.prices[pair[i].leg]
                     share == QtyScale * notional[pair[i].leg]
                 IN  \/ WorthAtMost(k, k.rounding_mode, pair[i].qty, price, share)
                     \/ /\ lifts
                        /\ WorthAtMost(k, "CEIL", pair[i].qty, price, MinimumWorth(k, price))
      <3>1. i = 1 \/ i = 2
        OBVIOUS
      <3> QED
        BY <2>7, <2>8, <3>1 DEF Legs
    <2>10. ASSUME NEW i \in 1..2
           PROVE  \E w, b, share \in Int :
                    /\ w = worth(i) /\ b = beyond(i) /\ share = notional[pair[i].leg]
                    /\ 2 * (w - 1000 * share) <= b \/ 2 * w <= b
      <3> DEFINE leg == pair[i].leg
                 k == config.constraints[leg]
                 mode == k.rounding_mode
      <3>1. leg \in Legs /\ pair[i].qty \in Int
        <4>1. i = 1 \/ i = 2
          OBVIOUS
        <4> QED
          BY <2>7, <2>8, <4>1 DEF Legs
      <3>2. ConstraintsOK(k) /\ k.step_size > 0 /\ mode \in {"FLOOR", "ROUND", "CEIL"}
        BY <2>6, <3>1, ConstraintFacts
      <3>3. PICK price \in Nat, share \in Int :
              price = bar.prices[leg] /\ share = notional[leg]
        BY <2>3, <2>5, <3>1 DEF Legs
      <3>4. PICK q \in Int : q = pair[i].qty
        BY <3>1
      <3>5. PICK slack \in Int, most \in Int :
              slack = Slack(k, mode) /\ most = Slack(k, "CEIL") /\ slack <= most
        BY <3>2, <3>3, Money
      <3>6. PICK minimum \in Int : minimum = MinimumWorth(k, price)
        BY <3>2, <3>3, Money
      <3>7. PICK least \in Nat : least = Most(0, minimum) /\ minimum <= least
        BY DEF Most, Max
      <3>8. \/ 2 * (q * price - 1000 * share) <= slack * price
            \/ lifts /\ 2 * (q * price - minimum) <= most * price
        <4>1. \/ WorthAtMost(k, mode, pair[i].qty, bar.prices[leg], QtyScale * notional[leg])
              \/ /\ lifts
                 /\ WorthAtMost(k, "CEIL", pair[i].qty, bar.prices[leg],
                                MinimumWorth(k, bar.prices[leg]))
          BY <2>9
        <4>2. \/ WorthAtMost(k, mode, q, price, 1000 * share)
              \/ lifts /\ WorthAtMost(k, "CEIL", q, price, minimum)
          BY <4>1, <3>3, <3>4, <3>6 DEF QtyScale
        <4>3. ASSUME WorthAtMost(k, mode, q, price, 1000 * share)
              PROVE  2 * (q * price - 1000 * share) <= slack * price
          BY <4>3, <3>5 DEF WorthAtMost
        <4>4. ASSUME WorthAtMost(k, "CEIL", q, price, minimum)
              PROVE  2 * (q * price - minimum) <= most * price
          BY <4>4, <3>5 DEF WorthAtMost
        <4> QED
          BY <4>2, <4>3, <4>4
      <3>9. slack * price <= most * price
        <4>0. slack <= most
          BY <3>5
        <4>1. most - slack \in Nat
          BY <4>0
        <4>2. (most - slack) * price >= 0
          BY <4>1
        <4> QED
          BY <4>2
      <3>10. PICK w \in Int, a \in Int, m \in Int :
               w = q * price /\ a = slack * price /\ m = most * price
        OBVIOUS
      <3>11. PICK b \in Int : b = IF lifts THEN m + 2 * least ELSE a
        OBVIOUS
      <3>12. worth(i) = w
        BY <3>3, <3>4, <3>10
      <3>13. beyond(i) = b
        BY <3>3, <3>5, <3>6, <3>7, <3>10, <3>11
      <3> HIDE DEF leg, worth, beyond, lifts
      <3>14. 2 * (w - 1000 * share) <= b \/ 2 * w <= b
        BY <3>7, <3>8, <3>9, <3>10, <3>11
      <3>15. share = notional[pair[i].leg]
        BY <3>3 DEF leg
      <3> QED
        BY <3>12, <3>13, <3>14, <3>15
    <2>11. ASSUME s.max_notional # None
           PROVE  2 * (worth(1) + worth(2) - QtyScale * s.max_notional)
                    <= beyond(1) + beyond(2)
      <3>1. PICK c \in Int, top \in Nat, x \in Int, y \in Int :
              /\ c = capital /\ top = s.max_notional /\ c <= top
              /\ x = notional["eth"] /\ y = notional["btc"] /\ x + y = c
              /\ IF c >= 0 THEN x >= 0 /\ y >= 0 ELSE x <= 0 /\ y <= 0
        BY <2>2, <2>3, <2>4, <2>11 DEF s
      <3>2. x <= top /\ y <= top
        BY <3>1
      <3> HIDE DEF worth, beyond
      <3>3. PICK w1 \in Int, b1 \in Int :
              /\ w1 = worth(1) /\ b1 = beyond(1)
              /\ 2 * (w1 - 1000 * x) <= b1 \/ 2 * w1 <= b1
        <4>1. 1 \in 1..2
          OBVIOUS
        <4> QED
          BY <2>8, <2>10, <3>1, <4>1
      <3>4. PICK w2 \in Int, b2 \in Int :
              /\ w2 = worth(2) /\ b2 = beyond(2)
              /\ 2 * (w2 - 1000 * y) <= b2 \/ 2 * w2 <= b2
        <4>1. 2 \in 1..2
          OBVIOUS
        <4> QED
          BY <2>8, <2>10, <3>1, <4>1
      <3>5. 2 * (w1 + w2 - 1000 * top) <= b1 + b2
        BY <3>1, <3>2, <3>3, <3>4
      <3> QED
        BY <3>1, <3>3, <3>4, <3>5 DEF QtyScale
    <2> QED
      BY <2>9, <2>11 DEF EntryWithinCapital, s, bar, capital, notional, pair
  <1> QED
    BY <1>1, PathInvariant, PTL

LEMMA ReachInit == Init => SentWithinReach /\ GivesUpBeyondReach
  BY DEF Init, SentWithinReach, GivesUpBeyondReach

\* Steps that send nothing, and steps that give nothing up.
LEMMA Quiet ==
    ASSUME PathInv, [Next]_vars
    PROVE  /\ \/ sent' = sent \/ sent' = None
              \/ \E latency \in LoadTimes \cup {0} : Send(latency)
           /\ \/ given_up' = given_up \/ given_up'.why # "no_match"
              \/ \E latency \in Latencies : Reply(latency)
  <1>1. ASSUME NEW file \in Files, NEW key \in BOOLEAN, LoadConfig(file, key)
        PROVE  sent' = sent /\ given_up' = given_up
    BY <1>1 DEF LoadConfig, history_vars
  <1>2. ASSUME NEW bar \in Bars, Signal(bar)
        PROVE  sent' = sent /\ given_up' = given_up
    BY <1>2 DEF Signal
  <1>3. ASSUME NEW leftover \in Leftovers, Repair(leftover)
        PROVE  sent' = sent /\ given_up' = given_up
    BY <1>3 DEF Repair, history_vars
  <1>4. ASSUME NEW latency \in LoadTimes \cup {0}, Send(latency)
        PROVE  given_up' = given_up
    BY <1>4 DEF Send
  <1>5. CASE SendFails
    BY <1>5, KeepsSendFails
  <1>6. ASSUME NEW latency \in Latencies, Reply(latency)
        PROVE  sent' = sent
    BY <1>6 DEF Reply
  <1>7. CASE Crash
    BY <1>7 DEF Crash, history_vars
  <1>8. CASE Restart
    BY <1>8 DEF Restart, NewProcess
  <1>9. CASE ClockSetBack
    BY <1>9 DEF ClockSetBack
  <1>10. CASE UNCHANGED vars
    BY <1>10 DEF vars, history_vars
  <1> QED
    BY <1>1, <1>2, <1>3, <1>4, <1>5, <1>6, <1>7, <1>8, <1>9, <1>10 DEF Next

\* What post_order sends: the ladder takes a market order's price beyond its
\* reference, within slippage and the last rung; rounding leaves a resting order's
\* on its side of the reference, within its offset; sizes are rounded down.
THEOREM SentIsWithinReach == Spec => []SentWithinReach
  <1>1. PathInv /\ SentWithinReach /\ [Next]_vars => SentWithinReach'
    <2> SUFFICES ASSUME PathInv, SentWithinReach, [Next]_vars PROVE SentWithinReach'
      OBVIOUS
    <2>1. CASE sent' = sent \/ sent' = None
      BY <2>1 DEF SentWithinReach, LastRung
    <2>2. ASSUME NEW latency \in LoadTimes \cup {0}, Send(latency)
          PROVE  SentWithinReach'
      <3> DEFINE o == Head(orders)
                 beyond == Sign(o.side) * (Price(o) - o.reference)
                 limit == Sign(o.side) * (o.limit_price - BpsScale * o.reference)
      <3>1. /\ o \in Orders /\ OrderOK(o)
            /\ sent'.request = request /\ sent'.order = o
            /\ sent'.price = Price(o) /\ sent'.size = AlignSize(o)
            /\ request = "order" => AlignSize(o) > 0
        BY <2>2, SendEffects
      <3>2. attempt \in 0..Last
        BY DEF PathInv, StateInv
      <3> HIDE DEF o
      <3>3. AlignSize(o) <= o.qty
        BY <3>1, SizeDown
      <3>4. ASSUME o.order_type = "Market"
            PROVE  /\ beyond >= 0
                   /\ BpsScale * (beyond - 1) < limit + BpsOf(o.limit_price, LastRung)
        <4>1. /\ beyond >= 0
              /\ BpsScale * (beyond - 1) < limit + BpsOf(o.limit_price, Widening)
          BY <3>1, <3>2, <3>4, MarketPrices
        <4>2. beyond \in Int /\ limit \in Int /\ o.limit_price \in Nat
          <5>1. Price(o) \in Int /\ o.reference \in Int /\ o.limit_price \in Nat
            BY <3>1, <3>2, <3>4, PriceInt DEF OrderOK, Orders
          <5> QED
            BY <5>1 DEF Sign, BpsScale
        <4>3. Widening \in Nat /\ LastRung \in Nat /\ Widening <= LastRung
          BY <3>2, Ladder
        <4>4. PICK low \in Int, high \in Int :
                /\ low = BpsOf(o.limit_price, Widening)
                /\ high = BpsOf(o.limit_price, LastRung) /\ low <= high
          <5>1. o.limit_price \in Int
            BY <4>2
          <5>2. BpsOf(o.limit_price, Widening) \in Int /\ BpsOf(o.limit_price, LastRung) \in Int
            BY <4>3, <5>1, BpsOfInt
          <5>3. BpsOf(o.limit_price, Widening) <= BpsOf(o.limit_price, LastRung)
            BY <4>2, <4>3, BpsOfGrows
          <5> QED
            BY <5>2, <5>3
        <4> HIDE DEF beyond, limit
        <4>5. PICK a \in Int : a = BpsScale * (beyond - 1)
          BY <4>2 DEF BpsScale
        <4> QED
          BY <4>1, <4>2, <4>4, <4>5
      <3>5. ASSUME o.order_type # "Market"
            PROVE  beyond <= 0 /\ BpsScale * beyond >= limit
        BY <3>1, <3>2, <3>5, RestingPrices
      <3>6. LastRung' = LastRung
        BY DEF LastRung
      <3> QED
        BY <3>1, <3>3, <3>4, <3>5, <3>6 DEF SentWithinReach
    <2> QED
      BY <2>1, <2>2, Quiet
  <1> QED
    BY <1>1, ReachInit, PathInvariant, PTL DEF Spec

\* retry_market_with_requote gives a market order up for want of a match only once
\* the market is further away than the last rung.
THEOREM GivesUpOnlyBeyondReach == Spec => []GivesUpBeyondReach
  <1>1. PathInv /\ GivesUpBeyondReach /\ [Next]_vars => GivesUpBeyondReach'
    <2> SUFFICES ASSUME PathInv, GivesUpBeyondReach, [Next]_vars PROVE GivesUpBeyondReach'
      OBVIOUS
    <2>1. CASE given_up' = given_up \/ given_up'.why # "no_match"
      BY <2>1 DEF GivesUpBeyondReach, LastRung
    <2>2. ASSUME NEW latency \in Latencies, Reply(latency),
                 ~(given_up' = given_up \/ given_up'.why # "no_match")
          PROVE  GivesUpBeyondReach'
      <3> DEFINE o == Head(orders)
      <3>1. /\ given_up' = [why |-> "no_match", order |-> o, move |-> move]
            /\ request = "order" /\ pc = "waiting" /\ orders # <<>>
            /\ o.order_type = "Market" /\ ~Reaches(o, sent.price)
            /\ attempt = Last
        BY <2>2, KeepsReply
      <3>2. o \in Orders /\ OrderOK(o)
        BY <3>1, HeadSendable DEF PathInv, StateInv
      <3>3. sent.price = Price(o)
        BY <3>1 DEF PathInv, WaitingInv
      <3>4. attempt \in 0..Last
        BY DEF PathInv, StateInv
      <3> HIDE DEF o
      <3>5. Widening = LastRung /\ Widening \in Nat
        <4>1. attempt = Last
          BY <3>1
        <4> QED
          BY <3>4, <4>1, Ladder
      <3>6. Price(o) \in Int
        BY <3>2, <3>4, PriceInt
      <3>7. Sign(o.side) * (BpsScale * Price(o)
                 - (o.limit_price + Sign(o.side) * BpsOf(o.limit_price, LastRung))) >= 0
        BY <3>1, <3>2, <3>4, <3>5, MarketPrices
      <3>8. /\ o.side \in Sides /\ o.reference \in Nat /\ o.limit_price \in Nat /\ move \in Int
        <4>1. o.side \in Sides /\ o.reference \in Nat /\ o.limit_price \in Nat
          BY <3>1, <3>2 DEF OrderOK, Orders
        <4>2. move \in Int
          BY OrderPathAssumption DEF PathInv, StateInv
        <4> QED
          BY <4>1, <4>2
      <3>9. PICK far \in Int : far = o.reference * (BpsScale + move)
        <4>1. o.reference * (BpsScale + move) \in Int
          BY <3>8 DEF BpsScale
        <4> QED
          BY <4>1
      <3>10. PICK sign \in {1, -1} : sign = Sign(o.side)
        BY DEF Sign
      <3>11. PICK reach \in Int : reach = o.limit_price + sign * BpsOf(o.limit_price, LastRung)
        <4>1. o.limit_price \in Int /\ LastRung \in Nat
          BY <3>5, <3>8
        <4>2. PICK rung \in Int : rung = BpsOf(o.limit_price, LastRung)
          BY <4>1, BpsOfInt
        <4>3. o.limit_price + sign * rung \in Int
          BY <4>1, <4>2
        <4> QED
          BY <4>2, <4>3
      <3>12. PICK x \in Int : x = BpsScale * Price(o)
        <4>1. BpsScale * Price(o) \in Int
          BY <3>6 DEF BpsScale
        <4> QED
          BY <4>1
      <3>13. ~(sign * (x - far) >= 0)
        BY <3>1, <3>3, <3>9, <3>10, <3>12 DEF Reaches
      <3>14. sign * (x - reach) >= 0
        BY <3>7, <3>10, <3>11, <3>12
      <3>15. sign * (far - reach) > 0
        BY <3>13, <3>14
      <3>16. /\ given_up'.order = o /\ given_up'.move = move
             /\ LastRung' = LastRung
        BY <3>1 DEF LastRung
      <3> QED
        BY <3>9, <3>10, <3>11, <3>15, <3>16 DEF GivesUpBeyondReach
    <2> QED
      BY <2>1, <2>2, Quiet
  <1> QED
    BY <1>1, ReachInit, PathInvariant, PTL DEF Spec

\* TimeNonceProvider and FixedRateLimiter: nonces grow, and requests keep their
\* distance.
THEOREM RequestsAreOrdered == Spec => RequestsOrdered
  <1>1. PathInv /\ [Next]_vars =>
          [sent' # sent /\ sent' # None =>
             /\ sent # None =>
                  /\ sent'.nonce > sent.nonce
                  /\ sent.cached => sent'.at - sent.at >= MinInterval
             /\ ~gone.set_back => sent'.nonce > gone.nonce]_vars
    <2> SUFFICES ASSUME PathInv, [Next]_vars, sent' # sent, sent' # None
                 PROVE  /\ sent # None =>
                             /\ sent'.nonce > sent.nonce
                             /\ sent.cached => sent'.at - sent.at >= MinInterval
                        /\ ~gone.set_back => sent'.nonce > gone.nonce
      OBVIOUS
    <2>1. PICK latency \in LoadTimes \cup {0} : Send(latency)
      BY Quiet
    <2>2. /\ pc = "sending" /\ clock' \in Nat /\ limiter' >= clock /\ clock' >= limiter'
          /\ limiter' \in Nat
          /\ limiter # None => clock' >= limiter + MinInterval
          /\ nonce' = NextNonce(clock') /\ nonce' \in Nat /\ nonce' > nonce
          /\ sent'.nonce = nonce' /\ sent'.at = clock'
      BY <2>1, SendEffects
    <2>3. StateInv /\ ClockInv /\ MinInterval \in Nat
      BY OrderPathAssumption DEF PathInv
    <2>4. sent # None => sent'.nonce > sent.nonce
      BY <2>2, <2>3 DEF ClockInv
    <2>5. ASSUME sent # None, sent.cached PROVE sent'.at - sent.at >= MinInterval
      <3>1. limiter # None /\ limiter >= sent.at
        BY <2>3, <2>5 DEF ClockInv
      <3>2. limiter \in Nat /\ sent.at \in Nat
        BY <2>3, <2>5, <3>1 DEF StateInv, Requests
      <3> QED
        BY <2>2, <2>3, <3>1, <3>2
    <2>6. ASSUME ~gone.set_back PROVE sent'.nonce > gone.nonce
      <3>1. /\ skew = 0 /\ gone.nonce < clock /\ gone.nonce \in Nat /\ clock \in Nat
        BY <2>3, <2>6 DEF ClockInv, StateInv
      <3>2. nonce' >= clock'
        BY <2>2, <2>3, <3>1, NoncesGrow
      <3> QED
        BY <2>2, <3>1, <3>2
    <2> QED
      BY <2>4, <2>5, <2>6
  <1> QED
    BY <1>1, PathInvariant, PTL DEF Spec, RequestsOrdered
=========================================================================
