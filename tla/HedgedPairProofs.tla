-------------------------- MODULE HedgedPairProofs -------------------------
(***************************************************************************)
(* What the promise of the live process (HedgedPair) is worth: proofs that *)
(* it rules out an unhedged account and a record of a pair that is not     *)
(* held, for legs of any size.  LiveRunnerProofs shows that the live       *)
(* process keeps the promise.                                              *)
(***************************************************************************)
EXTENDS HedgedPair, TLAPS

\* The two legs of a direction are on opposite sides (EntrySide).
LEMMA PairShape ==
    ASSUME Size \in Nat
    PROVE  /\ Pair("LongEthShortBtc") = [leg \in Legs |-> IF leg = "eth" THEN Size ELSE -Size]
           /\ Pair("ShortEthLongBtc") = [leg \in Legs |-> IF leg = "eth" THEN -Size ELSE Size]
BY DEF Pair, Legs, EntrySide, Sign

\* What is held is part of one pair (open_pair, close_pair, repair_residual).
LEMMA PairInductive ==
    ASSUME Size \in Nat
    PROVE  PairSafety => []PartOfPair
<1>1. PairInit => PartOfPair
  BY PairShape DEF PairInit, PartOfPair, Nothing, TradeDirections, Legs
<1>2. ASSUME PartOfPair, [PairNext]_pair_vars PROVE PartOfPair'
  <2>1. CASE \E leg \in Legs, direction \in TradeDirections : OpenLeg(leg, direction)
    <3>1. PICK leg \in Legs, direction \in TradeDirections : OpenLeg(leg, direction)
      BY <2>1
    <3>2. Pair(direction) \in [Legs -> Int]
      BY PairShape DEF TradeDirections, Legs
    <3>3. holding \in [Legs -> Int]
      BY <1>2 DEF PartOfPair
    <3>4. /\ holding' \in [Legs -> Int]
          /\ \A other \in Legs : holding'[other] \in {0, Pair(direction)[other]}
      BY <3>1, <3>2, <3>3 DEF OpenLeg
    <3> QED
      BY <3>4 DEF PartOfPair, Pair
  <2>2. CASE \E leg \in Legs : CloseLeg(leg)
    <3>1. PICK leg \in Legs : CloseLeg(leg)
      BY <2>2
    <3>2. PICK direction \in TradeDirections :
            /\ holding \in [Legs -> Int]
            /\ \A other \in Legs : holding[other] \in {0, Pair(direction)[other]}
      BY <1>2 DEF PartOfPair
    <3>3. /\ holding' \in [Legs -> Int]
          /\ \A other \in Legs : holding'[other] \in {0, Pair(direction)[other]}
      BY <3>1, <3>2 DEF CloseLeg
    <3> QED
      BY <3>3 DEF PartOfPair, Pair
  <2>3. CASE UNCHANGED holding
    BY <1>2, <2>3 DEF PartOfPair, Pair
  <2> QED
    BY <1>2, <2>1, <2>2, <2>3 DEF PairNext, Record, Forget, pair_vars
<1> QED
  BY <1>1, <1>2, PTL DEF PairSafety

\* A process that keeps the promise never holds both legs on the same side: the
\* account is hedged, empty, or has a lone leg.
THEOREM NeverSameSide ==
    ASSUME Size \in Nat
    PROVE  PairSafety => []Opposite
<1>1. PartOfPair => Opposite
  BY PairShape DEF PartOfPair, Opposite, TradeDirections, Legs
<1> QED
  BY <1>1, PairInductive, PTL

\* A process that keeps the promise never writes a direction to its database that
\* the account does not hold in full.
THEOREM RecordIsHeld == PairSafety => RecordsHeldPair
<1>1. ASSUME [PairNext]_pair_vars
      PROVE  [record' # record /\ record' # None => holding' = Pair(record')]_pair_vars
  <2>1. CASE \E direction \in TradeDirections : Record(direction)
    BY <2>1 DEF Record, Pair
  <2>2. CASE Forget
    BY <2>2 DEF Forget
  <2>3. CASE UNCHANGED record
    BY <2>3
  <2> QED
    BY <1>1, <2>1, <2>2, <2>3 DEF PairNext, OpenLeg, CloseLeg, pair_vars
<1> QED
  BY <1>1, PTL DEF PairSafety, RecordsHeldPair
=============================================================================
