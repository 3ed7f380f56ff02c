------------------------------ MODULE PairTypes -----------------------------
(***************************************************************************)
(* The vocabulary the modules share: the absent value of an Option, the    *)
(* two legs of a pair, order sides and trade directions.                   *)
(***************************************************************************)
EXTENDS Integers

CONSTANT None  \* Option::None

Legs == {"eth", "btc"}

Sides == {"Buy", "Sell"}

TradeDirections == {"LongEthShortBtc", "ShortEthLongBtc"}

Sign(side) == IF side = "Buy" THEN 1 ELSE -1

Abs(n) == IF n < 0 THEN -n ELSE n

\* The side of the order that opens a leg in a direction.
EntrySide(direction, leg) ==
    IF (direction = "LongEthShortBtc") = (leg = "eth") THEN "Buy" ELSE "Sell"

\* OrderSide::close_for_qty.
CloseForQty(qty) == IF qty > 0 THEN "Sell" ELSE "Buy"
=============================================================================
