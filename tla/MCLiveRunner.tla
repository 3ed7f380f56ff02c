---------------------------- MODULE MCLiveRunner ----------------------------
\* Constants for TLC: the position and pending-entry snapshots over the bounds
\* of the run, and the rows a first start may find.
EXTENDS LiveRunner

\* A leg can be hit by every fault once on top of the order itself.
MaxLeg == Qty * (MaxFaults + 2)

MCPositions ==
    [direction : TradeDirections, eth : -MaxLeg..MaxLeg, btc : -MaxLeg..MaxLeg]

MCPendingEntries ==
    [direction : TradeDirections, eth_order_id : 1..MaxOid,
     btc_order_id : 1..MaxOid, submitted_at : 0..MaxBar,
     expires_at : 0..(MaxBar + PendingTtl)]

NoRows == {}

\* A pair an earlier process opened.
PairRows ==
    {[status |-> "InPosition",
      position |-> [direction |-> direction,
                    eth |-> Sign(EntrySide(direction, "eth")) * Qty,
                    btc |-> Sign(EntrySide(direction, "btc")) * Qty],
      pending_entry |-> None,
      cooldown_until |-> None] : direction \in Directions}

\* A position whose BTC leg is zero.
ResidualRows ==
    {[status |-> "InPosition",
      position |-> [direction |-> direction,
                    eth |-> Sign(EntrySide(direction, "eth")) * Qty, btc |-> 0],
      pending_entry |-> None,
      cooldown_until |-> None] : direction \in Directions}
=============================================================================
