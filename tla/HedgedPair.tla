----------------------------- MODULE HedgedPair -----------------------------
(***************************************************************************)
(* What the live process promises whoever looks at the account and at the  *)
(* database, and nothing of how it keeps the promise: requests, retries,   *)
(* rollbacks, crashes and restarts are all hidden.                         *)
(*                                                                         *)
(* The account holds nothing, one pair, or one leg on the way between the  *)
(* two; a pair is never grown and never turned over.  The database names a *)
(* direction only once that pair is held, and drops it only when the pair  *)
(* is gone.  A lone leg does not stay, and neither does the record of a    *)
(* pair that is gone.                                                      *)
(***************************************************************************)
EXTENDS PairTypes

CONSTANT Size  \* what one leg of a pair holds

VARIABLES
    holding,  \* signed quantity per leg
    record    \* direction of the recorded position, or None

pair_vars == <<holding, record>>

\* What a pair of a direction holds.
Pair(direction) ==
    [leg \in Legs |-> Sign(EntrySide(direction, leg)) * Size]

Nothing == [leg \in Legs |-> 0]

Lone == \E leg \in Legs : holding[leg] = 0 /\ holding # Nothing

PairInit ==
    \/ holding = Nothing /\ record = None
    \/ \E direction \in TradeDirections :
         holding = Pair(direction) /\ record = direction

\* A leg is opened: the first one of an entry, or the one that completes it
\* (the second one, or the first one put back after a close that failed).
OpenLeg(leg, direction) ==
    /\ holding[leg] = 0
    /\ \A other \in Legs : holding[other] \in {0, Pair(direction)[other]}
    /\ holding' = [holding EXCEPT ![leg] = Pair(direction)[leg]]
    /\ UNCHANGED record

\* A leg is closed: of a pair, or the lone one.
CloseLeg(leg) ==
    /\ holding[leg] # 0
    /\ holding' = [holding EXCEPT ![leg] = 0]
    /\ UNCHANGED record

Record(direction) ==
    /\ holding = Pair(direction)
    /\ record' = direction
    /\ UNCHANGED holding

Forget ==
    /\ \A direction \in TradeDirections : holding # Pair(direction)
    /\ record' = None
    /\ UNCHANGED holding

PairNext ==
    \/ \E leg \in Legs, direction \in TradeDirections : OpenLeg(leg, direction)
    \/ \E leg \in Legs : CloseLeg(leg)
    \/ \E direction \in TradeDirections : Record(direction)
    \/ Forget

\* A lone leg is completed or closed, and a record nothing is left of is
\* dropped.
PairFairness ==
    /\ WF_pair_vars(Lone /\ \E leg \in Legs :
         \/ CloseLeg(leg)
         \/ \E direction \in TradeDirections : OpenLeg(leg, direction))
    /\ WF_pair_vars(holding = Nothing /\ Forget)

\* What never happens, and with what does happen the whole promise.
PairSafety == PairInit /\ [][PairNext]_pair_vars

PairSpec == PairSafety /\ PairFairness

----------------------------------------------------------------------------
\* Whatever the account holds is part of one pair: nothing is larger, and no
\* leg belongs to another direction than the other.
PartOfPair ==
    \E direction \in TradeDirections :
      /\ holding \in [Legs -> Int]
      /\ \A leg \in Legs : holding[leg] \in {0, Pair(direction)[leg]}

\* The account never holds both legs on the same side.
Opposite ==
    /\ ~(holding["eth"] > 0 /\ holding["btc"] > 0)
    /\ ~(holding["eth"] < 0 /\ holding["btc"] < 0)

\* A direction gets into the database only while that pair is held.
RecordsHeldPair ==
    [][record' # record /\ record' # None => holding' = Pair(record')]_pair_vars
=============================================================================
