---------------------------- MODULE PairExecution ---------------------------
(***************************************************************************)
(* The contract of ExecutionEngine towards its callers.  A caller opens    *)
(* pairs, closes a pair it holds, repairs a single leg and cancels what    *)
(* rests, over and over, while the exchange takes resting orders whenever  *)
(* it likes: those of the call in progress, and those an earlier call left *)
(* on the book, the ones nobody remembers included (a first leg that rests *)
(* beside a second one that filled).                                       *)
(***************************************************************************)
EXTENDS ExecutionEngine

CONSTANTS
    Qty,         \* size of an opening order, in smallest fills
    MaxHeld,     \* bound: what a leg may hold when a pair is opened
    Directions,  \* directions the caller opens, of TradeDirections
    OpenTypes,   \* types of opening orders
    CloseTypes   \* types of closing orders

ASSUME QtyAssumption == Qty \in Nat \ {0} /\ MaxHeld \in Nat

ASSUME TypesAssumption == OpenTypes \cup CloseTypes \subseteq OrderTypes

ASSUME DirectionsAssumption == Directions \subseteq TradeDirections

VARIABLES
    op,      \* history: the operation in progress
    since,   \* history: the orders below this id are of earlier calls
    before,  \* history: the account without what this operation does
    moved    \* history: the legs on which an order of an earlier call was taken

history == <<op, since, before, moved>>

pair_vars == <<engine_vars, history>>

Flat == \A leg \in Legs : exposure[leg] = 0

Residual == ~Flat /\ \E leg \in Legs : exposure[leg] = 0

Operations == {"open", "close", "repair", "cancel"}

PairTypeOK ==
    /\ ExchangeTypeOK
    /\ met \subseteq FaultKinds
    /\ call.stage \in Stages
    /\ call.attempt \in 0..(MarketAttempts - 1)
    /\ call.stage = "returned" <=> call.result # None
    /\ op \in Operations \cup {"none"}
    /\ op = "none" <=> call.stage = "idle"
    /\ since \in 0..next_oid
    /\ before \in [Legs -> Int]
    /\ moved \subseteq Legs

NoLegs == [leg \in Legs |-> 0]

Init ==
    /\ ExchangeInit(NoLegs)
    /\ call = Idle
    /\ op = "none"
    /\ since = 0
    /\ before = NoLegs
    /\ moved = {}

----------------------------------------------------------------------------
\* What the history keeps of a call that starts.
Called(operation) ==
    /\ call = Idle
    /\ op' = operation
    /\ since' = next_oid
    /\ before' = exposure
    /\ moved' = {}
    /\ UNCHANGED exchange_vars

\* Neither the account nor the book is looked at: what an earlier call left
\* there, known to the caller or not, is still there.
StartOpen(direction, type) ==
    /\ Called("open")
    /\ \A leg \in Legs : Abs(exposure[leg]) <= MaxHeld
    /\ call' = OpenPair(
         Order("eth", EntrySide(direction, "eth"), Qty, type, FALSE),
         Order("btc", EntrySide(direction, "btc"), Qty, type, FALSE))

StartClose(type) ==
    /\ Called("close")
    /\ ~Flat /\ ~Residual
    /\ call' = ClosePair(
         Order("eth", CloseForQty(exposure["eth"]), Abs(exposure["eth"]),
               type, TRUE),
         Order("btc", CloseForQty(exposure["btc"]), Abs(exposure["btc"]),
               type, TRUE))

StartRepair ==
    /\ Called("repair")
    /\ Residual
    /\ call' = RepairResidual(exposure)

StartCancel ==
    /\ Called("cancel")
    /\ \E o \in book : call' = CancelOrder(o.leg, o.oid)

\* The caller takes the result.
Take ==
    /\ call.stage = "returned"
    /\ call' = Idle
    /\ op' = "none"
    /\ since' = 0
    /\ before' = NoLegs
    /\ moved' = {}
    /\ UNCHANGED exchange_vars

\* A resting order is taken; one of an earlier call changes the account the
\* call in progress started from.
RestingTaken ==
    \E o \in book : \E qty \in 0..Fillable(o) :
      /\ Taking(o, qty)
      /\ IF o.oid < since
         THEN /\ before' = [before EXCEPT ![o.leg] = @ + Sign(o.side) * qty]
              /\ moved' = moved \cup {o.leg}
         ELSE UNCHANGED <<before, moved>>
      /\ UNCHANGED <<call, op, since>>

Next ==
    \/ \E direction \in Directions, type \in OpenTypes :
         StartOpen(direction, type)
    \/ \E type \in CloseTypes : StartClose(type)
    \/ StartRepair
    \/ StartCancel
    \/ Take
    \/ EngineStep /\ UNCHANGED history
    \/ RestingTaken

Spec == Init /\ [][Next]_pair_vars

\* The engine's own steps go on as long as a request is in flight: the future
\* is awaited and every post has a timeout.
FairSpec == Spec /\ WF_pair_vars(EngineStep /\ UNCHANGED history)

----------------------------------------------------------------------------
Returned(operation) == op = operation /\ call.stage = "returned"

\* What the call in progress did to a leg.
Change(leg) == exposure[leg] - before[leg]

\* The orders it has on the book.
Own == {o \in book : o.oid >= since}

\* An open that reports two fills did exactly those two fills to the account, on
\* opposite sides, whatever it met there and whatever order an earlier call
\* left on the book was taken meanwhile: the strategy records its position from
\* the report.  A lost answer breaks this, for the order is then sent twice.
OpenFillsMatch ==
    Returned("open") /\ call.result.kind = "PairFilled"
      /\ Spared({"lost_response"})
      =>
      /\ Abs(Change("eth")) = call.result.eth
      /\ Abs(Change("btc")) = call.result.btc
      /\ Change("eth") * Change("btc") < 0

\* Answers arrive and parse.
Answered == Spared({"lost_response", "garbled"})

\* An open that fails without the PartialFill class left nothing behind, no
\* position and no order: the strategy treats "post only would take" as a
\* cancelled entry and goes on as Flat.  (A resting order that filled in part
\* before its cancel breaks this: the cancel succeeds all the same.)
OpenErrorIsClean ==
    Returned("open") /\ Failed(call.result)
      /\ call.result.class # "PartialFill"
      /\ Answered /\ Spared({"partial"})
      => exposure = before /\ Own = {}

\* No order ever went on the book.
NothingRested == next_oid = 1

\* An open on a flat account that fails has put everything back: where no order
\* rests, open_pair is atomic unless its own rollback failed, or filled in part
\* only.  (On an account that is not flat the reduce-only rollback can be capped.)
OpenRolledBack ==
    Returned("open") /\ Failed(call.result)
      /\ call.result.why # "rollback_failed"
      /\ before = NoLegs
      /\ Answered /\ Spared({"partial"}) /\ NothingRested
      => exposure = before

\* A close that reports both fills did those fills to the account, and unless one
\* of them was partial it has closed both legs: what is left on a leg came from
\* an order of an earlier call that was taken meanwhile.
CloseFillsMatch ==
    Returned("close") /\ call.result.kind = "PairFilled"
      /\ Spared({"lost_response"})
      =>
      /\ Abs(Change("eth")) = call.result.eth
      /\ Abs(Change("btc")) = call.result.btc
      /\ Spared({"partial"}) =>
           \A leg \in Legs \ moved : exposure[leg] = 0

\* What the documentation says of both calls: one that fails has put everything
\* back.
PairAtomic ==
    op \in {"open", "close"} /\ call.stage = "returned" /\ Failed(call.result)
      => exposure = before /\ Own = {}

\* repair_residual never opens anything: the other leg stays at zero and the
\* repaired leg never grows or turns over, whatever is retried or lost, unless
\* an order of an earlier call is taken meanwhile.
RepairOnlyReduces ==
    op = "repair" /\ moved = {} =>
      \A leg \in Legs :
        IF before[leg] > 0 THEN exposure[leg] \in 0..before[leg]
                           ELSE exposure[leg] \in before[leg]..0

\* Every call returns, however long the faults of Endless go on: retries are
\* bounded, and so are the rollbacks and cancels a failure leads to.
CallReturns == []<>(call.stage \in {"idle", "returned"})
=============================================================================
