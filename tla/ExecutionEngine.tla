--------------------------- MODULE ExecutionEngine --------------------------
(***************************************************************************)
(* ExecutionEngine of src/execution/mod.rs: open_pair, close_pair,         *)
(* repair_residual and cancel_order, each a sequence of requests to the    *)
(* exchange, every request retried by retry_with or, for market orders,    *)
(* by retry_market_with_requote.                                           *)
(*                                                                         *)
(* One step is one attempt of one request, from the moment it is sent to   *)
(* the moment its answer, or its loss, is known to the engine.  call.stage *)
(* is the request being attempted; call.result is what the operation       *)
(* returned.  The backoff sleeps are the points between two steps.         *)
(***************************************************************************)
EXTENDS Exchange

CONSTANTS
    MaxAttempts,     \* RetryConfig.max_attempts.max(1)
    MarketAttempts   \* max_attempts.max(4) of market orders

ASSUME AttemptsAssumption ==
    /\ MaxAttempts \in Nat \ {0}
    /\ MarketAttempts \in Nat \ {0}
    /\ MaxAttempts <= MarketAttempts

VARIABLE call

engine_vars == <<exchange_vars, call>>

\* Stages that have a request in flight.
OrderStages ==
    {"open_eth", "open_btc", "open_rollback", "close_eth", "close_btc",
     "close_rollback", "repair"}

CancelStages == {"open_cancel", "cancel"}

Stages == {"idle", "returned"} \cup OrderStages \cup CancelStages

Idle ==
    [stage |-> "idle", attempt |-> 0, request |-> None, second |-> None,
     first |-> None, cause |-> None, result |-> None]

Order(leg, side, qty, type, reduce_only) ==
    [leg |-> leg, side |-> side, qty |-> qty, type |-> type,
     reduce_only |-> reduce_only]

Cancel(leg, oid) == [leg |-> leg, oid |-> oid]

\* What the operations return: a pair of fills, a pair of resting orders, a
\* single fill, a completed cancel, or an error of one of the three classes.
PairFilled(eth, btc) == [kind |-> "PairFilled", eth |-> eth, btc |-> btc]

PairResting(eth, btc) == [kind |-> "PairResting", eth |-> eth, btc |-> btc]

LegFilled(qty) == [kind |-> "LegFilled", qty |-> qty]

OrderCancelled == [kind |-> "OrderCancelled"]

Error(class, why) == [kind |-> "Error", class |-> class, why |-> why]

PassedOn(reply) == Error(reply.kind, reply.why)

Results ==
    [kind : {"PairFilled"}, eth : Nat \ {0}, btc : Nat \ {0}]
    \cup [kind : {"PairResting"}, eth : Nat, btc : Nat]
    \cup [kind : {"LegFilled"}, qty : Nat]
    \cup {OrderCancelled}
    \cup [kind : {"Error"}, class : {"Transient", "Fatal", "PartialFill"},
           why : Reasons \cup {"rollback_failed", "rollback_executed"}]

\* No result looks like the absence of one.
ASSUME NoResultAssumption == None \notin Results

Failed(result) == result.kind = "Error"

----------------------------------------------------------------------------
(* How a call starts.                                                       *)

\* open_pair submits the ETH leg first.
OpenPair(eth, btc) ==
    [Idle EXCEPT !.stage = "open_eth", !.request = eth, !.second = btc]

\* close_pair sends both legs reduce-only.
ClosePair(eth, btc) ==
    [Idle EXCEPT !.stage = "close_eth",
                 !.request = [eth EXCEPT !.reduce_only = TRUE],
                 !.second = [btc EXCEPT !.reduce_only = TRUE]]

\* A repair on the side that adds to the leg (a mutant).
RepairAddsToLeg(qty) ==
    LET leg == CHOOSE l \in Legs : qty[l] # 0
    IN  [Idle EXCEPT
           !.stage = "repair",
           !.request = Order(leg, IF qty[leg] > 0 THEN "Buy" ELSE "Sell",
                             Abs(qty[leg]), "Market", TRUE)]

\* A repair that may turn the leg over (a mutant).
RepairNotReduceOnly(qty) ==
    LET leg == CHOOSE l \in Legs : qty[l] # 0
    IN  [Idle EXCEPT
           !.stage = "repair",
           !.request = Order(leg, CloseForQty(qty[leg]), Abs(qty[leg]),
                             "Market", FALSE)]

\* repair_residual closes the only leg that is not zero; a position that is
\* not residual returns Ok(None) without a request.
RepairResidual(qty) ==
    LET leg == CHOOSE l \in Legs : qty[l] # 0
    IN  [Idle EXCEPT
           !.stage = "repair",
           !.request = Order(leg, CloseForQty(qty[leg]), Abs(qty[leg]),
                             "Market", TRUE)]

CancelOrder(leg, oid) ==
    [Idle EXCEPT !.stage = "cancel", !.request = Cancel(leg, oid)]

----------------------------------------------------------------------------
(* One attempt.                                                             *)

Outcomes(c) ==
    IF c.stage \in CancelStages
    THEN CancelOutcomes(c.request.leg, c.request.oid)
    ELSE OrderOutcomes(c.request)

IsMarket(c) == c.stage \in OrderStages /\ c.request.type = "Market"

Attempts(c) == IF IsMarket(c) THEN MarketAttempts ELSE MaxAttempts

\* Transient errors are retried; for market orders so is an IOC order that
\* found no match.
Retryable(c, reply) ==
    \/ reply.kind = "Transient"
    \/ IsMarket(c) /\ reply.kind = "Fatal" /\ reply.why = "no_match"

\* One attempt too many (a mutant).
RetriesOnceMore(c, reply) == Retryable(c, reply) /\ c.attempt < Attempts(c)

WillRetry(c, reply) == Retryable(c, reply) /\ c.attempt + 1 < Attempts(c)

\* The last attempt is followed by the first again (a mutant).
RetriesForEver ==
    /\ call.stage \in OrderStages \cup CancelStages
    /\ \E o \in Outcomes(call) :
         /\ Retryable(call, o.reply)
         /\ Apply(o)
         /\ call' = [call EXCEPT !.attempt = (@ + 1) % Attempts(call)]

\* The request is sent again, unchanged but for its price and nonce.
Retry ==
    /\ call.stage \in OrderStages \cup CancelStages
    /\ \E o \in Outcomes(call) :
         /\ WillRetry(call, o.reply)
         /\ Apply(o)
         /\ call' = [call EXCEPT !.attempt = @ + 1]

\* The outcomes that end the request the stage attempts.
Final(stage) ==
    IF call.stage = stage
    THEN {o \in Outcomes(call) : ~WillRetry(call, o.reply)}
    ELSE {}

Return(result) == [Idle EXCEPT !.stage = "returned", !.result = result]

\* OrderSubmitResult::expect_filled: a resting order is an error to the callers
\* that need a fill, and stays on the book.
ExpectFilled(reply) ==
    IF reply.kind = "Resting" THEN Fatal("resting_on_book") ELSE reply

GoTo(stage, request) ==
    [call EXCEPT !.stage = stage, !.attempt = 0, !.request = request]

----------------------------------------------------------------------------
(* open_pair.                                                               *)

OpenEth ==
    \E o \in Final("open_eth") :
      /\ Apply(o)
      /\ call' = IF IsError(o.reply)
                 THEN Return(PassedOn(o.reply))
                 ELSE [GoTo("open_btc", call.second) EXCEPT !.first = o.reply]

\* A rollback that is not reduce-only (a mutant).
RollbackNotReduceOnly(leg, fill) ==
    Order(leg, CloseForQty(fill.qty), Abs(fill.qty), "Market", FALSE)

\* The rollback of a leg that filled alone: a reduce-only market order on the
\* side close_for_qty gives for the reported (unsigned) fill quantity.
Rollback(leg, fill) ==
    Order(leg, CloseForQty(fill.qty), Abs(fill.qty), "Market", TRUE)

\* open_pair that takes any answer of the second leg for its fill (a mutant).
OpenBtcTakenAsFilled ==
    \E o \in Final("open_btc") :
      /\ Apply(o)
      /\ call' = IF call.first.kind = "Filled"
                 THEN Return(PairFilled(call.first.qty, call.request.qty))
                 ELSE Return(Error("PartialFill", "rollback_executed"))

OpenBtc ==
    \E o \in Final("open_btc") :
      /\ Apply(o)
      /\ call' =
           CASE call.first.kind = "Filled" /\ o.reply.kind = "Filled" ->
                  Return(PairFilled(call.first.qty, o.reply.qty))
             [] call.first.kind = "Resting" /\ o.reply.kind = "Resting" ->
                  Return(PairResting(call.first.oid, o.reply.oid))
             [] call.first.kind = "Filled" /\ o.reply.kind # "Filled" ->
                  GoTo("open_rollback", Rollback("eth", call.first))
             [] call.first.kind = "Resting" /\ o.reply.kind = "Filled" ->
                  GoTo("open_rollback", Rollback("btc", o.reply))
             [] call.first.kind = "Resting" /\ IsError(o.reply) ->
                  [GoTo("open_cancel", Cancel("eth", call.first.oid)) EXCEPT
                     !.cause = o.reply]

\* A rollback failure reported as Fatal (a mutant).
OpenRollbackFatal ==
    \E o \in Final("open_rollback") :
      /\ Apply(o)
      /\ call' = Return(IF IsError(o.reply)
                        THEN Error("Fatal", "rollback_failed")
                        ELSE Error("PartialFill", "rollback_executed"))

OpenRollback ==
    \E o \in Final("open_rollback") :
      /\ Apply(o)
      /\ call' = Return(Error("PartialFill",
                              IF IsError(o.reply) THEN "rollback_failed"
                              ELSE "rollback_executed"))

\* A failed cancel reported like a done one (a mutant).
OpenCancelUnchecked ==
    \E o \in Final("open_cancel") :
      /\ Apply(o)
      /\ call' = Return(Error("Fatal", call.cause.why))

\* The message of the Fatal error keeps the second leg's reason.
OpenCancel ==
    \E o \in Final("open_cancel") :
      /\ Apply(o)
      /\ call' = Return(IF IsError(o.reply)
                        THEN Error("PartialFill", call.cause.why)
                        ELSE Error("Fatal", call.cause.why))

----------------------------------------------------------------------------
(* close_pair.                                                              *)

CloseEth ==
    \E o \in Final("close_eth") :
      /\ Apply(o)
      /\ LET fill == ExpectFilled(o.reply)
         IN  call' = IF IsError(fill)
                     THEN Return(PassedOn(fill))
                     ELSE [GoTo("close_btc", call.second) EXCEPT
                             !.first = fill, !.cause = call.request.type]

\* The rollback on the other side (a mutant; what a long pair would need).
ReopenOpposite(c, type) ==
    Order("eth", IF c.first.qty > 0 THEN "Buy" ELSE "Sell", Abs(c.first.qty),
          type, FALSE)

\* The rollback submits the closed quantity again, not reduce-only, on the side
\* close_for_qty gives for the unsigned fill.
Reopen(c, type) ==
    Order("eth", CloseForQty(c.first.qty), Abs(c.first.qty), type, FALSE)

\* close_pair that ignores an error of the second leg (a mutant).
CloseBtcUnchecked ==
    \E o \in Final("close_btc") :
      /\ Apply(o)
      /\ call' = Return(PairFilled(call.first.qty, call.request.qty))

CloseBtc ==
    \E o \in Final("close_btc") :
      /\ Apply(o)
      /\ LET fill == ExpectFilled(o.reply)
         IN  call' = IF IsError(fill)
                     THEN GoTo("close_rollback", Reopen(call, call.cause))
                     ELSE Return(PairFilled(call.first.qty, fill.qty))

CloseRollback ==
    \E o \in Final("close_rollback") :
      /\ Apply(o)
      /\ call' = Return(Error("PartialFill",
                              IF IsError(ExpectFilled(o.reply))
                              THEN "rollback_failed"
                              ELSE "rollback_executed"))

----------------------------------------------------------------------------
(* repair_residual and cancel_order.                                        *)

Repair ==
    \E o \in Final("repair") :
      /\ Apply(o)
      /\ LET fill == ExpectFilled(o.reply)
         IN  call' = Return(IF IsError(fill) THEN PassedOn(fill)
                            ELSE LegFilled(fill.qty))

CancelResting ==
    \E o \in Final("cancel") :
      /\ Apply(o)
      /\ call' = Return(IF IsError(o.reply) THEN PassedOn(o.reply)
                        ELSE OrderCancelled)

EngineStep ==
    \/ Retry
    \/ OpenEth
    \/ OpenBtc
    \/ OpenRollback
    \/ OpenCancel
    \/ CloseEth
    \/ CloseBtc
    \/ CloseRollback
    \/ Repair
    \/ CancelResting
=============================================================================
