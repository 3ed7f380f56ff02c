------------------------ MODULE PairExecutionProofs ------------------------
(***************************************************************************)
(* What ExecutionEngine owes its callers (PairExecution), proved for       *)
(* orders of any size, any number of attempts, any number of faults of     *)
(* every kind, and any sequence of calls.                                  *)
(***************************************************************************)
EXTENDS PairExecution, EngineProofs

\* The stage belongs to the operation, and the history to the call.
OpOK ==
    /\ op \in Operations \cup {"none"}
    /\ op = "none" <=> call.stage = "idle"
    /\ since \in 0..next_oid
    /\ before \in [Legs -> Int]
    /\ moved \subseteq Legs
    /\ call.stage \in OpenStages => op = "open"
    /\ call.stage \in CloseStages => op = "close"
    /\ call.stage = "repair" => op = "repair"
    /\ call.stage = "cancel" => op = "cancel"

\* The type invariant, strong enough to be inductive.
TypeInv == EngineInv /\ met \subseteq Faults /\ OpOK

USE DEF EngineInv, TypeInv

\* The call has done nothing yet.
Untouched == Own = {} /\ Change("eth") = 0 /\ Change("btc") = 0

\* The order of a repair can neither rest nor grow a leg.
RepairInv ==
    /\ call.stage = "repair" =>
         call.request.reduce_only /\ call.request.type = "Market"
    /\ op = "repair" => Own = {}
    /\ RepairOnlyReduces

\* An open on its way to two fills.
OpeningInv ==
    "lost_response" \notin met =>
      /\ call.stage = "open_eth" =>
           /\ Untouched
           /\ call.request.leg = "eth" /\ call.second.leg = "btc"
           /\ call.second.side = Opposite(call.request.side)
      /\ call.stage = "open_btc" =>
           /\ call.request.leg = "btc"
           /\ call.first.kind = "Filled" =>
                /\ Own = {} /\ Change("btc") = 0
                /\ Change("eth") = IF call.request.side = "Sell"
                                   THEN call.first.qty ELSE -call.first.qty
      /\ Returned("open") /\ call.result.kind = "PairFilled" => Own = {}
      /\ OpenFillsMatch

\* What is on the book of this call is the order of its first leg, and while it is
\* there the call has done nothing to the account.
OnlyFirst(leg, oid) ==
    /\ oid >= since
    /\ \A x \in Own : x.leg = leg /\ x.oid = oid
    /\ Own # {} => Change("eth") = 0 /\ Change("btc") = 0

\* An open on its way to an error after its first leg went on the book.
CancellingInv ==
    Clean =>
      /\ call.stage = "open_btc" /\ call.first.kind = "Resting" =>
           OnlyFirst("eth", call.first.oid)
      /\ call.stage = "open_cancel" =>
           OnlyFirst(call.request.leg, call.request.oid)
      /\ OpenErrorIsClean

\* An open on its way to an error when nothing went on the book.
RollbackInv ==
    /\ call.stage = "open_btc" /\ call.first.kind = "Resting" => next_oid > 1
    /\ call.stage = "open_cancel" => next_oid > 1
    /\ Clean /\ NothingRested =>
         /\ call.stage = "open_rollback" =>
              /\ Change("btc") = 0
              /\ call.request.leg = "eth" /\ call.request.side = "Sell"
              /\ call.request.type = "Market" /\ call.request.reduce_only
              /\ Change("eth") \in {call.request.qty, -call.request.qty}
         /\ OpenRolledBack

\* Where no order of an earlier call was taken on the leg since the call was made,
\* this order closes what the leg holds.
Closes(order, leg) ==
    order.leg = leg /\ (leg \notin moved => ClosesLeg(order, leg, exposure[leg]))

\* A close on its way to two fills.
ClosingInv ==
    "lost_response" \notin met =>
      /\ call.stage = "close_eth" =>
           Untouched /\ Closes(call.request, "eth") /\ Closes(call.second, "btc")
      /\ call.stage = "close_btc" =>
           /\ Own = {} /\ Change("btc") = 0
           /\ Abs(Change("eth")) = call.first.qty
           /\ Closes(call.request, "btc")
           /\ "partial" \notin met /\ "eth" \notin moved => exposure["eth"] = 0
      /\ Returned("close") /\ call.result.kind = "PairFilled" => Own = {}
      /\ CloseFillsMatch

----------------------------------------------------------------------------
(* Steps.                                                                   *)

\* What a call starts with.
LEMMA Starts ==
    ASSUME TypeInv
    PROVE  /\ \A direction \in Directions, type \in OpenTypes :
                StartOpen(direction, type) =>
                  /\ call'.stage = "open_eth" /\ call'.request \in Orders
                  /\ call'.second \in Orders
                  /\ call'.request.leg = "eth" /\ call'.second.leg = "btc"
                  /\ call'.second.side = Opposite(call'.request.side)
           /\ \A type \in CloseTypes :
                StartClose(type) =>
                  /\ call'.stage = "close_eth" /\ call'.request \in Orders
                  /\ call'.second \in Orders
                  /\ Closes(call.request, "eth")' /\ Closes(call.second, "btc")'
           /\ StartRepair =>
                /\ call'.stage = "repair" /\ call'.request \in Orders
                /\ call'.request.reduce_only /\ call'.request.type = "Market"
           /\ StartCancel =>
                call'.stage = "cancel" /\ call'.request \in Cancels
  <1>1. exposure \in [Legs -> Int]
    BY DEF ExchangeTypeOK
  <1>2. ASSUME NEW direction \in Directions, NEW type \in OpenTypes,
               StartOpen(direction, type)
        PROVE  /\ call'.stage = "open_eth" /\ call'.request \in Orders
               /\ call'.second \in Orders
               /\ call'.request.leg = "eth" /\ call'.second.leg = "btc"
               /\ call'.second.side = Opposite(call'.request.side)
    <2> DEFINE eth == Order("eth", EntrySide(direction, "eth"), Qty, type, FALSE)
               btc == Order("btc", EntrySide(direction, "btc"), Qty, type, FALSE)
    <2>1. eth \in Orders /\ btc \in Orders /\ eth.leg = "eth" /\ btc.leg = "btc"
      BY <1>2, QtyAssumption, TypesAssumption
         DEF Order, Orders, Legs, Sides, EntrySide
    <2>2. btc.side = Opposite(eth.side)
      BY DEF Order, Opposite, EntrySide
    <2>3. call' = OpenPair(eth, btc)
      BY <1>2 DEF StartOpen
    <2>4. call'.stage = "open_eth" /\ call'.request = eth /\ call'.second = btc
      BY <2>3 DEF OpenPair, Idle
    <2> QED
      BY <2>1, <2>2, <2>4
  <1>3. ASSUME NEW type \in CloseTypes, StartClose(type)
        PROVE  /\ call'.stage = "close_eth" /\ call'.request \in Orders
               /\ call'.second \in Orders
               /\ Closes(call.request, "eth")' /\ Closes(call.second, "btc")'
    <2>0. PICK flag \in BOOLEAN : flag = TRUE
      OBVIOUS
    <2> DEFINE close(leg) == Order(leg, CloseForQty(exposure[leg]),
                                   Abs(exposure[leg]), type, flag)
    <2>1. exposure["eth"] \in Int \ {0} /\ exposure["btc"] \in Int \ {0}
      BY <1>1, <1>3 DEF StartClose, Flat, Residual, Legs
    <2>2. \A leg \in Legs :
            /\ close(leg) \in Orders
            /\ [close(leg) EXCEPT !.reduce_only = flag] = close(leg)
            /\ close(leg).leg = leg /\ close(leg).reduce_only = flag
            /\ close(leg).qty = Abs(exposure[leg])
            /\ close(leg).side = CloseForQty(exposure[leg])
      BY <1>3, <2>1, ClosingOrder, TypesAssumption DEF Legs
    <2>3. call' = ClosePair(close("eth"), close("btc")) /\ exposure' = exposure
      BY <1>3, <2>0 DEF StartClose, Called, exchange_vars
    <2> HIDE DEF close
    <2>4. /\ call'.stage = "close_eth" /\ call'.request = close("eth")
          /\ call'.second = close("btc")
      BY <2>0, <2>2, <2>3 DEF ClosePair, Idle, Legs
    <2>5. "eth" \in Legs /\ "btc" \in Legs
      BY DEF Legs
    <2>6. Closes(call.request, "eth")' /\ Closes(call.second, "btc")'
      BY <2>0, <2>2, <2>3, <2>4, <2>5 DEF Closes, ClosesLeg
    <2> QED
      BY <2>2, <2>4, <2>5, <2>6
  <1>4. ASSUME StartRepair
        PROVE  /\ call'.stage = "repair" /\ call'.request \in Orders
               /\ call'.request.reduce_only /\ call'.request.type = "Market"
    <2> DEFINE lone == CHOOSE l \in Legs : exposure[l] # 0
               order == Order(lone, CloseForQty(exposure[lone]),
                              Abs(exposure[lone]), "Market", TRUE)
    <2>1. lone \in Legs /\ exposure[lone] # 0
      BY <1>4 DEF StartRepair, Residual, Flat
    <2>2. call'.stage = "repair" /\ call'.request = order
      BY <1>4 DEF StartRepair, RepairResidual, Idle
    <2> HIDE DEF lone
    <2>3. /\ order \in Orders /\ order.reduce_only /\ order.type = "Market"
      BY <1>1, <2>1 DEF Order, Orders, OrderTypes, Sides, CloseForQty, Abs
    <2> QED
      BY <2>2, <2>3
  <1>5. ASSUME StartCancel
        PROVE  call'.stage = "cancel" /\ call'.request \in Cancels
    <2>1. PICK o \in book : call' = CancelOrder(o.leg, o.oid)
      BY <1>5 DEF StartCancel
    <2>2. o.leg \in Legs /\ o.oid \in Nat
      BY DEF ExchangeTypeOK
    <2> QED
      BY <2>1, <2>2 DEF CancelOrder, Cancel, Cancels, Idle
  <1> QED
    BY <1>2, <1>3, <1>4, <1>5

\* The caller's own steps touch nothing but the call and its history.
LEMMA CallerOK ==
    ASSUME TypeInv,
           \/ \E direction \in Directions, type \in OpenTypes :
                StartOpen(direction, type)
           \/ \E type \in CloseTypes : StartClose(type)
           \/ StartRepair
           \/ StartCancel
           \/ Take
    PROVE  CallOK' /\ OpOK' /\ UNCHANGED exchange_vars
  <1>0. /\ call'.attempt = 0 /\ call'.result = None
        /\ DOMAIN call' = DOMAIN call
    <2> DEFINE Blank(c) ==
                 /\ c.attempt = 0 /\ c.result = None
                 /\ DOMAIN c = {"stage", "attempt", "request", "second", "first",
                                "cause", "result"}
    <2>1. /\ Blank(Idle)
          /\ \A eth, btc : Blank(OpenPair(eth, btc)) /\ Blank(ClosePair(eth, btc))
          /\ \A leg, oid : Blank(CancelOrder(leg, oid))
          /\ Blank(RepairResidual(exposure))
      <3>1. Blank(Idle)
        BY CallFields
      <3>2. \A eth, btc : Blank(OpenPair(eth, btc))
        BY DEF OpenPair, Idle
      <3>3. \A eth, btc : Blank(ClosePair(eth, btc))
        BY DEF ClosePair, Idle
      <3>4. \A leg, oid : Blank(CancelOrder(leg, oid))
        BY DEF CancelOrder, Idle
      <3>5. Blank(RepairResidual(exposure))
        BY DEF RepairResidual, Idle
      <3> QED
        BY <3>1, <3>2, <3>3, <3>4, <3>5
    <2>2. \/ \E eth, btc : call' = OpenPair(eth, btc)
          \/ \E eth, btc : call' = ClosePair(eth, btc)
          \/ call' = RepairResidual(exposure)
          \/ \E leg, oid : call' = CancelOrder(leg, oid)
          \/ call' = Idle
      BY Zenon DEF StartOpen, StartClose, StartRepair, StartCancel, Take
    <2> QED
      BY <2>1, <2>2 DEF CallOK
  <1>1. call'.attempt \in 0..(MarketAttempts - 1)
    BY <1>0, AttemptsAssumption
  <1>h. ASSUME NEW operation \in Operations, Called(operation)
        PROVE  /\ UNCHANGED exchange_vars
               /\ op' = operation /\ since' \in 0..next_oid'
               /\ before' \in [Legs -> Int] /\ moved' \subseteq Legs
    BY <1>h DEF Called, exchange_vars, ExchangeTypeOK
  <1> USE DEF Stages, OrderStages, CancelStages, OpenStages, CloseStages, Operations
  <1>2. ASSUME NEW direction \in Directions, NEW type \in OpenTypes,
               StartOpen(direction, type)
        PROVE  CallOK' /\ OpOK' /\ UNCHANGED exchange_vars
    <2>1. call'.stage = "open_eth" /\ call'.request \in Orders /\ call'.second \in Orders
      BY <1>2, Starts
    <2>2. Called("open")
      BY <1>2 DEF StartOpen
    <2> QED
      BY <1>0, <1>1, <1>h, <2>1, <2>2 DEF CallOK, OpOK
  <1>3. ASSUME NEW type \in CloseTypes, StartClose(type)
        PROVE  CallOK' /\ OpOK' /\ UNCHANGED exchange_vars
    <2>1. call'.stage = "close_eth" /\ call'.request \in Orders /\ call'.second \in Orders
      BY <1>3, Starts
    <2>2. Called("close")
      BY <1>3 DEF StartClose
    <2> QED
      BY <1>0, <1>1, <1>h, <2>1, <2>2 DEF CallOK, OpOK
  <1>4. CASE StartRepair
    <2>1. call'.stage = "repair" /\ call'.request \in Orders
      BY <1>4, Starts
    <2>2. Called("repair")
      BY <1>4 DEF StartRepair
    <2> QED
      BY <1>0, <1>1, <1>h, <2>1, <2>2 DEF CallOK, OpOK
  <1>5. CASE StartCancel
    <2>1. call'.stage = "cancel" /\ call'.request \in Cancels
      BY <1>5, Starts
    <2>2. Called("cancel")
      BY <1>5 DEF StartCancel
    <2> QED
      BY <1>0, <1>1, <1>h, <2>1, <2>2 DEF CallOK, OpOK
  <1>6. CASE Take
    <2>1. call'.stage = "idle"
      BY <1>6, CallFields DEF Take
    <2>2. /\ UNCHANGED exchange_vars
          /\ op' = "none" /\ since' \in 0..next_oid'
          /\ before' \in [Legs -> Int] /\ moved' \subseteq Legs
      BY <1>6 DEF Take, NoLegs, exchange_vars, ExchangeTypeOK
    <2> QED
      BY <1>0, <1>1, <2>1, <2>2 DEF CallOK, OpOK
  <1> QED
    BY <1>2, <1>3, <1>4, <1>5, <1>6

\* The steps of the specification, for the case splits below.
CallerStep ==
    \/ \E direction \in Directions, type \in OpenTypes : StartOpen(direction, type)
    \/ \E type \in CloseTypes : StartClose(type)
    \/ StartRepair
    \/ StartCancel
    \/ Take

\* An order of the book that is taken is one of the call in progress, which did
\* it, or one of an earlier call, which moves the account the call started from.
LEMMA RestingTakenEffect ==
    ASSUME TypeInv, RestingTaken
    PROVE  /\ TakeResting /\ UNCHANGED <<call, op, since>>
           /\ before' \in [Legs -> Int] /\ moved' \subseteq Legs /\ moved \subseteq moved'
           /\ \E x \in book, qty \in Nat :
                /\ Taken(x, qty)
                /\ x \in Own => UNCHANGED before
                /\ x \notin Own =>
                     /\ x.leg \in moved'
                     /\ Change("eth")' = Change("eth") /\ Change("btc")' = Change("btc")
                /\ \A leg \in Legs : leg # x.leg => exposure'[leg] = exposure[leg]
  <1> DEFINE Took(x, qty) ==
               /\ Taking(x, qty)
               /\ IF x.oid < since
                  THEN /\ before' = [before EXCEPT ![x.leg] = @ + Sign(x.side) * qty]
                       /\ moved' = moved \cup {x.leg}
                  ELSE UNCHANGED <<before, moved>>
               /\ UNCHANGED <<call, op, since>>
  <1>0. PICK x \in book : \E qty \in 0..Fillable(x) : Took(x, qty)
    BY DEF RestingTaken
  <1>1. PICK qty \in 0..Fillable(x) : Took(x, qty)
    BY <1>0
  <1>2. qty \in Nat /\ Taken(x, qty)
    BY <1>1, TakingEffect
  <1>3. /\ x.leg \in Legs /\ Sign(x.side) \in {1, -1} /\ x.oid \in Int /\ since \in Int
        /\ exposure \in [Legs -> Int] /\ before \in [Legs -> Int] /\ moved \subseteq Legs
    BY DEF ExchangeTypeOK, OpOK, Sign
  <1>4. exposure' = [exposure EXCEPT ![x.leg] = @ + Sign(x.side) * qty]
    BY <1>2 DEF Taken
  <1>5. TakeResting /\ UNCHANGED <<call, op, since>>
    BY <1>1 DEF TakeResting
  <1>6. /\ before' \in [Legs -> Int] /\ moved' \subseteq Legs /\ moved \subseteq moved'
    BY <1>1, <1>2, <1>3
  <1>7. x \in Own => UNCHANGED before
    BY <1>1, <1>3 DEF Own
  <1>8. ASSUME x \notin Own
        PROVE  /\ x.leg \in moved'
               /\ Change("eth")' = Change("eth") /\ Change("btc")' = Change("btc")
    <2>1. /\ before' = [before EXCEPT ![x.leg] = @ + Sign(x.side) * qty]
          /\ x.leg \in moved'
      BY <1>1, <1>3, <1>8 DEF Own
    <2>2. Sign(x.side) * qty \in Int
      BY <1>2, <1>3
    <2> QED
      BY <1>3, <1>4, <2>1, <2>2 DEF Change, Legs
  <1>9. \A leg \in Legs : leg # x.leg => exposure'[leg] = exposure[leg]
    BY <1>3, <1>4
  <1> QED
    BY <1>2, <1>5, <1>6, <1>7, <1>8, <1>9

\* A call with nothing on the book is not concerned: what it did to the account
\* stays, and so does every leg on which no order of an earlier call was taken.
LEMMA EarlierTaken ==
    ASSUME TypeInv, RestingTaken, Own = {}
    PROVE  /\ Own' = {} /\ UNCHANGED <<call, op>>
           /\ Change("eth")' = Change("eth") /\ Change("btc")' = Change("btc")
           /\ moved' # {} /\ moved \subseteq moved' /\ moved' \subseteq Legs
           /\ \A leg \in Legs \ moved' : exposure'[leg] = exposure[leg]
  <1>1. PICK x \in book, qty \in Nat :
          /\ Taken(x, qty)
          /\ x \notin Own =>
               /\ x.leg \in moved'
               /\ Change("eth")' = Change("eth") /\ Change("btc")' = Change("btc")
          /\ \A leg \in Legs : leg # x.leg => exposure'[leg] = exposure[leg]
    BY RestingTakenEffect
  <1>2. UNCHANGED <<call, op, since>> /\ moved \subseteq moved' /\ moved' \subseteq Legs
    BY RestingTakenEffect
  <1>3. \A y \in book' : \E z \in book : y.oid = z.oid
    BY <1>1 DEF Taken, ExchangeTypeOK
  <1>4. Own' = {}
    BY <1>2, <1>3 DEF Own
  <1> QED
    BY <1>1, <1>2, <1>4

\* A call stays well formed through any sequence of calls and answers (every
\* operation of ExecutionEngine).
LEMMA TypeInductive == Spec => []TypeInv
  <1>1. Init => TypeInv
    <2> SUFFICES ASSUME Init PROVE TypeInv
      OBVIOUS
    <2>1. ExchangeTypeOK /\ met \subseteq Faults
      BY FaultBoundAssumption DEF Init, ExchangeInit, ExchangeTypeOK, NoLegs
    <2>2. CallOK
      BY CallFields, AttemptsAssumption, NoResultAssumption
         DEF Init, CallOK, Stages, OrderStages, CancelStages
    <2>3. OpOK
      BY <2>1, CallFields
         DEF Init, OpOK, OpenStages, CloseStages, ExchangeTypeOK, NoLegs
    <2> QED
      BY <2>1, <2>2, <2>3
  <1>2. TypeInv /\ [Next]_pair_vars => TypeInv'
    <2> SUFFICES ASSUME TypeInv, [Next]_pair_vars PROVE TypeInv'
      OBVIOUS
    <2>1. CASE CallerStep
      <3>1. CallOK' /\ OpOK' /\ UNCHANGED exchange_vars
        BY <2>1, CallerOK DEF CallerStep
      <3> QED
        BY <3>1 DEF ExchangeTypeOK, exchange_vars
    <2>2. CASE EngineStep /\ UNCHANGED history
      <3>1. /\ CallOK' /\ ExchangeTypeOK' /\ met' \subseteq met \cup Faults
            /\ next_oid' >= next_oid
        BY <2>2, EngineOK, EngineKeepsExchange
      <3>2. UNCHANGED <<op, since, before, moved>>
        BY <2>2 DEF history
      <3>3. since' \in 0..next_oid'
        BY <3>1, <3>2 DEF OpOK, ExchangeTypeOK
      <3>4. OpOK'
        BY <2>2, <3>2, <3>3, EngineStages DEF OpOK, OpenStages, CloseStages
      <3> QED
        BY <2>2, <3>1, <3>4
    <2>3. CASE RestingTaken
      <3>1. ExchangeTypeOK' /\ met' \subseteq met \cup Faults /\ next_oid' = next_oid
        BY <2>3, RestingTakenEffect, TakingKeepsType
      <3> QED
        BY <2>3, <3>1, RestingTakenEffect DEF CallOK, OpOK
    <2>4. CASE UNCHANGED pair_vars
      BY <2>4 DEF pair_vars, engine_vars, exchange_vars, history, ExchangeTypeOK,
                  CallOK, OpOK
    <2> QED
      BY <2>1, <2>2, <2>3, <2>4 DEF Next, CallerStep
  <1> QED
    BY <1>1, <1>2, PTL DEF Spec

\* The type invariant of the runs.
THEOREM PairTypes == Spec => []PairTypeOK
  <1>1. TypeInv => PairTypeOK
    BY FaultsAssumption DEF PairTypeOK, CallOK, OpOK
  <1> QED
    BY <1>1, TypeInductive, PTL

----------------------------------------------------------------------------
(* repair_residual.                                                         *)

\* A leg between nothing and what it held when the call was made.
Shrunk(leg) ==
    IF before[leg] > 0 THEN exposure[leg] \in 0..before[leg]
                       ELSE exposure[leg] \in before[leg]..0

\* A reduce-only market order leaves every leg between nothing and what it held
\* when the call was made, whatever answer comes back.
LEMMA ReduceOnlyOrder ==
    ASSUME TypeInv, UNCHANGED <<before, since>>, NEW order \in Orders, NEW o,
           Effect(o, order), Apply(o), order.reduce_only, order.type = "Market"
    PROVE  /\ \A leg \in Legs : Shrunk(leg) => Shrunk(leg)'
           /\ Own' = Own
  <1>1. exposure \in [Legs -> Int] /\ before \in [Legs -> Int]
    BY DEF ExchangeTypeOK, OpOK
  <1>2. CASE Missed(o)
    BY <1>2 DEF Missed, Apply, Shrunk, Own
  <1>3. ASSUME NEW qty \in Nat, FilledWith(o, order, qty)
        PROVE  /\ \A leg \in Legs : Shrunk(leg) => Shrunk(leg)'
               /\ Own' = Own
    <2>1. /\ exposure' = [exposure EXCEPT ![order.leg] = @ + Sign(order.side) * qty]
          /\ book' = book /\ qty <= Fillable(order)
      BY <1>3, FillableRange DEF FilledWith, Apply, ExchangeTypeOK, Counted, Orders
    <2>2. order.leg \in Legs /\ order.side \in Sides
      BY DEF Orders
    <2>3. qty <= Reducible(order.leg, order.side)
      BY <2>1, <2>2 DEF Fillable, Reducible, Sign, ExchangeTypeOK, Orders
    <2>4. \/ /\ exposure[order.leg] >= 0
             /\ exposure'[order.leg] \in 0..exposure[order.leg]
          \/ /\ exposure[order.leg] <= 0
             /\ exposure'[order.leg] \in exposure[order.leg]..0
      BY <1>1, <2>1, <2>2, <2>3 DEF Reducible, Sign, Sides
    <2>5. \A leg \in Legs : leg # order.leg => exposure'[leg] = exposure[leg]
      BY <1>1, <2>1
    <2> QED
      BY <1>1, <2>1, <2>2, <2>4, <2>5 DEF Shrunk, Own
  <1> QED
    BY <1>2, <1>3 DEF Effect, WentOnBook

\* repair_residual never opens anything and never turns a leg over, whatever is
\* retried, lost or filled in part.
LEMMA RepairInductive == Spec => []RepairInv
  <1>1. Init => RepairInv
    BY CallFields DEF Init, RepairInv, RepairOnlyReduces
  <1>2. TypeInv /\ RepairInv /\ [Next]_pair_vars => RepairInv'
    <2> SUFFICES ASSUME TypeInv, RepairInv, [Next]_pair_vars PROVE RepairInv'
      OBVIOUS
    <2>s. \A leg \in Legs : exposure[leg] \in Int /\ before[leg] \in Int
      BY DEF ExchangeTypeOK, OpOK
    <2>1. CASE \/ \E direction \in Directions, type \in OpenTypes :
                    StartOpen(direction, type)
               \/ \E type \in CloseTypes : StartClose(type)
               \/ StartCancel
      <3>1. op' # "repair"
        BY <2>1 DEF StartOpen, StartClose, StartCancel, Called
      <3>2. call'.stage # "repair"
        BY <2>1, Starts
      <3> QED
        BY <3>1, <3>2 DEF RepairInv, RepairOnlyReduces
    <2>2. CASE StartRepair
      <3>1. call'.request.reduce_only /\ call'.request.type = "Market"
        BY <2>2, Starts
      <3>2. /\ exposure' = exposure /\ before' = exposure
            /\ book' = book /\ since' = next_oid
        BY <2>2 DEF StartRepair, Called, exchange_vars
      <3>3. Own' = {}
        BY <3>2 DEF Own, ExchangeTypeOK
      <3> QED
        BY <2>s, <3>1, <3>2, <3>3 DEF RepairInv, RepairOnlyReduces
    <2>3. CASE Take
      BY <2>3, CallFields DEF Take, RepairInv, RepairOnlyReduces
    <2>4. CASE EngineStep /\ UNCHANGED history
      <3>1. call'.stage = "repair" =>
              call.stage = "repair" /\ call'.request = call.request
        BY <2>4, EngineStages
      <3>2. UNCHANGED <<op, since, before, moved>>
        BY <2>4 DEF history
      <3>3. ASSUME op = "repair"
            PROVE  Own' = Own /\ \A leg \in Legs : Shrunk(leg) => Shrunk(leg)'
        <4>1. call.stage = "repair"
          BY <2>4, <3>3, Attempted
             DEF OpOK, OrderStages, CancelStages, OpenStages, CloseStages
        <4>2. PICK o \in Outcomes(call) : Apply(o)
          BY <2>4, Attempted
        <4>3. Effect(o, call.request) /\ call.request \in Orders
          BY <4>1, OrderAttempt DEF OrderStages
        <4>4. call.request.reduce_only /\ call.request.type = "Market"
          BY <4>1 DEF RepairInv
        <4> QED
          BY <3>2, <4>2, <4>3, <4>4, ReduceOnlyOrder
      <3> QED
        BY <3>1, <3>2, <3>3 DEF RepairInv, RepairOnlyReduces, Shrunk
    <2>5. CASE RestingTaken
      <3>1. UNCHANGED <<call, op>>
        BY <2>5, RestingTakenEffect
      <3>2. op = "repair" => Own' = {} /\ moved' # {}
        BY <2>5, EarlierTaken DEF RepairInv
      <3> QED
        BY <3>1, <3>2 DEF RepairInv, RepairOnlyReduces
    <2>6. CASE UNCHANGED pair_vars
      BY <2>6 DEF pair_vars, engine_vars, exchange_vars, history, RepairInv,
                  RepairOnlyReduces, Own
    <2> QED
      BY <2>1, <2>2, <2>3, <2>4, <2>5, <2>6 DEF Next
  <1> QED
    BY <1>1, <1>2, TypeInductive, PTL DEF Spec

\* repair_residual only closes, unless an order of an earlier call is taken
\* meanwhile: the property of the runs.
THEOREM RepairReduces == Spec => []RepairOnlyReduces
  <1>1. RepairInv => RepairOnlyReduces
    BY DEF RepairInv
  <1> QED
    BY <1>1, RepairInductive, PTL

----------------------------------------------------------------------------
(* open_pair that reports two fills.                                        *)

\* The history of faults only grows.
LEMMA MetGrows ==
    ASSUME TypeInv, [Next]_pair_vars
    PROVE  met \subseteq met'
  <1>1. CASE CallerStep
    BY <1>1, CallerOK DEF CallerStep, exchange_vars
  <1>2. CASE EngineStep
    BY <1>2, EngineKeepsExchange
  <1>3. CASE RestingTaken
    BY <1>3, RestingTakenEffect, TakingKeepsType
  <1>4. CASE UNCHANGED pair_vars
    BY <1>4 DEF pair_vars, engine_vars, exchange_vars
  <1> QED
    BY <1>1, <1>2, <1>3, <1>4 DEF Next, CallerStep

\* A call that starts has done nothing yet, whatever it finds.
LEMMA CalledUntouched ==
    ASSUME TypeInv, NEW operation, Called(operation)
    PROVE  Untouched' /\ moved' = {} /\ exposure' = exposure
  <1>1. /\ exposure' = exposure /\ before' = exposure /\ moved' = {}
        /\ book' = book /\ since' = next_oid
    BY DEF Called, exchange_vars
  <1>2. Own' = {}
    BY <1>1 DEF Own, ExchangeTypeOK
  <1> QED
    BY <1>1, <1>2 DEF Untouched, Change, ExchangeTypeOK, Legs

\* A step that leaves the account, the book and the history alone.
LEMMA NothingChanged ==
    ASSUME UNCHANGED <<exposure, book, since, before>>
    PROVE  /\ Own' = Own /\ Change("eth")' = Change("eth")
           /\ Change("btc")' = Change("btc") /\ Untouched' = Untouched
  BY DEF Own, Change, Untouched

\* What the call did is what the account differs by from where it started.
LEMMA NoChange ==
    ASSUME TypeInv
    PROVE  Change("eth") = 0 /\ Change("btc") = 0 <=> exposure = before
  <1>1. /\ exposure \in [{"eth", "btc"} -> Int]
        /\ before \in [{"eth", "btc"} -> Int]
    BY DEF ExchangeTypeOK, OpOK, Legs
  <1> QED
    BY <1>1 DEF Change

\* A fill changes what the call did to its leg, and nothing else.
LEMMA FillChange ==
    ASSUME TypeInv, UNCHANGED history, NEW order \in Orders, NEW o, NEW qty \in Nat,
           FilledWith(o, order, qty), Apply(o)
    PROVE  /\ Own' = Own
           /\ order.leg = "eth" => /\ Change("eth")' = Change("eth") + Sign(order.side) * qty
                                  /\ Change("btc")' = Change("btc")
           /\ order.leg = "btc" => /\ Change("btc")' = Change("btc") + Sign(order.side) * qty
                                  /\ Change("eth")' = Change("eth")
           /\ Change("eth") \in Int /\ Change("btc") \in Int
           /\ Sign(order.side) \in {1, -1}
  <1>1. /\ exposure' = [exposure EXCEPT ![order.leg] = @ + Sign(order.side) * qty]
        /\ book' = book /\ UNCHANGED <<since, before>>
    BY DEF FilledWith, Apply, history
  <1>2. /\ exposure["eth"] \in Int /\ exposure["btc"] \in Int
        /\ before["eth"] \in Int /\ before["btc"] \in Int
        /\ DOMAIN exposure = {"eth", "btc"} /\ Sign(order.side) \in {1, -1}
    BY DEF ExchangeTypeOK, OpOK, Legs, Sign
  <1>3. Sign(order.side) * qty \in Int
    BY <1>2
  <1> QED
    BY <1>1, <1>2, <1>3 DEF Own, Change

\* Where a caller's step leads.
LEMMA CallerStages ==
    ASSUME TypeInv, CallerStep
    PROVE  /\ call'.stage \in {"open_eth", "close_eth", "repair", "cancel", "idle"}
           /\ call'.stage = "open_eth" =>
                \E direction \in Directions, type \in OpenTypes :
                  StartOpen(direction, type)
           /\ call'.stage = "close_eth" => \E type \in CloseTypes : StartClose(type)
           /\ UNCHANGED exchange_vars
  <1>1. Take => call'.stage = "idle"
    BY CallFields DEF Take
  <1>2. UNCHANGED exchange_vars
    BY CallerOK DEF CallerStep
  <1>3. CASE \E direction \in Directions, type \in OpenTypes :
               StartOpen(direction, type)
    BY <1>2, <1>3, Starts
  <1>4. CASE \E type \in CloseTypes : StartClose(type)
    BY <1>2, <1>4, Starts
  <1>5. CASE StartRepair \/ StartCancel \/ Take
    BY <1>1, <1>2, <1>5, Starts
  <1> QED
    BY <1>3, <1>4, <1>5 DEF CallerStep

\* What open_pair knows of the account between its first and its second leg.
LEMMA OpeningInductive == Spec => []OpeningInv
  <1>1. Init => OpeningInv
    BY CallFields DEF Init, OpeningInv, Returned, OpenFillsMatch
  <1>2. TypeInv /\ OpeningInv /\ [Next]_pair_vars => OpeningInv'
    <2> SUFFICES ASSUME TypeInv, OpeningInv, [Next]_pair_vars,
                        "lost_response" \notin met'
                 PROVE  OpeningInv'
      BY DEF OpeningInv
    <2>m. "lost_response" \notin met
      BY MetGrows
    <2>f. OpenFillsMatch' <=>
            (Returned("open")' /\ call'.result.kind = "PairFilled" =>
               /\ Abs(Change("eth")') = call'.result.eth
               /\ Abs(Change("btc")') = call'.result.btc
               /\ Change("eth")' * Change("btc")' < 0)
      BY DEF OpenFillsMatch, Spared, Abs
    <2>1. CASE CallerStep
      <3>1. CASE \E direction \in Directions, type \in OpenTypes :
                   StartOpen(direction, type)
        <4>1. PICK direction \in Directions, type \in OpenTypes :
                StartOpen(direction, type)
          BY <3>1
        <4>2. /\ call'.stage = "open_eth"
              /\ call'.request.leg = "eth" /\ call'.second.leg = "btc"
              /\ call'.second.side = Opposite(call'.request.side)
          BY <4>1, Starts
        <4>3. Untouched'
          BY <4>1, CalledUntouched DEF StartOpen
        <4> QED
          BY <4>2, <4>3 DEF OpeningInv, Returned, OpenFillsMatch
      <3>2. CASE ~\E direction \in Directions, type \in OpenTypes :
                    StartOpen(direction, type)
        <4>1. call'.stage \in {"close_eth", "repair", "cancel", "idle"}
          BY <2>1, <3>2, CallerStages
        <4> QED
          BY <4>1 DEF OpeningInv, Returned, OpenFillsMatch
      <3> QED
        BY <3>1, <3>2
    <2>2. CASE EngineStep /\ UNCHANGED history
      <3>u. UNCHANGED <<op, since, before, moved>>
        BY <2>2 DEF history
      <3>1. CASE Retry /\ call.stage \in {"open_eth", "open_btc"}
        <4>1. UNCHANGED <<exposure, book, next_oid>>
          BY <3>1, RetryChangesNothing DEF OrderStages
        <4>2. /\ call'.stage = call.stage /\ call'.request = call.request
              /\ call'.second = call.second /\ call'.first = call.first
          BY <3>1, RetryFields
        <4>3. /\ Own' = Own /\ Change("eth")' = Change("eth")
              /\ Change("btc")' = Change("btc") /\ Untouched' = Untouched
          BY <3>u, <4>1, NothingChanged
        <4> QED
          BY <2>m, <3>1, <4>2, <4>3 DEF OpeningInv, Returned, OpenFillsMatch
      <3>2. CASE OpenEth
        <4>1. /\ call.stage = "open_eth"
              /\ \E o \in Outcomes(call) :
                   /\ Apply(o)
                   /\ IsError(o.reply) => call' = Return(PassedOn(o.reply))
                   /\ ~IsError(o.reply) =>
                        /\ call'.stage = "open_btc" /\ call'.request = call.second
                        /\ call'.first = o.reply
          BY <3>2, OpenEthCases
        <4>2. PICK o \in Outcomes(call) :
                /\ Apply(o)
                /\ IsError(o.reply) => call' = Return(PassedOn(o.reply))
                /\ ~IsError(o.reply) =>
                     /\ call'.stage = "open_btc" /\ call'.request = call.second
                     /\ call'.first = o.reply
          BY <4>1
        <4>3. CASE IsError(o.reply)
          <5>1. call'.stage = "returned" /\ call'.result.kind = "Error"
            BY <4>2, <4>3, CallFields, ResultFields
          <5> QED
            BY <5>1 DEF OpeningInv, Returned, OpenFillsMatch
        <4>4. CASE ~IsError(o.reply)
          <5>1. /\ call'.stage = "open_btc" /\ call'.first = o.reply
                /\ call'.request = call.second
            BY <4>2, <4>4
          <5>2. /\ Own = {} /\ Change("eth") = 0 /\ Change("btc") = 0
                /\ call.request.leg = "eth" /\ call.second.leg = "btc"
                /\ call.second.side = Opposite(call.request.side)
            BY <2>m, <4>1 DEF OpeningInv, Untouched
          <5>3. Effect(o, call.request) /\ call.request \in Orders
            BY <4>1, OrderAttempt DEF OrderStages
          <5>4. ASSUME NEW qty \in Nat \ {0},
                       FilledWith(o, call.request, qty), o.reply = Filled(qty)
                PROVE  /\ Own' = {} /\ Change("btc")' = 0
                       /\ Change("eth")' = IF call'.request.side = "Sell"
                                           THEN call'.first.qty ELSE -call'.first.qty
            <6>1. /\ Own' = {} /\ Change("btc")' = 0
                  /\ Change("eth")' = Sign(call.request.side) * qty
                  /\ Sign(call.request.side) \in {1, -1}
              BY <2>2, <4>2, <5>2, <5>3, <5>4, FillChange
            <6>2. /\ call'.first.qty = qty
                  /\ call'.request.side = Opposite(call.request.side)
              BY <5>1, <5>2, <5>4, ReplyKinds
            <6> QED
              BY <6>1, <6>2 DEF Sign, Opposite
          <5>5. CASE o.reply = Resting(next_oid)
            <6>1. call'.first.kind = "Resting"
              BY <5>1, <5>5, ReplyKinds
            <6> QED
              BY <5>1, <5>2, <6>1 DEF OpeningInv, Returned, OpenFillsMatch
          <5>6. CASE \E qty \in Nat \ {0} :
                       FilledWith(o, call.request, qty) /\ o.reply = Filled(qty)
            BY <5>1, <5>2, <5>4, <5>6 DEF OpeningInv, Returned, OpenFillsMatch
          <5> QED
            BY <4>4, <5>3, <5>5, <5>6, TrueReply
        <4> QED
          BY <4>3, <4>4
      <3>3. CASE OpenBtc
        <4>1. PICK o \in Final("open_btc") :
               /\ Apply(o)
               /\ call.first.kind = "Filled" /\ o.reply.kind = "Filled" =>
                    call' = Return(PairFilled(call.first.qty, o.reply.qty))
               /\ call.first.kind = "Resting" /\ o.reply.kind = "Resting" =>
                    call' = Return(PairResting(call.first.oid, o.reply.oid))
               /\ ~(call.first.kind = "Filled" /\ o.reply.kind = "Filled")
                    /\ ~(call.first.kind = "Resting" /\ o.reply.kind = "Resting")
                    => call'.stage \in {"open_rollback", "open_cancel"}
          BY <3>3, OpenBtcCases
        <4>2. call.stage = "open_btc" /\ o \in Outcomes(call)
          BY <4>1 DEF Final
        <4>3. CASE call.first.kind = "Filled" /\ o.reply.kind = "Filled"
          <5>1. /\ call'.stage = "returned" /\ call'.result.eth = call.first.qty
                /\ call'.result.btc = o.reply.qty
            BY <4>1, <4>3, CallFields, ResultFields
          <5>2. Effect(o, call.request) /\ call.request \in Orders
            BY <4>2, OrderAttempt DEF OrderStages
          <5>3. PICK qty \in Nat \ {0} :
                  FilledWith(o, call.request, qty) /\ o.reply = Filled(qty)
            BY <4>3, <5>2, TrueReply, ReplyKinds DEF IsError
          <5>4. /\ call.request.leg = "btc"
                /\ Own = {} /\ Change("btc") = 0
                /\ Change("eth") = IF call.request.side = "Sell"
                                   THEN call.first.qty ELSE -call.first.qty
            BY <2>m, <4>2, <4>3 DEF OpeningInv
          <5>5. call.first.qty \in Nat \ {0}
            BY <4>2, <4>3, ReplyKinds DEF CallOK
          <5>6. /\ Own' = {} /\ Change("eth")' = Change("eth")
                /\ Change("btc")' = Sign(call.request.side) * qty
                /\ Sign(call.request.side) \in {1, -1}
            BY <2>2, <4>1, <5>2, <5>3, <5>4, FillChange
          <5>7. \/ Change("eth")' = call.first.qty /\ Change("btc")' = -qty
                \/ Change("eth")' = -call.first.qty /\ Change("btc")' = qty
            <6>1. call.request.side \in {"Buy", "Sell"}
              BY <5>2 DEF Orders, Sides
            <6> QED
              BY <5>4, <5>6, <6>1 DEF Sign
          <5>8. /\ Abs(Change("eth")') = call.first.qty
                /\ Abs(Change("btc")') = qty
                /\ Change("eth")' * Change("btc")' < 0
            <6>1. \A a, b \in Nat \ {0} : a * (-b) < 0 /\ (-a) * b < 0
              OBVIOUS
            <6> QED
              BY <5>5, <5>7, <6>1 DEF Abs
          <5> QED
            BY <2>f, <5>1, <5>3, <5>6, <5>8, ReplyKinds DEF OpeningInv
        <4>4. CASE call.first.kind = "Resting" /\ o.reply.kind = "Resting"
          <5>1. call'.stage = "returned" /\ call'.result.kind = "PairResting"
            BY <4>1, <4>4, CallFields, ResultFields
          <5> QED
            BY <5>1 DEF OpeningInv, Returned, OpenFillsMatch
        <4>5. CASE /\ ~(call.first.kind = "Filled" /\ o.reply.kind = "Filled")
                   /\ ~(call.first.kind = "Resting" /\ o.reply.kind = "Resting")
          BY <4>1, <4>5 DEF OpeningInv, Returned, OpenFillsMatch
        <4> QED
          BY <4>3, <4>4, <4>5
      <3>4. CASE ~OpenEth /\ ~OpenBtc /\ ~(Retry /\ call.stage \in {"open_eth", "open_btc"})
        <4>1. call'.stage \notin {"open_eth", "open_btc"}
          <5>1. CASE Retry
            BY <3>4, <5>1, RetryFields
          <5>2. CASE ~Retry
            BY <2>2, <3>4, <5>2, EngineStages
          <5> QED
            BY <5>1, <5>2
        <4>2. ~(Returned("open")' /\ call'.result.kind = "PairFilled")
          <5>1. CASE OpenRollback \/ OpenCancel
            <6>1. \E class, why : call' = Return(Error(class, why))
              BY <5>1 DEF OpenRollback, OpenCancel
            <6> QED
              BY <6>1, CallFields, ResultFields
          <5>2. CASE ~OpenRollback /\ ~OpenCancel
            BY <2>2, <3>u, <3>4, <5>2, EngineStages, Attempted
               DEF Returned, OpOK, CloseStages, OrderStages, CancelStages
          <5> QED
            BY <5>1, <5>2
        <4> QED
          BY <4>1, <4>2 DEF OpeningInv, Returned, OpenFillsMatch
      <3> QED
        BY <3>1, <3>2, <3>3, <3>4
    <2>3. CASE RestingTaken
      <3>1. UNCHANGED <<call, op>>
        BY <2>3, RestingTakenEffect
      <3>2. CASE Own = {}
        <4>1. /\ Own' = {} /\ Change("eth")' = Change("eth")
              /\ Change("btc")' = Change("btc")
          BY <2>3, <3>2, EarlierTaken
        <4> QED
          BY <2>m, <2>f, <3>1, <3>2, <4>1
             DEF OpeningInv, Untouched, Returned, OpenFillsMatch, Spared
      <3>3. CASE Own # {}
        BY <2>m, <3>1, <3>3 DEF OpeningInv, Untouched, Returned, OpenFillsMatch
      <3> QED
        BY <3>2, <3>3
    <2>4. CASE UNCHANGED pair_vars
      <3>1. /\ UNCHANGED <<call, op, met>> /\ Own' = Own /\ Untouched' = Untouched
            /\ Change("eth")' = Change("eth") /\ Change("btc")' = Change("btc")
        BY <2>4, NothingChanged DEF pair_vars, engine_vars, exchange_vars, history
      <3> QED
        BY <2>m, <3>1 DEF OpeningInv, Returned, OpenFillsMatch, Spared
    <2> QED
      BY <2>1, <2>2, <2>3, <2>4 DEF Next, CallerStep
  <1> QED
    BY <1>1, <1>2, TypeInductive, PTL DEF Spec

\* What an open reports as filled is what it did to the account, whatever it met
\* there and whatever was taken of the orders earlier calls left on the book,
\* unless an answer was lost.
THEOREM OpenFillsHeld == Spec => []OpenFillsMatch
  <1>1. OpeningInv => OpenFillsMatch
    BY DEF OpeningInv, OpenFillsMatch, Spared
  <1> QED
    BY <1>1, OpeningInductive, PTL

----------------------------------------------------------------------------
(* open_pair that fails.                                                    *)

\* Faults are not forgotten: without them now, there were none before.
LEMMA CleanBefore ==
    ASSUME TypeInv, [Next]_pair_vars, Clean'
    PROVE  Clean
  BY MetGrows, CleanMet

\* A call that did nothing leaves the account where it started (NoChange, after
\* a step).
LEMMA NoChangeNext ==
    ASSUME TypeInv'
    PROVE  Change("eth")' = 0 /\ Change("btc")' = 0 <=> exposure' = before'
  <1>1. /\ exposure' \in [{"eth", "btc"} -> Int]
        /\ before' \in [{"eth", "btc"} -> Int]
    BY DEF ExchangeTypeOK, OpOK, Legs
  <1> QED
    BY <1>1 DEF Change

\* Where no fill is partial, an order of the book that is taken leaves it: one of
\* the call in progress, or one that does not concern it.
LEMMA CleanTaken ==
    ASSUME TypeInv, RestingTaken, Clean'
    PROVE  \/ \E x \in Own : Own' = Own \ {x}
           \/ /\ Own' = Own /\ Change("eth")' = Change("eth")
              /\ Change("btc")' = Change("btc")
  <1>1. PICK x \in book, qty \in Nat :
          /\ Taken(x, qty)
          /\ x \notin Own =>
               /\ x.leg \in moved'
               /\ Change("eth")' = Change("eth") /\ Change("btc")' = Change("btc")
    BY RestingTakenEffect
  <1>2. book' = book \ {x} /\ since' = since
    BY <1>1, CleanMet, RestingTakenEffect DEF Taken
  <1> QED
    BY <1>1, <1>2 DEF Own

\* What open_pair knows of the account while it takes back its first leg, which
\* is on the book.
LEMMA CancellingInductive == Spec => []CancellingInv
  <1>1. Init => CancellingInv
    BY CallFields DEF Init, CancellingInv, OpenErrorIsClean, Returned
  <1>2. TypeInv /\ TypeInv' /\ OpeningInv /\ CancellingInv /\ [Next]_pair_vars
          => CancellingInv'
    <2> SUFFICES ASSUME TypeInv, TypeInv', OpeningInv, CancellingInv,
                        [Next]_pair_vars, Clean'
                 PROVE  CancellingInv'
      BY DEF CancellingInv
    <2>m. Clean /\ "lost_response" \notin met /\ "lost_response" \notin met'
      BY CleanBefore, CleanMet
    <2>f. ASSUME Own' = {}, Change("eth")' = 0, Change("btc")' = 0
          PROVE  OpenErrorIsClean'
      BY <2>f, NoChangeNext DEF OpenErrorIsClean
    <2>1. CASE CallerStep
      BY <2>1, CallerStages DEF CancellingInv, OpenErrorIsClean, Returned
    <2>2. CASE EngineStep /\ UNCHANGED history
      <3>u. UNCHANGED <<op, since, before, moved>>
        BY <2>2 DEF history
      <3>1. CASE Retry /\ call.stage = "open_btc"
        <4>1. UNCHANGED <<exposure, book, next_oid>>
          BY <2>m, <3>1, RetryChangesNothing DEF OrderStages
        <4>2. call'.stage = call.stage /\ call'.first = call.first
          BY <3>1, RetryFields
        <4>3. /\ Own' = Own /\ Change("eth")' = Change("eth")
              /\ Change("btc")' = Change("btc")
          BY <3>u, <4>1, NothingChanged
        <4> QED
          BY <2>m, <3>u, <3>1, <4>2, <4>3
             DEF CancellingInv, OnlyFirst, OpenErrorIsClean, Returned
      <3>2. CASE Retry /\ call.stage = "open_cancel"
        <4>1. PICK o \in Outcomes(call) : Apply(o)
          BY <2>2, Attempted
        <4>2. CancelEffect(o, call.request.leg, call.request.oid)
          BY <3>2, CancelAttempt DEF CancelStages
        <4>3. exposure' = exposure /\ book' \subseteq book
          BY <4>1, <4>2 DEF CancelEffect, Missed, TookOff, Apply
        <4>4. call'.stage = call.stage /\ call'.request = call.request
          BY <3>2, RetryFields
        <4>5. /\ Own' \subseteq Own /\ Change("eth")' = Change("eth")
              /\ Change("btc")' = Change("btc")
          BY <3>u, <4>3 DEF Own, Change
        <4> QED
          BY <2>m, <3>u, <3>2, <4>4, <4>5
             DEF CancellingInv, OnlyFirst, OpenErrorIsClean, Returned
      <3>3. CASE OpenEth
        <4>1. /\ call.stage = "open_eth"
              /\ \E o \in Outcomes(call) :
                   /\ Apply(o)
                   /\ IsError(o.reply) => call' = Return(PassedOn(o.reply))
                   /\ ~IsError(o.reply) =>
                        /\ call'.stage = "open_btc" /\ call'.request = call.second
                        /\ call'.first = o.reply
          BY <3>3, OpenEthCases
        <4>2. PICK o \in Outcomes(call) :
                /\ Apply(o)
                /\ IsError(o.reply) => call' = Return(PassedOn(o.reply))
                /\ ~IsError(o.reply) =>
                     /\ call'.stage = "open_btc" /\ call'.request = call.second
                     /\ call'.first = o.reply
          BY <4>1
        <4>3. Effect(o, call.request) /\ call.request \in Orders
          BY <4>1, OrderAttempt DEF OrderStages
        <4>4. /\ Own = {} /\ Change("eth") = 0 /\ Change("btc") = 0
              /\ call.request.leg = "eth"
          BY <2>m, <4>1 DEF OpeningInv, Untouched
        <4>5. CASE IsError(o.reply)
          <5>1. call'.stage = "returned"
            BY <4>2, <4>5, CallFields
          <5>2. UNCHANGED <<exposure, book>>
            BY <4>2, <4>3, <4>5, CleanError
          <5>3. Own' = {} /\ Change("eth")' = 0 /\ Change("btc")' = 0
            BY <3>u, <4>4, <5>2, NothingChanged
          <5> QED
            BY <2>f, <5>1, <5>3 DEF CancellingInv
        <4>6. CASE ~IsError(o.reply)
          <5>1. call'.stage = "open_btc" /\ call'.first = o.reply
            BY <4>2, <4>6
          <5>2. CASE \E qty \in Nat \ {0} : o.reply = Filled(qty)
            BY <5>1, <5>2, ReplyKinds DEF CancellingInv, OpenErrorIsClean, Returned
          <5>3. CASE WentOnBook(o, call.request) /\ o.reply = Resting(next_oid)
            <6>1. /\ exposure' = exposure
                  /\ book' = book \cup {[oid |-> next_oid, leg |-> call.request.leg,
                                         side |-> call.request.side,
                                         qty |-> call.request.qty,
                                         reduce_only |-> call.request.reduce_only]}
              BY <4>2, <5>3 DEF WentOnBook, Apply
            <6>2. /\ \A x \in Own' : x.leg = "eth" /\ x.oid = next_oid
                  /\ Change("eth")' = 0 /\ Change("btc")' = 0
              BY <3>u, <4>4, <6>1 DEF Own, Change
            <6>3. call'.first.oid = next_oid
              BY <5>1, <5>3, ReplyKinds
            <6>4. next_oid >= since'
              BY <3>u DEF OpOK, ExchangeTypeOK
            <6> QED
              BY <5>1, <6>2, <6>3, <6>4
                 DEF CancellingInv, OnlyFirst, OpenErrorIsClean, Returned
          <5> QED
            BY <4>3, <4>6, <5>2, <5>3, TrueReply
        <4> QED
          BY <4>5, <4>6
      <3>4. CASE OpenBtc
        <4>1. PICK o \in Final("open_btc") :
               /\ Apply(o)
               /\ call.first.kind = "Filled" /\ o.reply.kind = "Filled" =>
                    call' = Return(PairFilled(call.first.qty, o.reply.qty))
               /\ call.first.kind = "Resting" /\ o.reply.kind = "Resting" =>
                    call' = Return(PairResting(call.first.oid, o.reply.oid))
               /\ call.first.kind = "Filled" /\ o.reply.kind # "Filled" =>
                    call'.stage = "open_rollback"
               /\ call.first.kind = "Resting" /\ o.reply.kind = "Filled" =>
                    call'.stage = "open_rollback"
               /\ call.first.kind = "Resting" /\ IsError(o.reply) =>
                    /\ call'.stage = "open_cancel"
                    /\ call'.request = Cancel("eth", call.first.oid)
          BY <3>4, OpenBtcCases
        <4>2. call.stage = "open_btc" /\ o \in Outcomes(call)
          BY <4>1 DEF Final
        <4>3. Effect(o, call.request) /\ call.request \in Orders
          BY <4>2, OrderAttempt DEF OrderStages
        <4>4. call.first.kind \in {"Filled", "Resting"}
          BY <4>2, ReplyKinds DEF CallOK
        <4>5. IsError(o.reply) \/ o.reply.kind \in {"Filled", "Resting"}
          BY <4>3, OrderReply, ReplyKinds
        <4>6. CASE call.first.kind = "Resting" /\ IsError(o.reply)
          <5>1. UNCHANGED <<exposure, book, next_oid>>
            BY <4>1, <4>3, <4>6, CleanError
          <5>2. OnlyFirst("eth", call.first.oid)
            BY <2>m, <4>2, <4>6 DEF CancellingInv
          <5>3. /\ call'.stage = "open_cancel"
                /\ call'.request.leg = "eth" /\ call'.request.oid = call.first.oid
            BY <4>1, <4>6 DEF Cancel
          <5>4. /\ Own' = Own /\ Change("eth")' = Change("eth")
                /\ Change("btc")' = Change("btc")
            BY <3>u, <5>1, NothingChanged
          <5> QED
            BY <3>u, <5>2, <5>3, <5>4
               DEF CancellingInv, OnlyFirst, OpenErrorIsClean, Returned
        <4>7. CASE /\ call'.stage = "returned"
                   /\ call'.result.kind \in {"PairFilled", "PairResting"}
          BY <4>7 DEF CancellingInv, OpenErrorIsClean, Returned, Failed
        <4>8. CASE call'.stage = "open_rollback"
          BY <4>8 DEF CancellingInv, OpenErrorIsClean, Returned
        <4> QED
          BY <4>1, <4>4, <4>5, <4>6, <4>7, <4>8, CallFields, ResultFields
      <3>5. CASE OpenRollback
        <4>1. \E why : call' = Return(Error("PartialFill", why))
          BY <3>5 DEF OpenRollback
        <4> QED
          BY <4>1, CallFields, ResultFields
             DEF CancellingInv, OpenErrorIsClean, Returned
      <3>6. CASE OpenCancel
        <4>1. PICK o \in Final("open_cancel") :
                /\ Apply(o)
                /\ call' = Return(IF IsError(o.reply)
                                  THEN Error("PartialFill", call.cause.why)
                                  ELSE Error("Fatal", call.cause.why))
          BY <3>6 DEF OpenCancel
        <4>2. call.stage = "open_cancel" /\ o \in Outcomes(call)
          BY <4>1 DEF Final
        <4>3. CASE IsError(o.reply)
          <5>1. /\ call'.stage = "returned" /\ call'.result.class = "PartialFill"
            BY <4>1, <4>3, CallFields, ResultFields
          <5> QED
            BY <5>1 DEF CancellingInv, OpenErrorIsClean, Returned
        <4>4. CASE ~IsError(o.reply)
          <5>1. CancelEffect(o, call.request.leg, call.request.oid)
            BY <4>2, CancelAttempt DEF CancelStages
          <5>2. TookOff(o, call.request.leg, call.request.oid)
            BY <4>4, <5>1, ReplyKinds DEF CancelEffect, Missed, IsError
          <5>3. OnlyFirst(call.request.leg, call.request.oid)
            BY <2>m, <4>2 DEF CancellingInv
          <5>4. PICK x \in book : x.leg = call.request.leg /\ x.oid = call.request.oid
            BY <5>2 DEF TookOff
          <5>5. x \in Own
            BY <5>3, <5>4 DEF OnlyFirst, Own
          <5>6. Change("eth") = 0 /\ Change("btc") = 0
            BY <5>3, <5>5 DEF OnlyFirst
          <5>7. /\ exposure' = exposure
                /\ book' = book \ {y \in book : /\ y.leg = call.request.leg
                                                /\ y.oid = call.request.oid}
            BY <4>1, <5>2 DEF TookOff, Apply
          <5>8. Own' = {} /\ Change("eth")' = 0 /\ Change("btc")' = 0
            BY <3>u, <5>3, <5>6, <5>7 DEF OnlyFirst, Own, Change
          <5>9. call'.stage = "returned"
            BY <4>1, CallFields
          <5> QED
            BY <2>f, <5>8, <5>9 DEF CancellingInv
        <4> QED
          BY <4>3, <4>4
      <3>7. CASE \/ Retry /\ call.stage \notin {"open_btc", "open_cancel"}
                 \/ CloseEth \/ CloseBtc \/ CloseRollback \/ Repair \/ CancelResting
        <4>1. call'.stage \notin {"open_btc", "open_cancel"} /\ ~Returned("open")'
          <5>1. CASE Retry /\ call.stage \notin {"open_btc", "open_cancel"}
            BY <2>2, <5>1, RetryFields, Attempted
               DEF Returned, OrderStages, CancelStages
          <5>2. CASE CloseEth \/ CloseBtc \/ CloseRollback \/ Repair \/ CancelResting
            <6>1. call.stage \in CloseStages \cup {"repair", "cancel"}
              BY <5>2 DEF CloseEth, CloseBtc, CloseRollback, Repair, CancelResting,
                          Final, CloseStages
            <6>2. op # "open"
              BY <6>1 DEF OpOK, CloseStages
            <6>3. call'.stage \notin {"open_btc", "open_cancel"}
              BY <2>2, <6>1, EngineStages, RetryFields DEF CloseStages
            <6> QED
              BY <3>u, <6>2, <6>3 DEF Returned
          <5> QED
            BY <3>7, <5>1, <5>2
        <4> QED
          BY <4>1 DEF CancellingInv, OpenErrorIsClean
      <3> QED
        BY <2>2, <3>1, <3>2, <3>3, <3>4, <3>5, <3>6, <3>7 DEF EngineStep
    <2>3. CASE RestingTaken
      <3>1. UNCHANGED <<call, op, since>>
        BY <2>3, RestingTakenEffect
      <3>2. \/ \E x \in Own : Own' = Own \ {x}
            \/ /\ Own' = Own /\ Change("eth")' = Change("eth")
               /\ Change("btc")' = Change("btc")
        BY <2>3, CleanTaken
      <3>3. \A y, z \in Own : y.oid = z.oid => y = z
        BY DEF ExchangeTypeOK, Own
      <3>5. OpenErrorIsClean'
        <4>1. CASE /\ Returned("open") /\ Failed(call.result)
                   /\ call.result.class # "PartialFill"
          <5>1. exposure = before /\ Own = {}
            BY <2>m, <4>1, CleanMet
               DEF CancellingInv, OpenErrorIsClean, Answered, Spared
          <5>2. Change("eth") = 0 /\ Change("btc") = 0
            BY <5>1, NoChange
          <5> QED
            BY <2>f, <3>2, <5>1, <5>2
        <4>2. CASE ~(/\ Returned("open") /\ Failed(call.result)
                     /\ call.result.class # "PartialFill")
          BY <3>1, <4>2 DEF OpenErrorIsClean, Returned, Failed
        <4> QED
          BY <4>1, <4>2
      <3>6. /\ OnlyFirst(call.request.leg, call.request.oid) =>
                 OnlyFirst(call.request.leg, call.request.oid)'
            /\ OnlyFirst("eth", call.first.oid) => OnlyFirst("eth", call.first.oid)'
        BY <3>1, <3>2, <3>3 DEF OnlyFirst
      <3> QED
        BY <2>m, <3>1, <3>5, <3>6 DEF CancellingInv
    <2>4. CASE UNCHANGED pair_vars
      <3>1. /\ UNCHANGED <<call, op, since>> /\ Own' = Own
            /\ Change("eth")' = Change("eth") /\ Change("btc")' = Change("btc")
        BY <2>4, NothingChanged DEF pair_vars, engine_vars, exchange_vars, history
      <3>2. OpenErrorIsClean' <=> OpenErrorIsClean
        BY <2>4 DEF pair_vars, engine_vars, exchange_vars, history, OpenErrorIsClean,
                    Returned, Failed, Answered, Spared, Own
      <3> QED
        BY <2>m, <3>1, <3>2 DEF CancellingInv, OnlyFirst
    <2> QED
      BY <2>1, <2>2, <2>3, <2>4 DEF Next, CallerStep
  <1> QED
    BY <1>1, <1>2, TypeInductive, OpeningInductive, PTL DEF Spec

\* An open that fails without the PartialFill class left nothing behind.
THEOREM FailedOpenIsClean == Spec => []OpenErrorIsClean
  <1>1. CancellingInv => OpenErrorIsClean
    BY DEF CancellingInv, OpenErrorIsClean, Clean, Answered, Spared
  <1> QED
    BY <1>1, CancellingInductive, PTL

\* A step of an open that has put an order on the book, or that sends its rollback
\* when none is there.
LEMMA RollbackInductive == Spec => []RollbackInv
  <1>1. Init => RollbackInv
    BY CallFields DEF Init, RollbackInv, OpenRolledBack, Returned
  <1>2. TypeInv /\ TypeInv' /\ OpeningInv /\ RollbackInv /\ [Next]_pair_vars
          => RollbackInv'
    <2> SUFFICES ASSUME TypeInv, TypeInv', OpeningInv, RollbackInv, [Next]_pair_vars
                 PROVE  RollbackInv'
      OBVIOUS
    <2> DEFINE Rested == /\ call.stage = "open_btc" /\ call.first.kind = "Resting"
                              => next_oid > 1
                         /\ call.stage = "open_cancel" => next_oid > 1
               Sent == call.stage = "open_rollback" =>
                         /\ Change("btc") = 0
                         /\ call.request.leg = "eth" /\ call.request.side = "Sell"
                         /\ call.request.type = "Market" /\ call.request.reduce_only
                         /\ Change("eth") \in {call.request.qty, -call.request.qty}
    <2>s. RollbackInv <=> Rested /\ (Clean /\ NothingRested => Sent /\ OpenRolledBack)
      BY DEF RollbackInv
    <2>p. RollbackInv' <=> Rested' /\ (Clean' /\ NothingRested' => Sent' /\ OpenRolledBack')
      BY DEF RollbackInv
    <2>t. /\ exposure \in [Legs -> Int] /\ next_oid \in Int /\ next_oid >= 1
          /\ before \in [Legs -> Int]
      BY DEF ExchangeTypeOK, OpOK
    <2>1. CASE CallerStep
      <3>1. call'.stage \notin {"open_btc", "open_cancel", "open_rollback", "returned"}
        BY <2>1, CallerStages
      <3> QED
        BY <2>p, <3>1 DEF OpenRolledBack, Returned
    <2>2. CASE EngineStep /\ UNCHANGED history
      <3>u. UNCHANGED <<op, since, before, moved>>
        BY <2>2 DEF history
      <3>g. /\ next_oid' >= next_oid /\ next_oid' \in Int
        BY <2>2, EngineKeepsExchange DEF ExchangeTypeOK
      <3>1. CASE Retry
        <4>1. /\ call'.stage = call.stage /\ call'.first = call.first
              /\ call'.request = call.request
          BY <3>1, RetryFields
        <4>2. Rested'
          BY <2>s, <2>t, <3>g, <4>1
        <4>3. ASSUME Clean', NothingRested', call.stage = "open_rollback"
              PROVE  Sent'
          <5>1. Clean /\ NothingRested
            BY <2>t, <3>g, <4>3, CleanBefore DEF NothingRested
          <5>2. UNCHANGED <<exposure, book, next_oid>>
            BY <3>1, <4>3, RetryChangesNothing, CleanMet DEF OrderStages
          <5>3. /\ Change("eth")' = Change("eth") /\ Change("btc")' = Change("btc")
            BY <3>u, <5>2, NothingChanged
          <5> QED
            BY <2>s, <4>1, <4>3, <5>1, <5>3
        <4>4. ~Returned("open")'
          BY <3>1, <4>1 DEF Returned, Retry, OrderStages, CancelStages
        <4> QED
          BY <2>p, <4>1, <4>2, <4>3, <4>4 DEF OpenRolledBack
      <3>2. CASE OpenEth
        <4>1. /\ call.stage = "open_eth"
              /\ \E o \in Outcomes(call) :
                   /\ Apply(o)
                   /\ IsError(o.reply) => call' = Return(PassedOn(o.reply))
                   /\ ~IsError(o.reply) =>
                        /\ call'.stage = "open_btc" /\ call'.request = call.second
                        /\ call'.first = o.reply
          BY <3>2, OpenEthCases
        <4>2. PICK o \in Outcomes(call) :
                /\ Apply(o)
                /\ IsError(o.reply) => call' = Return(PassedOn(o.reply))
                /\ ~IsError(o.reply) =>
                     /\ call'.stage = "open_btc" /\ call'.request = call.second
                     /\ call'.first = o.reply
          BY <4>1
        <4>3. Effect(o, call.request) /\ call.request \in Orders
          BY <4>1, OrderAttempt DEF OrderStages
        <4>4. CASE IsError(o.reply)
          <5>1. call'.stage = "returned"
            BY <4>2, <4>4, CallFields
          <5>2. ASSUME Clean' PROVE exposure' = before'
            <6>1. Change("eth") = 0 /\ Change("btc") = 0
              BY <4>1, <5>2, CleanBefore, CleanMet DEF OpeningInv, Untouched
            <6>2. exposure' = exposure /\ before' = before
              BY <3>u, <4>2, <4>3, <4>4, <5>2, CleanError
            <6> QED
              BY <6>1, <6>2, NoChange
          <5> QED
            BY <2>p, <5>1, <5>2 DEF OpenRolledBack
        <4>5. CASE ~IsError(o.reply)
          <5>1. call'.stage = "open_btc" /\ call'.first = o.reply
            BY <4>2, <4>5
          <5>2. call'.first.kind = "Resting" => next_oid' > 1
            <6>1. CASE \E qty \in Nat \ {0} : o.reply = Filled(qty)
              BY <5>1, <6>1, ReplyKinds
            <6>2. CASE WentOnBook(o, call.request)
              BY <2>t, <4>2, <6>2 DEF WentOnBook, Apply
            <6> QED
              BY <4>3, <4>5, <6>1, <6>2, TrueReply
          <5> QED
            BY <2>p, <5>1, <5>2 DEF OpenRolledBack, Returned
        <4> QED
          BY <4>4, <4>5
      <3>3. CASE OpenBtc
        <4>1. PICK o \in Final("open_btc") :
               /\ Apply(o)
               /\ call.first.kind = "Filled" /\ o.reply.kind = "Filled" =>
                    call' = Return(PairFilled(call.first.qty, o.reply.qty))
               /\ call.first.kind = "Resting" /\ o.reply.kind = "Resting" =>
                    call' = Return(PairResting(call.first.oid, o.reply.oid))
               /\ call.first.kind = "Filled" /\ o.reply.kind # "Filled" =>
                    /\ call'.stage = "open_rollback"
                    /\ call'.request = Rollback("eth", call.first)
               /\ call.first.kind = "Resting" /\ o.reply.kind = "Filled" =>
                    call'.stage = "open_rollback"
               /\ call.first.kind = "Resting" /\ IsError(o.reply) =>
                    call'.stage = "open_cancel"
          BY <3>3, OpenBtcCases
        <4>2. call.stage = "open_btc" /\ o \in Outcomes(call)
          BY <4>1 DEF Final
        <4>3. Effect(o, call.request) /\ call.request \in Orders
          BY <4>2, OrderAttempt DEF OrderStages
        <4>4. call.first.kind \in {"Filled", "Resting"}
          BY <4>2, ReplyKinds DEF CallOK
        <4>5. IsError(o.reply) \/ o.reply.kind \in {"Filled", "Resting"}
          BY <4>3, OrderReply, ReplyKinds
        <4>6. CASE call.first.kind = "Resting"
          <5>1. next_oid' > 1
            BY <2>s, <2>t, <3>g, <4>2, <4>6
          <5>2. ~NothingRested' /\ call'.stage # "open_btc"
            BY <4>1, <4>5, <4>6, <5>1, CallFields DEF NothingRested
          <5> QED
            BY <2>p, <5>1, <5>2
        <4>7. CASE call.first.kind = "Filled" /\ o.reply.kind = "Filled"
          <5>1. call'.stage = "returned" /\ call'.result.kind = "PairFilled"
            BY <4>1, <4>7, CallFields, ResultFields
          <5> QED
            BY <2>p, <5>1 DEF OpenRolledBack, Failed
        <4>8. CASE call.first.kind = "Filled" /\ o.reply.kind # "Filled"
          <5>1. /\ call'.stage = "open_rollback"
                /\ call'.request = Rollback("eth", call.first)
            BY <4>1, <4>8
          <5>2. ASSUME Clean', NothingRested' PROVE Sent'
            <6>1. IsError(o.reply)
              <7>1. SUFFICES ASSUME ~IsError(o.reply) PROVE FALSE
                OBVIOUS
              <7>2. WentOnBook(o, call.request)
                BY <4>3, <4>8, <7>1, TrueReply, ReplyKinds
              <7>3. next_oid' = next_oid + 1
                BY <4>1, <7>2 DEF WentOnBook, Apply
              <7> QED
                BY <2>t, <5>2, <7>3 DEF NothingRested
            <6>2. /\ Change("eth")' = Change("eth") /\ Change("btc")' = Change("btc")
              BY <3>u, <4>1, <4>3, <5>2, <6>1, CleanError, NothingChanged
            <6>3. /\ Change("btc") = 0
                  /\ Change("eth") = IF call.request.side = "Sell"
                                     THEN call.first.qty ELSE -call.first.qty
              BY <4>2, <4>8, <5>2, CleanBefore, CleanMet DEF OpeningInv
            <6>4. call.first.qty \in Nat \ {0}
              BY <4>2, <4>8, ReplyKinds DEF CallOK
            <6>5. /\ call'.request.leg = "eth" /\ call'.request.side = "Sell"
                  /\ call'.request.type = "Market" /\ call'.request.reduce_only
                  /\ call'.request.qty = call.first.qty
              BY <5>1, <6>4 DEF Rollback, Order, CloseForQty, Abs
            <6> QED
              BY <6>2, <6>3, <6>5
          <5> QED
            BY <2>p, <5>1, <5>2 DEF OpenRolledBack, Returned
        <4> QED
          BY <4>4, <4>6, <4>7, <4>8
      <3>4. CASE OpenRollback
        <4>1. PICK o \in Final("open_rollback") :
                /\ Apply(o)
                /\ call' = Return(Error("PartialFill",
                              IF IsError(o.reply) THEN "rollback_failed"
                              ELSE "rollback_executed"))
          BY <3>4 DEF OpenRollback
        <4>2. call.stage = "open_rollback" /\ o \in Outcomes(call)
          BY <4>1 DEF Final
        <4>3. Effect(o, call.request) /\ call.request \in Orders
          BY <4>2, OrderAttempt DEF OrderStages
        <4>4. call'.stage = "returned"
          BY <4>1, CallFields
        <4>5. ASSUME Clean', NothingRested', ~IsError(o.reply), before' = NoLegs
              PROVE  exposure' = before'
          <5>0. Sent
            BY <2>s, <2>t, <3>g, <4>5, CleanBefore DEF NothingRested
          <5>1. /\ exposure["btc"] = 0
                /\ call.request.leg = "eth" /\ call.request.side = "Sell"
                /\ call.request.type = "Market" /\ call.request.reduce_only
                /\ exposure["eth"] \in {call.request.qty, -call.request.qty}
            <6>1. before["eth"] = 0 /\ before["btc"] = 0
              BY <3>u, <4>5 DEF NoLegs, Legs
            <6>2. exposure["eth"] \in Int /\ exposure["btc"] \in Int
              BY <2>t DEF Legs
            <6> QED
              BY <4>2, <5>0, <6>1, <6>2 DEF Change
          <5>2. PICK qty \in Nat \ {0} : FilledWith(o, call.request, qty)
            BY <4>3, <4>5, <5>1, TrueReply DEF WentOnBook
          <5>3. /\ qty = Fillable(call.request)
                /\ exposure' = [exposure EXCEPT !["eth"] = @ + Sign("Sell") * qty]
            <6>1. "partial" \notin o.met
              BY <4>1, <4>5, CleanMet DEF Apply
            <6>2. Fillable(call.request) \in Nat
              BY <4>3, FillableRange DEF Counted, ExchangeTypeOK, Orders
            <6>3. qty = Fillable(call.request)
              BY <5>2, <6>1, <6>2 DEF FilledWith
            <6>4. call.request.leg = "eth" /\ call.request.side = "Sell"
              BY <5>1
            <6>5. exposure' = o.exposure
              BY <4>1 DEF Apply
            <6> QED
              BY <5>2, <6>3, <6>4, <6>5 DEF FilledWith
          <5>4. /\ exposure["eth"] = qty
                /\ call.request.qty \in Nat \ {0}
            <6>1. call.request.qty \in Nat \ {0}
              BY <4>3 DEF Orders
            <6> QED
              BY <5>1, <5>2, <5>3, <6>1 DEF Fillable, Reducible, Sign
          <5>5. exposure'["eth"] = 0 /\ exposure'["btc"] = 0 /\ exposure' \in [Legs -> Int]
            BY <2>t, <5>1, <5>3, <5>4 DEF Sign, Legs
          <5> QED
            BY <4>5, <5>5 DEF NoLegs, Legs
        <4>6. IsError(o.reply) => call'.result.why = "rollback_failed"
          <5>1. CASE IsError(o.reply)
            <6>0. (IF IsError(o.reply) THEN "rollback_failed" ELSE "rollback_executed")
                    = "rollback_failed"
              BY <5>1
            <6>1. call' = Return(Error("PartialFill", "rollback_failed"))
              BY <4>1, <6>0, Zenon
            <6>2. call'.result = Error("PartialFill", "rollback_failed")
              BY <6>1, CallFields
            <6> QED
              BY <6>2 DEF Error
          <5> QED
            BY <5>1
        <4> QED
          BY <2>p, <4>4, <4>5, <4>6 DEF OpenRolledBack
      <3>5. CASE OpenCancel
        <4>1. call.stage = "open_cancel" /\ call'.stage = "returned"
          BY <3>5, CallFields DEF OpenCancel, Final
        <4>2. ~NothingRested'
          BY <2>s, <2>t, <3>g, <4>1 DEF NothingRested
        <4> QED
          BY <2>p, <4>1, <4>2
      <3>6. CASE CloseEth \/ CloseBtc \/ CloseRollback \/ Repair \/ CancelResting
        <4>1. call.stage \in CloseStages \cup {"repair", "cancel"}
          BY <3>6 DEF CloseEth, CloseBtc, CloseRollback, Repair, CancelResting,
                      Final, CloseStages
        <4>2. op # "open"
          BY <4>1 DEF OpOK, CloseStages
        <4>3. call'.stage \notin {"open_btc", "open_cancel", "open_rollback"}
          BY <2>2, <4>1, EngineStages, RetryFields DEF CloseStages
        <4> QED
          BY <2>p, <3>u, <4>2, <4>3 DEF OpenRolledBack, Returned
      <3> QED
        BY <2>2, <3>1, <3>2, <3>3, <3>4, <3>5, <3>6 DEF EngineStep
    <2>3. CASE RestingTaken
      <3>1. next_oid' = next_oid /\ call' = call
        BY <2>3, RestingTakenEffect, TakingKeepsType
      <3>2. ~NothingRested'
        <4>1. PICK x \in book : TRUE
          BY <2>3 DEF RestingTaken
        <4>2. x.oid \in 1..(next_oid - 1)
          BY DEF ExchangeTypeOK
        <4> QED
          BY <2>t, <3>1, <4>2 DEF NothingRested
      <3> QED
        BY <2>s, <2>p, <3>1, <3>2
    <2>4. CASE UNCHANGED pair_vars
      <3>1. /\ UNCHANGED <<call, next_oid, met>>
            /\ Change("eth")' = Change("eth") /\ Change("btc")' = Change("btc")
        BY <2>4, NothingChanged DEF pair_vars, engine_vars, exchange_vars, history
      <3>2. OpenRolledBack' <=> OpenRolledBack
        BY <2>4 DEF pair_vars, engine_vars, exchange_vars, history, OpenRolledBack,
                    Returned, Failed, Answered, Spared, NothingRested
      <3> QED
        BY <2>s, <2>p, <3>1, <3>2, CleanMet DEF NothingRested
    <2> QED
      BY <2>1, <2>2, <2>3, <2>4 DEF Next, CallerStep
  <1> QED
    BY <1>1, <1>2, TypeInductive, OpeningInductive, PTL DEF Spec

\* An open on a flat account that fails where no order rests has put everything
\* back.
THEOREM FailedOpenIsRolledBack == Spec => []OpenRolledBack
  <1>1. RollbackInv => OpenRolledBack
    BY DEF RollbackInv, OpenRolledBack, Clean, Answered, Spared
  <1> QED
    BY <1>1, RollbackInductive, PTL

----------------------------------------------------------------------------
(* close_pair that reports two fills.                                       *)

\* What an order that closes a leg did when it is answered by a fill: the call's
\* own change of the leg is the fill, and a whole fill leaves nothing on the leg.
LEMMA ClosingReply ==
    ASSUME TypeInv, UNCHANGED history, NEW leg \in Legs, call.stage \in OrderStages,
           Closes(call.request, leg), NEW o \in Outcomes(call), Apply(o),
           o.reply.kind = "Filled", Own = {}, Change(leg) = 0
    PROVE  /\ o.reply.qty \in Nat \ {0} /\ Own' = {}
           /\ Abs(Change(leg)') = o.reply.qty
           /\ \A other \in Legs :
                other # leg => /\ Change(other)' = Change(other)
                               /\ exposure'[other] = exposure[other]
           /\ "partial" \notin met' /\ leg \notin moved => exposure'[leg] = 0
  <1>1. Effect(o, call.request) /\ call.request \in Orders /\ call.request.leg = leg
    BY OrderAttempt DEF Closes
  <1>2. PICK qty \in Nat \ {0} :
          FilledWith(o, call.request, qty) /\ o.reply = Filled(qty)
    BY <1>1, TrueReply, ReplyKinds DEF IsError
  <1>3. /\ Own' = Own
        /\ leg = "eth" => /\ Change("eth")' = Change("eth") + Sign(call.request.side) * qty
                          /\ Change("btc")' = Change("btc")
        /\ leg = "btc" => /\ Change("btc")' = Change("btc") + Sign(call.request.side) * qty
                          /\ Change("eth")' = Change("eth")
        /\ Sign(call.request.side) \in {1, -1}
    BY <1>1, <1>2, FillChange
  <1>4. Abs(Change(leg)') = qty
    <2>1. CASE leg = "eth"
      <3>1. Change("eth")' \in {qty, -qty}
        BY <1>2, <1>3, <2>1
      <3> QED
        BY <1>2, <2>1, <3>1 DEF Abs
    <2>2. CASE leg = "btc"
      <3>1. Change("btc")' \in {qty, -qty}
        BY <1>2, <1>3, <2>2
      <3> QED
        BY <1>2, <2>2, <3>1 DEF Abs
    <2> QED
      BY <2>1, <2>2 DEF Legs
  <1>5. \A other \in Legs :
          other # leg => /\ Change(other)' = Change(other)
                         /\ exposure'[other] = exposure[other]
    <2>1. exposure' = [exposure EXCEPT ![leg] = @ + Sign(call.request.side) * qty]
      BY <1>1, <1>2 DEF FilledWith, Apply
    <2>2. before' = before /\ exposure \in [Legs -> Int]
      BY DEF history, ExchangeTypeOK
    <2>3. \A other \in Legs : other # leg => exposure'[other] = exposure[other]
      BY <2>1, <2>2
    <2> QED
      BY <2>2, <2>3 DEF Change
  <1>6. ASSUME "partial" \notin met', leg \notin moved PROVE exposure'[leg] = 0
    <2>1. ClosesLeg(call.request, leg, exposure[leg])
      BY <1>6 DEF Closes
    <2>2. Fillable(call.request) \in Nat
      BY <1>1, FillableRange DEF Counted, ExchangeTypeOK
    <2>3. qty = Fillable(call.request)
      BY <1>2, <1>6, <2>2 DEF FilledWith, Apply
    <2>4. exposure'[leg] = exposure[leg] + Sign(call.request.side) * qty
      BY <1>1, <1>2 DEF FilledWith, Apply, ExchangeTypeOK
    <2>5. exposure[leg] \in Int
      BY DEF ExchangeTypeOK
    <2>6. CASE exposure[leg] > 0
      <3>1. call.request.side = "Sell" /\ call.request.qty = exposure[leg]
        BY <2>1, <2>5, <2>6 DEF ClosesLeg, CloseForQty, Abs
      <3>2. Fillable(call.request) = exposure[leg]
        BY <2>1, <2>5, <2>6, <3>1 DEF ClosesLeg, Fillable, Reducible, Sign
      <3> QED
        BY <2>3, <2>4, <2>5, <3>1, <3>2 DEF Sign
    <2>7. CASE exposure[leg] <= 0
      <3>1. call.request.side = "Buy" /\ call.request.qty = -exposure[leg]
        BY <1>1, <2>1, <2>5, <2>7 DEF ClosesLeg, CloseForQty, Abs, Orders
      <3>2. Fillable(call.request) = -exposure[leg]
        BY <2>1, <2>5, <2>7, <3>1 DEF ClosesLeg, Fillable, Reducible, Sign
      <3> QED
        BY <2>3, <2>4, <2>5, <3>1, <3>2 DEF Sign
    <2> QED
      BY <2>5, <2>6, <2>7
  <1> QED
    BY <1>2, <1>3, <1>4, <1>5, <1>6, ReplyKinds

\* What close_pair knows of the account between its first and its second leg.
LEMMA ClosingInductive == Spec => []ClosingInv
  <1>1. Init => ClosingInv
    BY CallFields DEF Init, ClosingInv, Returned, CloseFillsMatch
  <1>2. TypeInv /\ ClosingInv /\ [Next]_pair_vars => ClosingInv'
    <2> SUFFICES ASSUME TypeInv, ClosingInv, [Next]_pair_vars,
                        "lost_response" \notin met'
                 PROVE  ClosingInv'
      BY DEF ClosingInv
    <2>m. "lost_response" \notin met /\ ("partial" \notin met' => "partial" \notin met)
      BY MetGrows
    <2>n. ASSUME call'.stage \notin {"close_eth", "close_btc"},
                 ~(Returned("close")' /\ call'.result.kind = "PairFilled")
          PROVE  ClosingInv'
      BY <2>n DEF ClosingInv, CloseFillsMatch
    <2>1. CASE CallerStep
      <3>1. CASE call'.stage = "close_eth"
        <4>1. PICK type \in CloseTypes : StartClose(type)
          BY <2>1, <3>1, CallerStages
        <4>2. Closes(call.request, "eth")' /\ Closes(call.second, "btc")'
          BY <4>1, Starts
        <4>3. Untouched'
          BY <4>1, CalledUntouched DEF StartClose
        <4> QED
          BY <3>1, <4>2, <4>3 DEF ClosingInv, CloseFillsMatch, Returned
      <3>2. CASE call'.stage # "close_eth"
        <4>1. call'.stage \notin {"close_eth", "close_btc", "returned"}
          BY <2>1, <3>2, CallerStages
        <4> QED
          BY <2>n, <4>1 DEF Returned
      <3> QED
        BY <3>1, <3>2
    <2>2. CASE EngineStep /\ UNCHANGED history
      <3>u. UNCHANGED <<op, since, before, moved>>
        BY <2>2 DEF history
      <3>1. CASE Retry /\ call.stage \in {"close_eth", "close_btc"}
        <4>1. UNCHANGED <<exposure, book, next_oid>>
          BY <3>1, RetryChangesNothing DEF OrderStages
        <4>2. /\ call'.stage = call.stage /\ call'.request = call.request
              /\ call'.second = call.second /\ call'.first = call.first
          BY <3>1, RetryFields
        <4>3. /\ Own' = Own /\ Change("eth")' = Change("eth")
              /\ Change("btc")' = Change("btc") /\ Untouched' = Untouched
          BY <3>u, <4>1, NothingChanged
        <4>4. /\ Closes(call.request, "eth")' <=> Closes(call.request, "eth")
              /\ Closes(call.second, "btc")' <=> Closes(call.second, "btc")
              /\ Closes(call.request, "btc")' <=> Closes(call.request, "btc")
          BY <3>u, <4>1, <4>2 DEF Closes
        <4>5. call'.stage # "returned"
          BY <3>1, <4>2
        <4>6. CASE call.stage = "close_eth"
          BY <2>m, <4>2, <4>3, <4>4, <4>6 DEF ClosingInv, CloseFillsMatch, Returned
        <4>7. CASE call.stage = "close_btc"
          BY <2>m, <3>u, <4>1, <4>2, <4>3, <4>4, <4>7
             DEF ClosingInv, CloseFillsMatch, Returned
        <4> QED
          BY <3>1, <4>6, <4>7
      <3>2. CASE CloseEth
        <4>1. PICK o \in Outcomes(call) :
                /\ Apply(o)
                /\ o.reply.kind # "Filled" =>
                     call'.stage = "returned" /\ Failed(call'.result)
                /\ o.reply.kind = "Filled" =>
                     /\ call'.stage = "close_btc" /\ call'.request = call.second
                     /\ call'.first = o.reply
          BY <3>2, CloseEthCases
        <4>2. call.stage = "close_eth"
          BY <3>2, CloseEthCases
        <4>3. CASE o.reply.kind # "Filled"
          <5>1. ~(call'.result.kind = "PairFilled")
            BY <4>1, <4>3 DEF Failed
          <5> QED
            BY <2>n, <4>1, <4>3, <5>1
        <4>4. CASE o.reply.kind = "Filled"
          <5>1. /\ Own = {} /\ Change("eth") = 0 /\ Change("btc") = 0
                /\ Closes(call.request, "eth") /\ Closes(call.second, "btc")
            BY <2>m, <4>2 DEF ClosingInv, Untouched
          <5>2. /\ o.reply.qty \in Nat \ {0} /\ Own' = {}
                /\ Abs(Change("eth")') = o.reply.qty
                /\ Change("btc")' = Change("btc") /\ exposure'["btc"] = exposure["btc"]
                /\ "partial" \notin met' /\ "eth" \notin moved => exposure'["eth"] = 0
            <6>1. "eth" \in Legs /\ "btc" \in Legs /\ "btc" # "eth"
              BY DEF Legs
            <6> QED
              BY <2>2, <4>1, <4>2, <4>4, <5>1, <6>1, ClosingReply DEF OrderStages
          <5>3. Closes(call.request, "btc")'
            BY <3>u, <4>1, <4>4, <5>1, <5>2 DEF Closes
          <5> QED
            BY <3>u, <4>1, <4>4, <5>1, <5>2, <5>3
               DEF ClosingInv, CloseFillsMatch, Returned
        <4> QED
          BY <4>3, <4>4
      <3>3. CASE CloseBtc
        <4>1. PICK o \in Outcomes(call) :
                /\ Apply(o)
                /\ o.reply.kind # "Filled" => call'.stage = "close_rollback"
                /\ o.reply.kind = "Filled" =>
                     /\ call'.stage = "returned"
                     /\ call'.result = PairFilled(call.first.qty, o.reply.qty)
          BY <3>3, CloseBtcCases
        <4>2. call.stage = "close_btc"
          BY <3>3, CloseBtcCases
        <4>3. CASE o.reply.kind # "Filled"
          BY <2>n, <4>1, <4>3 DEF Returned
        <4>4. CASE o.reply.kind = "Filled"
          <5>1. /\ Own = {} /\ Change("btc") = 0
                /\ Abs(Change("eth")) = call.first.qty
                /\ Closes(call.request, "btc")
                /\ "partial" \notin met /\ "eth" \notin moved => exposure["eth"] = 0
            BY <2>m, <4>2 DEF ClosingInv
          <5>2. /\ Own' = {} /\ Abs(Change("btc")') = o.reply.qty
                /\ Change("eth")' = Change("eth") /\ exposure'["eth"] = exposure["eth"]
                /\ "partial" \notin met' /\ "btc" \notin moved => exposure'["btc"] = 0
            <6>1. "eth" \in Legs /\ "btc" \in Legs /\ "btc" # "eth"
              BY DEF Legs
            <6> QED
              BY <2>2, <4>1, <4>2, <4>4, <5>1, <6>1, ClosingReply DEF OrderStages
          <5>3. call'.result.eth = call.first.qty /\ call'.result.btc = o.reply.qty
            BY <4>1, <4>4, ResultFields
          <5>4. Abs(Change("eth")') = call'.result.eth
            BY <5>1, <5>2, <5>3
          <5>5. "partial" \notin met' => \A leg \in Legs \ moved' : exposure'[leg] = 0
            BY <2>m, <3>u, <5>1, <5>2 DEF Legs
          <5>6. CloseFillsMatch'
            BY <5>2, <5>3, <5>4, <5>5 DEF CloseFillsMatch, Spared
          <5> QED
            BY <4>1, <4>4, <5>2, <5>6 DEF ClosingInv
        <4> QED
          BY <4>3, <4>4
      <3>4. CASE /\ ~CloseEth /\ ~CloseBtc
                 /\ ~(Retry /\ call.stage \in {"close_eth", "close_btc"})
        <4>1. call'.stage \notin {"close_eth", "close_btc"}
          <5>1. CASE Retry
            BY <3>4, <5>1, RetryFields
          <5>2. CASE ~Retry
            BY <2>2, <3>4, <5>2, EngineStages
          <5> QED
            BY <5>1, <5>2
        <4>2. ~(Returned("close")' /\ call'.result.kind = "PairFilled")
          <5>1. CASE CloseRollback
            <6>1. \E class, why : call' = Return(Error(class, why))
              BY <5>1 DEF CloseRollback
            <6> QED
              BY <6>1, CallFields, ResultFields
          <5>2. CASE ~CloseRollback
            BY <2>2, <3>u, <3>4, <5>2, EngineStages, Attempted
               DEF Returned, OpOK, OpenStages, OrderStages, CancelStages
          <5> QED
            BY <5>1, <5>2
        <4> QED
          BY <2>n, <4>1, <4>2
      <3> QED
        BY <3>1, <3>2, <3>3, <3>4
    <2>3. CASE RestingTaken
      <3>1. UNCHANGED <<call, op>>
        BY <2>3, RestingTakenEffect
      <3>2. CASE Own = {}
        <4>1. /\ Own' = {} /\ Change("eth")' = Change("eth")
              /\ Change("btc")' = Change("btc")
              /\ moved \subseteq moved' /\ moved' \subseteq Legs
              /\ \A leg \in Legs \ moved' : exposure'[leg] = exposure[leg]
          BY <2>3, <3>2, EarlierTaken
        <4>2. "eth" \in Legs /\ "btc" \in Legs
          BY DEF Legs
        <4>3. /\ Closes(call.request, "eth") => Closes(call.request, "eth")'
              /\ Closes(call.second, "btc") => Closes(call.second, "btc")'
              /\ Closes(call.request, "btc") => Closes(call.request, "btc")'
          BY <3>1, <4>1, <4>2 DEF Closes
        <4>4. Returned("close")' /\ call'.result.kind = "PairFilled" =>
                /\ Abs(Change("eth")') = call'.result.eth
                /\ Abs(Change("btc")') = call'.result.btc
                /\ "partial" \notin met' =>
                     \A leg \in Legs \ moved' : exposure'[leg] = 0
          BY <2>m, <3>1, <4>1 DEF ClosingInv, CloseFillsMatch, Returned, Spared, Abs
        <4>5. CloseFillsMatch'
          BY <4>4 DEF CloseFillsMatch, Spared, Abs
        <4>6. call.stage = "close_eth" =>
                Untouched' /\ Closes(call.request, "eth")' /\ Closes(call.second, "btc")'
          BY <2>m, <4>1, <4>3 DEF ClosingInv, Untouched
        <4>7. call.stage = "close_btc" =>
                /\ Own' = {} /\ Change("btc")' = 0
                /\ Abs(Change("eth")') = call.first.qty
                /\ Closes(call.request, "btc")'
                /\ "partial" \notin met' /\ "eth" \notin moved' => exposure'["eth"] = 0
          BY <2>m, <4>1, <4>2, <4>3 DEF ClosingInv
        <4> QED
          BY <3>1, <4>1, <4>5, <4>6, <4>7 DEF ClosingInv
      <3>3. CASE Own # {}
        <4>1. /\ call.stage \notin {"close_eth", "close_btc"}
              /\ ~(Returned("close") /\ call.result.kind = "PairFilled")
          BY <2>m, <3>3 DEF ClosingInv, Untouched
        <4> QED
          BY <2>n, <3>1, <4>1 DEF Returned
      <3> QED
        BY <3>2, <3>3
    <2>4. CASE UNCHANGED pair_vars
      <3>1. /\ UNCHANGED <<call, op, moved, met, exposure>>
            /\ Own' = Own /\ Untouched' = Untouched
            /\ Change("eth")' = Change("eth") /\ Change("btc")' = Change("btc")
        BY <2>4, NothingChanged DEF pair_vars, engine_vars, exchange_vars, history
      <3>2. CloseFillsMatch' <=> CloseFillsMatch
        BY <2>4 DEF pair_vars, engine_vars, exchange_vars, history, CloseFillsMatch,
                    Returned, Spared, Change
      <3> QED
        BY <2>m, <3>1, <3>2 DEF ClosingInv, Closes, Returned
    <2> QED
      BY <2>1, <2>2, <2>3, <2>4 DEF Next, CallerStep
  <1> QED
    BY <1>1, <1>2, TypeInductive, PTL DEF Spec

\* What a close reports as filled is what it did to the account, unless an answer
\* was lost, and where those fills are whole it leaves nothing of what it was asked
\* to close, but for the legs on which an order of an earlier call was taken
\* meanwhile.
THEOREM FilledCloseMatches == Spec => []CloseFillsMatch
  <1>1. ClosingInv => CloseFillsMatch
    BY DEF ClosingInv, CloseFillsMatch, Spared
  <1> QED
    BY <1>1, ClosingInductive, PTL
=============================================================================
