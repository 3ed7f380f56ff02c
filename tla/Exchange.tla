------------------------------ MODULE Exchange ------------------------------
(***************************************************************************)
(* The exchange as LiveOrderExecutor (src/execution/mod.rs) meets it: the  *)
(* net position per leg, the orders resting on the book, and the answers   *)
(* one request can get.  It is external: what it does is modelled from     *)
(* what the executor sends (IOC for MARKET, GTC for LIMIT, ALO for         *)
(* POST_ONLY, the reduce-only flag) and from the answers it parses.        *)
(*                                                                         *)
(* An answer is an outcome: the reply the executor returns, with the       *)
(* exchange state it leaves behind.  A failed leverage update or asset     *)
(* lookup in front of an order is an outcome without effect like any       *)
(* other.  Quantities are multiples of the smallest fill.                  *)
(***************************************************************************)
EXTENDS PairTypes

CONSTANTS
    Faults,     \* which faults happen, a subset of FaultKinds
    Endless,    \* those that may go on for ever, of Harmless
    MaxFaults,  \* bound: the other faults in a behaviour
    MaxOid      \* bound: orders ever put on the book

\* transient:     an attempt fails (network, 5xx) before reaching the book
\* lost_response: it fails after the exchange has carried it out
\* garbled:       the exchange carries it out and the body does not parse
\* reject:        the exchange refuses the order (4xx, error status)
\* no_match:      an IOC order finds nothing to match
\* partial:       a fill smaller than the order
FaultKinds ==
    {"transient", "lost_response", "garbled", "reject", "no_match", "partial"}

\* Faults that leave the exchange as it was.
Harmless == {"transient", "no_match", "reject"}

ASSUME FaultsAssumption ==
    Faults \subseteq FaultKinds /\ Endless \subseteq Harmless

ASSUME FaultBoundAssumption == MaxFaults \in Nat /\ MaxOid \in Nat

VARIABLES
    exposure,  \* signed position of each leg
    book,      \* resting orders
    next_oid,  \* id of the next resting order
    faults,    \* faults so far that are not of Endless
    met        \* history: the kinds of faults among them

exchange_vars == <<exposure, book, next_oid, faults, met>>

OrderTypes == {"Market", "Limit", "PostOnly"}

ExchangeTypeOK ==
    /\ exposure \in [Legs -> Int]
    /\ book \subseteq [oid : 1..(next_oid - 1), leg : Legs, side : Sides,
                       qty : Nat \ {0}, reduce_only : BOOLEAN]
    /\ \A o1, o2 \in book : o1.oid = o2.oid => o1 = o2
    /\ next_oid \in 1..(MaxOid + 1)
    /\ faults \in 0..MaxFaults

ExchangeInit(positions) ==
    /\ exposure = positions
    /\ book = {}
    /\ next_oid = 1
    /\ faults = 0
    /\ met = {}

----------------------------------------------------------------------------
(* Replies, OrderSubmitResult and ExecutionError.                           *)

Filled(qty) == [kind |-> "Filled", qty |-> qty]

Resting(oid) == [kind |-> "Resting", oid |-> oid]

Cancelled == [kind |-> "Cancelled"]

Transient == [kind |-> "Transient", why |-> "no_answer"]

Fatal(why) == [kind |-> "Fatal", why |-> why]

\* Why a request fails, as far as a caller tells the reasons apart.
Reasons ==
    {"no_answer", "garbled", "rejected", "no_match", "reduce_only", "would_take",
     "unknown_oid", "resting_on_book"}

IsError(reply) == reply.kind \in {"Transient", "Fatal"}

----------------------------------------------------------------------------
(* Requests: orders [leg, side, qty, type, reduce_only] and cancels         *)
(* [leg, oid].                                                              *)

\* How much of an order on this side the leg's position can absorb without
\* growing or turning over.
Reducible(leg, side) ==
    LET against == -Sign(side) * exposure[leg]
    IN  IF against > 0 THEN against ELSE 0

\* What an order can fill: a reduce-only order is capped at the position.
Fillable(order) ==
    IF order.reduce_only /\ Reducible(order.leg, order.side) < order.qty
    THEN Reducible(order.leg, order.side)
    ELSE order.qty

Outcome(reply) ==
    [reply |-> reply, exposure |-> exposure, book |-> book,
     next_oid |-> next_oid, faults |-> faults, met |-> met]

\* Properties say which faults they need absent.
Spared(kinds) == met \cap kinds = {}

Faulty(kind, outcome) ==
    IF kind \in Endless THEN outcome
    ELSE [outcome EXCEPT !.faults = @ + 1, !.met = @ \cup {kind}]

FaultAllowed(kind) ==
    kind \in Endless \/ (kind \in Faults /\ faults < MaxFaults)

Fills(order, qty) ==
    [Outcome(Filled(qty)) EXCEPT
        !.exposure[order.leg] = @ + Sign(order.side) * qty]

Rests(order) ==
    [Outcome(Resting(next_oid)) EXCEPT
        !.book = @ \cup {[oid |-> next_oid, leg |-> order.leg,
                          side |-> order.side, qty |-> order.qty,
                          reduce_only |-> order.reduce_only]},
        !.next_oid = @ + 1]

\* What happens to an order that reaches the matching engine and meets no
\* fault: a market order fills, a limit order fills or rests, a post-only
\* order rests or is refused because it would take, and a reduce-only order
\* with nothing to reduce is refused.
Matched(order) ==
    IF Fillable(order) = 0 THEN {Outcome(Fatal("reduce_only"))}
    ELSE (IF order.type = "PostOnly" THEN {Outcome(Fatal("would_take"))}
          ELSE {Fills(order, Fillable(order))})
         \cup (IF order.type # "Market" /\ next_oid <= MaxOid
               THEN {Rests(order)} ELSE {})

OrderFaults(order) ==
    UNION {
        IF FaultAllowed("partial") /\ order.type = "Market"
        THEN {Faulty("partial", Fills(order, qty)) : qty \in 1..(Fillable(order) - 1)}
        ELSE {},
        IF FaultAllowed("no_match") /\ order.type = "Market"
        THEN {Faulty("no_match", Outcome(Fatal("no_match")))} ELSE {},
        IF FaultAllowed("reject")
        THEN {Faulty("reject", Outcome(Fatal("rejected")))} ELSE {},
        IF FaultAllowed("transient")
        THEN {Faulty("transient", Outcome(Transient))} ELSE {},
        IF FaultAllowed("lost_response")
        THEN {Faulty("lost_response", [o EXCEPT !.reply = Transient]) :
                o \in Matched(order)}
        ELSE {},
        IF FaultAllowed("garbled")
        THEN {Faulty("garbled", [o EXCEPT !.reply = Fatal("garbled")]) :
                o \in Matched(order)}
        ELSE {}}

\* post_order: every answer one attempt of an order can get.
OrderOutcomes(order) == Matched(order) \cup OrderFaults(order)

\* An order that is no longer on the book (filled or already cancelled) cannot
\* be cancelled.
Removed(leg, oid) ==
    LET open == {o \in book : o.leg = leg /\ o.oid = oid}
    IN  IF open = {} THEN Outcome(Fatal("unknown_oid"))
        ELSE [Outcome(Cancelled) EXCEPT !.book = @ \ open]

\* cancel: every answer one attempt of a cancel can get.  A refused one (4xx,
\* error status) leaves the order where it is.
CancelOutcomes(leg, oid) ==
    UNION {
        {Removed(leg, oid)},
        IF FaultAllowed("reject")
        THEN {Faulty("reject", Outcome(Fatal("rejected")))} ELSE {},
        IF FaultAllowed("transient")
        THEN {Faulty("transient", Outcome(Transient))} ELSE {},
        IF FaultAllowed("lost_response")
        THEN {Faulty("lost_response",
                     [Removed(leg, oid) EXCEPT !.reply = Transient])}
        ELSE {},
        IF FaultAllowed("garbled")
        THEN {Faulty("garbled",
                     [Removed(leg, oid) EXCEPT !.reply = Fatal("garbled")])}
        ELSE {}}

Apply(outcome) ==
    /\ exposure' = outcome.exposure
    /\ book' = outcome.book
    /\ next_oid' = outcome.next_oid
    /\ faults' = outcome.faults
    /\ met' = outcome.met

----------------------------------------------------------------------------
\* This much of a resting order is taken: all it can fill, or (a fault) a part;
\* a reduce-only order never takes its leg past zero and leaves the book when it
\* cannot fill.
Taking(o, qty) ==
    /\ qty = Fillable(o) \/ (qty > 0 /\ FaultAllowed("partial"))
    /\ exposure' = [exposure EXCEPT ![o.leg] = @ + Sign(o.side) * qty]
    /\ book' = (book \ {o}) \cup
                 (IF qty < Fillable(o) THEN {[o EXCEPT !.qty = @ - qty]} ELSE {})
    /\ IF qty < Fillable(o)
       THEN faults' = faults + 1 /\ met' = met \cup {"partial"}
       ELSE UNCHANGED <<faults, met>>
    /\ UNCHANGED next_oid

TakeResting == \E o \in book : \E qty \in 0..Fillable(o) : Taking(o, qty)
=============================================================================
