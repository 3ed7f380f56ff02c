---------------------------- MODULE EngineProofs ----------------------------
(***************************************************************************)
(* What one step of a call of ExecutionEngine does, to the account and to  *)
(* the call, for requests of any size, any number of attempts and every    *)
(* set of faults: the facts that the proofs about the engine alone         *)
(* (PairExecutionProofs) and about the process (LiveRunnerProofs) share.   *)
(***************************************************************************)
EXTENDS ExecutionEngine, TLAPS

(***************************************************************************)
(* What one attempt of a request can do to the account (Exchange).         *)
(***************************************************************************)

\* What the engine submits.
Orders ==
    [leg : Legs, side : Sides, qty : Nat \ {0}, type : OrderTypes,
     reduce_only : BOOLEAN]

\* The fault counter and the history of faults only grow, within their bounds.
Grows(o) ==
    /\ o.faults \in 0..MaxFaults
    /\ met \subseteq o.met /\ o.met \subseteq met \cup Faults

\* Nothing happened, and the reply is an error.
Missed(o) ==
    /\ o.exposure = exposure /\ o.book = book /\ o.next_oid = next_oid
    /\ \/ o.reply = Transient
       \/ \E why \in Reasons : o.reply = Fatal(why)

\* The answer to what happened: the true one, a lost or a garbled one.
Answers(o, reply) ==
    \/ o.reply = reply
    \/ o.reply = Transient /\ "lost_response" \in o.met
    \/ o.reply = Fatal("garbled") /\ "garbled" \in o.met

\* The order filled with this quantity.
FilledWith(o, order, qty) ==
    /\ order.type # "PostOnly"
    /\ qty \in 1..Fillable(order)
    /\ o.exposure = [exposure EXCEPT ![order.leg] = @ + Sign(order.side) * qty]
    /\ o.book = book /\ o.next_oid = next_oid
    /\ Answers(o, Filled(qty))
    /\ qty < Fillable(order) => "partial" \in o.met

\* The order went on the book.
WentOnBook(o, order) ==
    /\ order.type # "Market"
    /\ o.exposure = exposure
    /\ o.book = book \cup {[oid |-> next_oid, leg |-> order.leg,
                            side |-> order.side, qty |-> order.qty,
                            reduce_only |-> order.reduce_only]}
    /\ next_oid <= MaxOid
    /\ o.next_oid = next_oid + 1
    /\ Answers(o, Resting(next_oid))

\* What one attempt of an order can do.
Effect(o, order) ==
    /\ Grows(o)
    /\ \/ Missed(o)
       \/ \E qty \in Nat : FilledWith(o, order, qty)
       \/ WentOnBook(o, order)

\* As much of the type invariant as the effect of one attempt needs.
Counted ==
    /\ exposure \in [Legs -> Int]
    /\ faults \in 0..MaxFaults

\* A reduce-only order fills at most what it can reduce, any other one its size.
LEMMA FillableRange ==
    ASSUME Counted, NEW order \in Orders
    PROVE  /\ Fillable(order) \in 0..order.qty
           /\ ~order.reduce_only => Fillable(order) = order.qty
  BY DEF Counted, Orders, Fillable, Reducible, Sign, Sides, Legs

\* A fault that is not of Endless is counted; only such a one leaves something
\* on the account or on the book.
LEMMA FaultCounts ==
    "lost_response" \notin Endless /\ "garbled" \notin Endless /\ "partial" \notin Endless
  BY FaultsAssumption DEF Harmless

\* A fault without an effect: an error, and what the history keeps of it.
LEMMA Harmed ==
    ASSUME Counted, NEW kind, FaultAllowed(kind), NEW reply, NEW o,
           o = Faulty(kind, Outcome(reply))
    PROVE  /\ o.exposure = exposure /\ o.book = book /\ o.next_oid = next_oid
           /\ o.reply = reply
           /\ Grows(o)
  <1>1. CASE kind \in Endless
    <2>1. /\ o.exposure = exposure /\ o.book = book /\ o.next_oid = next_oid
          /\ o.reply = reply /\ o.met = met /\ o.faults = faults
      BY <1>1 DEF Faulty, Outcome
    <2> QED
      BY <2>1 DEF Grows, Counted
  <1>2. CASE kind \notin Endless
    <2>1. /\ o.exposure = exposure /\ o.book = book /\ o.next_oid = next_oid
          /\ o.reply = reply /\ o.met = met \cup {kind} /\ o.faults = faults + 1
      BY <1>2 DEF Faulty, Outcome
    <2>2. kind \in Faults /\ faults < MaxFaults
      BY <1>2 DEF FaultAllowed
    <2> QED
      BY <2>1, <2>2, FaultBoundAssumption DEF Grows, Counted
  <1> QED
    BY <1>1, <1>2

\* Without a fault: a fill, an order on the book, or a refusal.
LEMMA MatchedEffect ==
    ASSUME Counted, NEW order \in Orders, NEW o \in Matched(order)
    PROVE  /\ o.met = met /\ o.faults = faults
           /\ Effect(o, order)
  <1>1. CASE o = Outcome(Fatal("reduce_only")) \/ o = Outcome(Fatal("would_take"))
    <2>1. /\ o.exposure = exposure /\ o.book = book /\ o.next_oid = next_oid
          /\ o.met = met /\ o.faults = faults
          /\ \E why \in Reasons : o.reply = Fatal(why)
      BY <1>1 DEF Outcome, Reasons
    <2> QED
      BY <2>1 DEF Effect, Missed, Grows, Counted
  <1>2. CASE /\ o = Fills(order, Fillable(order))
             /\ Fillable(order) # 0 /\ order.type # "PostOnly"
    <2>1. Fillable(order) \in Nat /\ Fillable(order) \in 1..Fillable(order)
      BY <1>2, FillableRange
    <2>2. /\ o.exposure = [exposure EXCEPT ![order.leg] =
                             @ + Sign(order.side) * Fillable(order)]
          /\ o.book = book /\ o.next_oid = next_oid
          /\ o.reply = Filled(Fillable(order))
          /\ o.met = met /\ o.faults = faults
      BY <1>2 DEF Fills, Outcome
    <2>3. FilledWith(o, order, Fillable(order))
      BY <1>2, <2>1, <2>2 DEF FilledWith, Answers
    <2> QED
      BY <2>1, <2>2, <2>3 DEF Effect, Grows, Counted
  <1>3. CASE o = Rests(order) /\ order.type # "Market" /\ next_oid <= MaxOid
    <2>1. /\ o.exposure = exposure
          /\ o.book = book \cup {[oid |-> next_oid, leg |-> order.leg,
                                  side |-> order.side, qty |-> order.qty,
                                  reduce_only |-> order.reduce_only]}
          /\ o.next_oid = next_oid + 1
          /\ o.reply = Resting(next_oid)
          /\ o.met = met /\ o.faults = faults
      BY <1>3 DEF Rests, Outcome
    <2> QED
      BY <1>3, <2>1, FaultBoundAssumption
         DEF Effect, WentOnBook, Answers, Grows, Counted
  <1> QED
    BY <1>1, <1>2, <1>3 DEF Matched

\* A lost or garbled answer to what happened.
LEMMA MisreportedEffect ==
    ASSUME Counted, NEW order \in Orders, NEW o, NEW m \in Matched(order),
           \/ /\ FaultAllowed("lost_response")
              /\ o = Faulty("lost_response", [m EXCEPT !.reply = Transient])
           \/ /\ FaultAllowed("garbled")
              /\ o = Faulty("garbled", [m EXCEPT !.reply = Fatal("garbled")])
    PROVE  Effect(o, order)
  <1>1. /\ m.met = met /\ m.faults = faults
        /\ Effect(m, order)
    BY MatchedEffect
  <1>m. DOMAIN m = {"reply", "exposure", "book", "next_oid", "faults", "met"}
    BY DEF Matched, Outcome, Fills, Rests
  <1>2. /\ o.exposure = m.exposure /\ o.book = m.book /\ o.next_oid = m.next_oid
        /\ o.faults = faults + 1 /\ met \subseteq o.met
        /\ o.met \subseteq met \cup Faults
        /\ \/ o.reply = Transient /\ "lost_response" \in o.met
           \/ o.reply = Fatal("garbled") /\ "garbled" \in o.met
    <2>1. CASE o = Faulty("lost_response", [m EXCEPT !.reply = Transient])
      BY <1>1, <1>m, <2>1, FaultCounts DEF Faulty, FaultAllowed
    <2>2. CASE o = Faulty("garbled", [m EXCEPT !.reply = Fatal("garbled")])
      BY <1>1, <1>m, <2>2, FaultCounts DEF Faulty, FaultAllowed
    <2> QED
      BY <2>1, <2>2
  <1>3. Grows(o)
    BY <1>2, FaultBoundAssumption, FaultCounts DEF Grows, FaultAllowed, Counted
  <1>4. CASE Missed(m)
    BY <1>2, <1>3, <1>4 DEF Effect, Missed, Reasons
  <1>5. ASSUME NEW qty \in Nat, FilledWith(m, order, qty) PROVE Effect(o, order)
    <2>1. qty < Fillable(order) => "partial" \in o.met
      BY <1>1, <1>2, <1>5 DEF FilledWith
    <2> QED
      BY <1>2, <1>3, <1>5, <2>1 DEF Effect, FilledWith, Answers
  <1>6. CASE WentOnBook(m, order)
    BY <1>2, <1>3, <1>6 DEF Effect, WentOnBook, Answers
  <1> QED
    BY <1>1, <1>4, <1>5, <1>6 DEF Effect

\* post_order: every answer one attempt of an order can get, and what the
\* account is like after it.
LEMMA OrderEffect ==
    ASSUME Counted, NEW order \in Orders, NEW o \in OrderOutcomes(order)
    PROVE  Effect(o, order)
  <1>1. CASE o \in Matched(order)
    BY <1>1, MatchedEffect
  <1>2. CASE o \in OrderFaults(order)
    <2>1. CASE /\ FaultAllowed("partial")
               /\ \E qty \in 1..(Fillable(order) - 1) :
                    o = Faulty("partial", Fills(order, qty))
               /\ order.type = "Market"
      <3>1. PICK qty \in 1..(Fillable(order) - 1) :
              o = Faulty("partial", Fills(order, qty))
        BY <2>1
      <3>2. qty \in Nat /\ qty \in 1..Fillable(order) /\ qty < Fillable(order)
        BY FillableRange
      <3>3. /\ o.exposure = [exposure EXCEPT ![order.leg] =
                               @ + Sign(order.side) * qty]
            /\ o.book = book /\ o.next_oid = next_oid
            /\ o.reply = Filled(qty)
            /\ o.met = met \cup {"partial"} /\ o.faults = faults + 1
        BY <3>1, FaultCounts DEF Faulty, Fills, Outcome
      <3>4. Grows(o)
        BY <2>1, <3>3, FaultBoundAssumption, FaultCounts DEF Grows, FaultAllowed, Counted
      <3> QED
        BY <2>1, <3>2, <3>3, <3>4 DEF Effect, FilledWith, Answers
    <2>2. CASE \E kind \in {"no_match", "reject", "transient"} :
                 /\ FaultAllowed(kind)
                 /\ \/ \E why \in Reasons : o = Faulty(kind, Outcome(Fatal(why)))
                    \/ o = Faulty(kind, Outcome(Transient))
      <3>1. PICK kind \in {"no_match", "reject", "transient"} :
              /\ FaultAllowed(kind)
              /\ \/ \E why \in Reasons : o = Faulty(kind, Outcome(Fatal(why)))
                 \/ o = Faulty(kind, Outcome(Transient))
        BY <2>2
      <3>2. /\ o.exposure = exposure /\ o.book = book /\ o.next_oid = next_oid
            /\ Grows(o)
            /\ o.reply = Transient \/ \E why \in Reasons : o.reply = Fatal(why)
        BY <3>1, Harmed
      <3> QED
        BY <3>2 DEF Effect, Missed
    <2>3. CASE \E m \in Matched(order) :
                 \/ /\ FaultAllowed("lost_response")
                    /\ o = Faulty("lost_response", [m EXCEPT !.reply = Transient])
                 \/ /\ FaultAllowed("garbled")
                    /\ o = Faulty("garbled", [m EXCEPT !.reply = Fatal("garbled")])
      BY <2>3, MisreportedEffect
    <2>4. \A kind \in {"no_match", "reject", "transient"}, why \in Reasons :
            /\ FaultAllowed(kind)
            /\ \/ o = Faulty(kind, Outcome(Fatal(why)))
               \/ o = Faulty(kind, Outcome(Transient))
            => Effect(o, order)
      BY <2>2
    <2>5. "no_match" \in Reasons /\ "rejected" \in Reasons
      BY DEF Reasons
    <2> QED
      BY <1>2, <2>1, <2>3, <2>4, <2>5 DEF OrderFaults
  <1> QED
    BY <1>1, <1>2 DEF OrderOutcomes

\* The kinds of replies, which the engine branches on, are told apart.
LEMMA ReplyKinds ==
    /\ Transient.kind = "Transient" /\ Transient.why = "no_answer"
    /\ \A why : Fatal(why).kind = "Fatal" /\ Fatal(why).why = why
    /\ \A qty : Filled(qty).kind = "Filled" /\ Filled(qty).qty = qty
    /\ \A oid : Resting(oid).kind = "Resting" /\ Resting(oid).oid = oid
    /\ Cancelled.kind = "Cancelled"
  BY DEF Transient, Fatal, Filled, Resting, Cancelled

\* Where answers are not lost and parse, an error says that nothing happened.
LEMMA AnsweredEffect ==
    ASSUME NEW order \in Orders, NEW o, Effect(o, order),
           "lost_response" \notin o.met, "garbled" \notin o.met
    PROVE  \/ Missed(o) /\ IsError(o.reply)
           \/ \E qty \in Nat \ {0} :
                FilledWith(o, order, qty) /\ o.reply = Filled(qty)
           \/ WentOnBook(o, order) /\ o.reply = Resting(next_oid)
  <1>1. ASSUME Missed(o) PROVE IsError(o.reply)
    BY <1>1, ReplyKinds DEF Missed, IsError
  <1>2. ASSUME NEW qty \in Nat, FilledWith(o, order, qty)
        PROVE  qty # 0 /\ o.reply = Filled(qty)
    BY <1>2 DEF FilledWith, Answers
  <1>3. ASSUME WentOnBook(o, order) PROVE o.reply = Resting(next_oid)
    BY <1>3 DEF WentOnBook, Answers
  <1> QED
    BY <1>1, <1>2, <1>3 DEF Effect

\* The cancel took the order off the book.
TookOff(o, leg, oid) ==
    /\ o.exposure = exposure /\ o.next_oid = next_oid
    /\ \E x \in book : x.leg = leg /\ x.oid = oid
    /\ o.book = book \ {x \in book : x.leg = leg /\ x.oid = oid}
    /\ Answers(o, Cancelled)

\* What one attempt of a cancel can do.
CancelEffect(o, leg, oid) ==
    /\ Grows(o)
    /\ Missed(o) \/ TookOff(o, leg, oid)

\* cancel: every answer one attempt of a cancel can get; nothing but the order
\* it names leaves the book.
LEMMA CancelOutcomeEffect ==
    ASSUME Counted, NEW leg, NEW oid, NEW o \in CancelOutcomes(leg, oid)
    PROVE  CancelEffect(o, leg, oid)
  <1> DEFINE Found == {x \in book : x.leg = leg /\ x.oid = oid}
             R == Removed(leg, oid)
  <1>1. /\ R.exposure = exposure /\ R.next_oid = next_oid
        /\ R.met = met /\ R.faults = faults
        /\ DOMAIN R = {"reply", "exposure", "book", "next_oid", "faults", "met"}
        /\ \/ /\ R.book = book /\ R.reply = Fatal("unknown_oid")
           \/ /\ Found # {}
              /\ R.book = book \ Found /\ R.reply = Cancelled
    BY DEF Removed, Outcome
  <1>2. CASE o = R
    BY <1>1, <1>2
       DEF CancelEffect, Grows, Counted, Missed, TookOff, Answers, Reasons
  <1>3. CASE \/ /\ FaultAllowed("transient")
                /\ o = Faulty("transient", Outcome(Transient))
             \/ /\ FaultAllowed("reject")
                /\ o = Faulty("reject", Outcome(Fatal("rejected")))
    <2>1. /\ o.exposure = exposure /\ o.book = book /\ o.next_oid = next_oid
          /\ o.reply \in {Transient, Fatal("rejected")}
          /\ Grows(o)
      BY <1>3, Harmed
    <2> QED
      BY <2>1 DEF CancelEffect, Missed, Reasons
  <1>4. CASE \/ /\ FaultAllowed("lost_response")
                /\ o = Faulty("lost_response", [R EXCEPT !.reply = Transient])
             \/ /\ FaultAllowed("garbled")
                /\ o = Faulty("garbled", [R EXCEPT !.reply = Fatal("garbled")])
    <2>1. /\ o.exposure = exposure /\ o.book = R.book /\ o.next_oid = next_oid
          /\ o.faults = faults + 1
          /\ \/ /\ o.met = met \cup {"lost_response"} /\ o.reply = Transient
                /\ FaultAllowed("lost_response")
             \/ /\ o.met = met \cup {"garbled"} /\ o.reply = Fatal("garbled")
                /\ FaultAllowed("garbled")
      BY <1>1, <1>4, FaultCounts DEF Faulty
    <2>2. Grows(o)
      BY <1>4, <2>1, FaultBoundAssumption, FaultCounts DEF Grows, FaultAllowed, Counted
    <2> QED
      BY <1>1, <2>1, <2>2 DEF CancelEffect, Missed, TookOff, Answers, Reasons
  <1> QED
    BY <1>2, <1>3, <1>4 DEF CancelOutcomes

\* The exchange takes an order of the book, all that its leg can absorb of it or
\* (a fault) a part of that.
Taken(x, qty) ==
    /\ qty \in 0..x.qty
    /\ x.reduce_only => qty <= Reducible(x.leg, x.side)
    /\ exposure' = [exposure EXCEPT ![x.leg] = @ + Sign(x.side) * qty]
    /\ \/ /\ book' = book \ {x}
          /\ x.reduce_only \/ qty = x.qty
          /\ UNCHANGED <<faults, met>>
       \/ /\ qty \in 1..(x.qty - 1)
          /\ book' = (book \ {x}) \cup {[x EXCEPT !.qty = @ - qty]}
          /\ "partial" \in Faults /\ faults < MaxFaults
          /\ faults' = faults + 1 /\ met' = met \cup {"partial"}
    /\ UNCHANGED next_oid

\* What happens to the account when this order of the book is taken.
LEMMA TakingEffect ==
    ASSUME ExchangeTypeOK, NEW x \in book, NEW qty \in 0..Fillable(x),
           Taking(x, qty)
    PROVE  qty \in Nat /\ Taken(x, qty)
  <1>2. /\ x.qty \in Nat \ {0} /\ x.leg \in Legs /\ x.side \in Sides
        /\ x.reduce_only \in BOOLEAN
        /\ exposure[x.leg] \in Int
    BY DEF ExchangeTypeOK
  <1>3. /\ Reducible(x.leg, x.side) \in Nat
        /\ Fillable(x) \in 0..x.qty
        /\ x.reduce_only => Fillable(x) <= Reducible(x.leg, x.side)
        /\ ~x.reduce_only => Fillable(x) = x.qty
    BY <1>2 DEF Fillable, Reducible, Sign
  <1>4. FaultAllowed("partial") => "partial" \in Faults /\ faults < MaxFaults
    BY FaultCounts DEF FaultAllowed
  <1> QED
    BY <1>2, <1>3, <1>4 DEF Taking, Taken

\* What happens to it when any is.
LEMMA TakenEffect ==
    ASSUME ExchangeTypeOK, TakeResting
    PROVE  \E x \in book, qty \in Nat : Taken(x, qty)
  BY TakingEffect DEF TakeResting

----------------------------------------------------------------------------
(* What every step of the exchange keeps.                                   *)

\* The reply to an order is an error, a fill or the id of a resting order; a
\* market order never rests.
LEMMA OrderReply ==
    ASSUME ExchangeTypeOK, NEW order \in Orders, NEW o, Effect(o, order)
    PROVE  \/ IsError(o.reply) /\ o.reply.why \in Reasons
           \/ \E qty \in Nat \ {0} : o.reply = Filled(qty)
           \/ /\ \E oid \in Nat : o.reply = Resting(oid)
              /\ order.type # "Market" /\ o.next_oid = next_oid + 1
  <1>1. /\ IsError(Transient) /\ Transient.why \in Reasons
        /\ \A why \in Reasons : IsError(Fatal(why)) /\ Fatal(why).why \in Reasons
        /\ "garbled" \in Reasons
        /\ Reasons \subseteq Reasons
    <2>1. "garbled" \in Reasons /\ "no_answer" \in Reasons /\ Reasons \subseteq Reasons
      BY DEF Reasons
    <2> QED
      BY <2>1, ReplyKinds DEF IsError
  <1>2. CASE Missed(o)
    BY <1>1, <1>2 DEF Missed
  <1>3. ASSUME NEW qty \in Nat, FilledWith(o, order, qty)
        PROVE  \/ o.reply = Transient
               \/ o.reply = Fatal("garbled")
               \/ qty # 0 /\ o.reply = Filled(qty)
    BY <1>3 DEF FilledWith, Answers
  <1>4. ASSUME WentOnBook(o, order)
        PROVE  /\ order.type # "Market" /\ o.next_oid = next_oid + 1
               /\ \/ o.reply = Transient
                  \/ o.reply = Fatal("garbled")
                  \/ next_oid \in Nat /\ o.reply = Resting(next_oid)
    BY <1>4 DEF WentOnBook, Answers, ExchangeTypeOK
  <1> QED
    BY <1>1, <1>2, <1>3, <1>4 DEF Effect

\* An order leaves positions, a book and ids that are well formed; ids and the
\* history of faults only grow.
LEMMA OrderKeepsType ==
    ASSUME ExchangeTypeOK, NEW order \in Orders, NEW o, Effect(o, order), Apply(o)
    PROVE  /\ ExchangeTypeOK'
           /\ next_oid' >= next_oid
           /\ met \subseteq met' /\ met' \subseteq met \cup Faults
  <1>1. faults' \in 0..MaxFaults /\ met \subseteq met' /\ met' \subseteq met \cup Faults
    BY DEF Effect, Grows, Apply
  <1>2. order.leg \in Legs /\ Sign(order.side) \in {1, -1}
    BY DEF Orders, Sign
  <1>3. CASE Missed(o)
    BY <1>1, <1>3 DEF Missed, Apply, ExchangeTypeOK
  <1>4. ASSUME NEW qty \in Nat, FilledWith(o, order, qty)
        PROVE  /\ exposure' \in [Legs -> Int]
               /\ UNCHANGED <<book, next_oid>>
    BY <1>2, <1>4 DEF FilledWith, Apply, ExchangeTypeOK
  <1>5. ASSUME WentOnBook(o, order)
        PROVE  ExchangeTypeOK' /\ next_oid' >= next_oid
    <2> DEFINE new == [oid |-> next_oid, leg |-> order.leg, side |-> order.side,
                       qty |-> order.qty, reduce_only |-> order.reduce_only]
    <2>1. /\ exposure' = exposure /\ book' = book \cup {new}
          /\ next_oid' = next_oid + 1 /\ next_oid <= MaxOid
      BY <1>5 DEF WentOnBook, Apply
    <2>2. next_oid' \in 1..(MaxOid + 1) /\ next_oid \in 1..(next_oid' - 1)
      BY <2>1, FaultBoundAssumption DEF ExchangeTypeOK
    <2>3. new \in [oid : 1..(next_oid' - 1), leg : Legs, side : Sides,
                   qty : Nat \ {0}, reduce_only : BOOLEAN]
      BY <2>2 DEF Orders
    <2>4. 1..(next_oid - 1) \subseteq 1..(next_oid' - 1)
      BY <2>1 DEF ExchangeTypeOK
    <2>5. \A x \in book : x.oid # new.oid
      BY DEF ExchangeTypeOK
    <2> HIDE DEF new
    <2> QED
      BY <1>1, <2>1, <2>2, <2>3, <2>4, <2>5 DEF ExchangeTypeOK
  <1> QED
    BY <1>1, <1>3, <1>4, <1>5 DEF Effect, ExchangeTypeOK

\* A cancel moves no position and leaves a well-formed book.
LEMMA CancelKeepsType ==
    ASSUME ExchangeTypeOK, NEW leg, NEW oid, NEW o, CancelEffect(o, leg, oid), Apply(o)
    PROVE  /\ ExchangeTypeOK'
           /\ next_oid' = next_oid /\ exposure' = exposure
           /\ met \subseteq met' /\ met' \subseteq met \cup Faults
  BY DEF CancelEffect, Grows, Missed, TookOff, Apply, ExchangeTypeOK

\* The exchange taking an order of the book, in whole or in part, leaves well-
\* formed positions and a well-formed book.
LEMMA TakingKeepsType ==
    ASSUME ExchangeTypeOK, TakeResting
    PROVE  /\ ExchangeTypeOK'
           /\ next_oid' = next_oid
           /\ met \subseteq met' /\ met' \subseteq met \cup Faults
  <1>1. PICK x \in book, qty \in Nat : Taken(x, qty)
    BY TakenEffect
  <1>2. /\ x \in [oid : 1..(next_oid - 1), leg : Legs, side : Sides,
                  qty : Nat \ {0}, reduce_only : BOOLEAN]
        /\ Sign(x.side) \in {1, -1}
    BY DEF ExchangeTypeOK, Sign
  <1>3. /\ exposure' \in [Legs -> Int] /\ next_oid' = next_oid
        /\ faults' \in 0..MaxFaults
        /\ met \subseteq met' /\ met' \subseteq met \cup Faults
    BY <1>1, <1>2, FaultBoundAssumption DEF Taken, FaultAllowed, ExchangeTypeOK
  <1>4. CASE book' = book \ {x}
    BY <1>3, <1>4 DEF ExchangeTypeOK
  <1>5. CASE /\ qty \in 1..(x.qty - 1)
             /\ book' = (book \ {x}) \cup {[x EXCEPT !.qty = @ - qty]}
    <2> DEFINE rest == [x EXCEPT !.qty = @ - qty]
    <2>1. /\ rest \in [oid : 1..(next_oid - 1), leg : Legs, side : Sides,
                       qty : Nat \ {0}, reduce_only : BOOLEAN]
          /\ rest.oid = x.oid
      BY <1>2, <1>5
    <2> HIDE DEF rest
    <2> QED
      BY <1>3, <1>5, <2>1 DEF ExchangeTypeOK
  <1> QED
    BY <1>1, <1>4, <1>5 DEF Taken

-----------------------------------------------------------------------------

\* The stages of open_pair and of close_pair.
OpenStages == {"open_eth", "open_btc", "open_rollback", "open_cancel"}

CloseStages == {"close_eth", "close_btc", "close_rollback"}

\* Answers arrive, parse, and report whole fills.
Clean == Spared({"lost_response", "garbled", "partial"})

\* Requests to cancel.
Cancels == [leg : Legs, oid : Nat]

Opposite(side) == IF side = "Buy" THEN "Sell" ELSE "Buy"

\* The fields of a call, and what each stage may find in them.
CallOK ==
    /\ DOMAIN call = {"stage", "attempt", "request", "second", "first",
                      "cause", "result"}
    /\ call.stage \in Stages
    /\ call.attempt \in 0..(MarketAttempts - 1)
    /\ call.result \in Results \cup {None}
    /\ call.stage = "returned" <=> call.result # None
    /\ call.stage \in OrderStages => call.request \in Orders
    /\ call.stage \in CancelStages => call.request \in Cancels
    /\ call.stage \in {"open_eth", "close_eth"} => call.second \in Orders
    /\ call.stage = "open_btc" =>
         \/ \E qty \in Nat \ {0} : call.first = Filled(qty)
         \/ \E oid \in Nat : call.first = Resting(oid)
    /\ call.stage = "open_cancel" =>
         call.cause.kind \in {"Transient", "Fatal"} /\ call.cause.why \in Reasons
    /\ call.stage \in {"close_btc", "close_rollback"} =>
         \E qty \in Nat \ {0} : call.first = Filled(qty)
    /\ call.stage = "close_btc" => call.cause \in OrderTypes

\* What every step of a call starts from.
EngineInv == ExchangeTypeOK /\ CallOK

USE DEF EngineInv

\* Every step of the engine is one attempt of the request in flight.
LEMMA Attempted ==
    ASSUME EngineStep
    PROVE  /\ call.stage \in OrderStages \cup CancelStages
           /\ \E o \in Outcomes(call) : Apply(o)
  BY DEF EngineStep, Retry, OpenEth, OpenBtc, OpenRollback, OpenCancel, CloseEth,
         CloseBtc, CloseRollback, Repair, CancelResting, Final, OrderStages,
         CancelStages

\* An attempt of an order in flight does what an order can do (OrderEffect).
LEMMA OrderAttempt ==
    ASSUME EngineInv, call.stage \in OrderStages, NEW o \in Outcomes(call)
    PROVE  Effect(o, call.request) /\ call.request \in Orders
  <1>1. call.stage \notin CancelStages /\ call.request \in Orders
    BY DEF CallOK, OrderStages, CancelStages
  <1>2. Counted
    BY DEF ExchangeTypeOK, Counted
  <1> QED
    BY <1>1, <1>2, OrderEffect DEF Outcomes

\* An attempt of a cancel in flight does what a cancel can do.
LEMMA CancelAttempt ==
    ASSUME EngineInv, call.stage \in CancelStages, NEW o \in Outcomes(call)
    PROVE  CancelEffect(o, call.request.leg, call.request.oid)
  BY CancelOutcomeEffect DEF Outcomes, ExchangeTypeOK, Counted

\* Whatever a request does, positions, book and ids stay well formed.
LEMMA EngineKeepsExchange ==
    ASSUME EngineInv, EngineStep
    PROVE  /\ ExchangeTypeOK' /\ next_oid' >= next_oid
           /\ met \subseteq met' /\ met' \subseteq met \cup Faults
  <1>1. PICK o \in Outcomes(call) : Apply(o)
    BY Attempted
  <1>2. CASE call.stage \in OrderStages
    BY <1>1, <1>2, OrderAttempt, OrderKeepsType
  <1>3. CASE call.stage \in CancelStages
    BY <1>1, <1>3, CancelAttempt, CancelKeepsType DEF ExchangeTypeOK
  <1> QED
    BY <1>2, <1>3, Attempted

\* The fields of a call that has returned, and of no call.
LEMMA CallFields ==
    /\ \A result :
         /\ DOMAIN Return(result) = {"stage", "attempt", "request", "second",
                                     "first", "cause", "result"}
         /\ Return(result).stage = "returned" /\ Return(result).attempt = 0
         /\ Return(result).result = result
    /\ Idle.stage = "idle" /\ Idle.attempt = 0 /\ Idle.result = None
    /\ DOMAIN Idle = {"stage", "attempt", "request", "second", "first", "cause",
                      "result"}
  BY DEF Return, Idle

\* The kinds of results, which the callers branch on, are told apart.
LEMMA ResultFields ==
    /\ \A class, why : /\ Error(class, why).kind = "Error"
                       /\ Error(class, why).class = class
                       /\ Error(class, why).why = why
    /\ \A eth, btc : /\ PairFilled(eth, btc).kind = "PairFilled"
                     /\ PairFilled(eth, btc).eth = eth
                     /\ PairFilled(eth, btc).btc = btc
                     /\ PairResting(eth, btc).kind = "PairResting"
    /\ \A qty : LegFilled(qty).kind = "LegFilled"
    /\ OrderCancelled.kind = "OrderCancelled"
    /\ \A reply : /\ PassedOn(reply).kind = "Error"
                  /\ PassedOn(reply).class = reply.kind
                  /\ PassedOn(reply).why = reply.why
  BY DEF Error, PairFilled, PairResting, LegFilled, OrderCancelled, PassedOn

\* An operation returns a result, and the call is over.
LEMMA ReturnOK ==
    ASSUME EngineInv, NEW result \in Results, call' = Return(result)
    PROVE  CallOK'
  BY CallFields, NoResultAssumption, AttemptsAssumption
     DEF CallOK, Stages, OrderStages, CancelStages

\* The errors that are passed on, and the two of a rollback.
LEMMA ErrorResults ==
    /\ \A reply : IsError(reply) /\ reply.why \in Reasons => PassedOn(reply) \in Results
    /\ \A class \in {"Transient", "Fatal", "PartialFill"},
          why \in Reasons \cup {"rollback_failed", "rollback_executed"} :
         Error(class, why) \in Results
    /\ \A eth, btc \in Nat \ {0} : PairFilled(eth, btc) \in Results
    /\ \A eth, btc \in Nat : PairResting(eth, btc) \in Results
    /\ \A qty \in Nat : LegFilled(qty) \in Results
    /\ OrderCancelled \in Results
  BY DEF IsError, PassedOn, Error, Results, PairFilled, PairResting, LegFilled,
         OrderCancelled

\* The next request of an operation: everything else about the call stays.
LEMMA GoToFields ==
    ASSUME CallOK, NEW stage, NEW request
    PROVE  LET next == GoTo(stage, request)
           IN  /\ DOMAIN next = DOMAIN call
               /\ next.stage = stage /\ next.attempt = 0 /\ next.request = request
               /\ next.second = call.second /\ next.first = call.first
               /\ next.cause = call.cause /\ next.result = call.result
  BY DEF GoTo, CallOK

\* A new request is a well-formed call.
LEMMA GoToOK ==
    ASSUME EngineInv,
           call.stage \in OrderStages, call'.stage \in OrderStages \cup CancelStages,
           DOMAIN call' = DOMAIN call, call'.attempt = 0, call'.result = call.result,
           call'.stage \in {"open_eth", "close_eth"} => call'.second \in Orders,
           call'.stage \in OrderStages => call'.request \in Orders,
           call'.stage \in CancelStages => call'.request \in Cancels,
           call'.stage = "open_btc" =>
             \/ \E qty \in Nat \ {0} : call'.first = Filled(qty)
             \/ \E oid \in Nat : call'.first = Resting(oid),
           call'.stage = "open_cancel" =>
             call'.cause.kind \in {"Transient", "Fatal"} /\ call'.cause.why \in Reasons,
           call'.stage \in {"close_btc", "close_rollback"} =>
             \E qty \in Nat \ {0} : call'.first = Filled(qty),
           call'.stage = "close_btc" => call'.cause \in OrderTypes
    PROVE  CallOK'
  <1>1. call'.attempt \in 0..(MarketAttempts - 1)
    BY AttemptsAssumption
  <1>2. call'.result = None /\ call'.stage \in Stages /\ call'.stage # "returned"
    BY DEF CallOK, Stages, OrderStages, CancelStages
  <1> QED
    BY <1>1, <1>2 DEF CallOK

\* The quantity of a fill makes an order that undoes it.
LEMMA UndoingOrder ==
    ASSUME NEW leg \in Legs, NEW qty \in Nat \ {0}, NEW type \in OrderTypes,
           NEW reduce_only \in BOOLEAN
    PROVE  Order(leg, CloseForQty(qty), Abs(qty), type, reduce_only) \in Orders
  BY DEF Order, Orders, CloseForQty, Abs, Sides

\* The retry sends the same request again.
LEMMA RetryOK ==
    ASSUME EngineInv, Retry
    PROVE  CallOK'
  <1>1. /\ call.attempt + 1 < Attempts(call)
        /\ call' = [call EXCEPT !.attempt = @ + 1]
    BY DEF Retry, WillRetry
  <1>2. call.attempt + 1 \in 0..(MarketAttempts - 1)
    BY <1>1, AttemptsAssumption DEF Attempts, CallOK
  <1>3. /\ DOMAIN call' = DOMAIN call /\ call'.attempt = call.attempt + 1
        /\ call'.stage = call.stage /\ call'.request = call.request
        /\ call'.second = call.second /\ call'.first = call.first
        /\ call'.cause = call.cause /\ call'.result = call.result
    BY <1>1 DEF CallOK
  <1> QED
    BY <1>2, <1>3 DEF CallOK

\* One request of an operation after another keeps the call well formed.
LEMMA EngineOK ==
    ASSUME EngineInv, EngineStep
    PROVE  CallOK'
  <1> USE DEF IsError
  <1>1. CASE Retry
    BY <1>1, RetryOK
  <1>2. ASSUME NEW stage \in OrderStages, NEW o \in Final(stage)
        PROVE  /\ call.stage = stage /\ o \in Outcomes(call)
               /\ \/ IsError(o.reply) /\ o.reply.why \in Reasons
                  \/ \E qty \in Nat \ {0} : o.reply = Filled(qty)
                  \/ \E oid \in Nat : o.reply = Resting(oid)
    <2>1. call.stage = stage /\ o \in Outcomes(call)
      BY <1>2 DEF Final
    <2> QED
      BY <2>1, OrderAttempt, OrderReply
  <1>e. \A reply : /\ ~IsError(ExpectFilled(reply)) => ExpectFilled(reply) = reply
                   /\ ExpectFilled(reply) = reply \/ ExpectFilled(reply) = Fatal("resting_on_book")
                   /\ reply.kind = "Resting" => IsError(ExpectFilled(reply))
    BY ReplyKinds DEF ExpectFilled
  <1>r. "resting_on_book" \in Reasons
    BY DEF Reasons
  <1>3. CASE OpenEth
    <2>1. PICK o \in Final("open_eth") :
            call' = IF IsError(o.reply) THEN Return(PassedOn(o.reply))
                    ELSE [GoTo("open_btc", call.second) EXCEPT !.first = o.reply]
      BY <1>3 DEF OpenEth
    <2>2. /\ call.stage = "open_eth" /\ call.second \in Orders
          /\ \/ IsError(o.reply) /\ o.reply.why \in Reasons
             \/ \E qty \in Nat \ {0} : o.reply = Filled(qty)
             \/ \E oid \in Nat : o.reply = Resting(oid)
      BY <2>1, <1>2 DEF OrderStages, CallOK
    <2>3. CASE IsError(o.reply)
      BY <2>1, <2>2, <2>3, ReturnOK, ErrorResults, ReplyKinds
    <2>4. CASE ~IsError(o.reply)
      <3>1. /\ call'.stage = "open_btc" /\ DOMAIN call' = DOMAIN call
            /\ call'.attempt = 0 /\ call'.result = call.result
            /\ call'.request = call.second /\ call'.first = o.reply
        BY <2>1, <2>4, GoToFields DEF CallOK
      <3> QED
        BY <2>2, <2>4, <3>1, GoToOK DEF OrderStages, CancelStages, OpenStages
    <2> QED
      BY <2>3, <2>4
  <1>4. CASE OpenBtc
    <2>1. PICK o \in Final("open_btc") :
           call' =
             CASE call.first.kind = "Filled" /\ o.reply.kind = "Filled" ->
                    Return(PairFilled(call.first.qty, o.reply.qty))
               [] call.first.kind = "Resting" /\ o.reply.kind = "Resting" ->
                    Return(PairResting(call.first.oid, o.reply.oid))
               [] call.first.kind = "Filled" /\ o.reply.kind # "Filled" ->
                    GoTo("open_rollback", Rollback("eth", call.first))
               [] call.first.kind = "Resting" /\ o.reply.kind = "Filled" ->
                    GoTo("open_rollback", Rollback("btc", o.reply))
               [] call.first.kind = "Resting" /\ IsError(o.reply) ->
                    [GoTo("open_cancel", Cancel("eth", call.first.oid)) EXCEPT
                       !.cause = o.reply]
      BY <1>4 DEF OpenBtc
    <2>2. /\ call.stage = "open_btc"
          /\ \/ IsError(o.reply) /\ o.reply.why \in Reasons
             \/ \E qty \in Nat \ {0} : o.reply = Filled(qty)
             \/ \E oid \in Nat : o.reply = Resting(oid)
          /\ \/ \E qty \in Nat \ {0} : call.first = Filled(qty)
             \/ \E oid \in Nat : call.first = Resting(oid)
      BY <2>1, <1>2 DEF OrderStages, CallOK
    <2>3. CASE call.first.kind = "Filled" /\ o.reply.kind = "Filled"
      <3>1. call' = Return(PairFilled(call.first.qty, o.reply.qty))
        BY <2>1, <2>3
      <3>2. call.first.qty \in Nat \ {0} /\ o.reply.qty \in Nat \ {0}
        BY <2>2, <2>3, ReplyKinds DEF IsError
      <3> QED
        BY <3>1, <3>2, ReturnOK, ErrorResults
    <2>4. CASE call.first.kind = "Resting" /\ o.reply.kind = "Resting"
      <3>1. call' = Return(PairResting(call.first.oid, o.reply.oid))
        BY <2>1, <2>4
      <3>2. call.first.oid \in Nat /\ o.reply.oid \in Nat
        BY <2>2, <2>4, ReplyKinds DEF IsError
      <3> QED
        BY <3>1, <3>2, ReturnOK, ErrorResults
    <2>5. CASE call.first.kind = "Filled" /\ o.reply.kind # "Filled"
      <3>1. call' = GoTo("open_rollback", Rollback("eth", call.first))
        BY <2>1, <2>5
      <3>2. Rollback("eth", call.first) \in Orders
        <4>1. call.first.qty \in Nat \ {0}
          BY <2>2, <2>5, ReplyKinds
        <4> QED
          BY <4>1, UndoingOrder DEF Rollback, Legs, OrderTypes
      <3> QED
        BY <2>2, <3>1, <3>2, GoToFields, GoToOK
           DEF OrderStages, CancelStages, OpenStages
    <2>6. CASE call.first.kind = "Resting" /\ o.reply.kind = "Filled"
      <3>1. call' = GoTo("open_rollback", Rollback("btc", o.reply))
        BY <2>1, <2>6
      <3>2. Rollback("btc", o.reply) \in Orders
        <4>1. o.reply.qty \in Nat \ {0}
          BY <2>2, <2>6, ReplyKinds
        <4> QED
          BY <4>1, UndoingOrder DEF Rollback, Legs, OrderTypes
      <3> QED
        BY <2>2, <3>1, <3>2, GoToFields, GoToOK
           DEF OrderStages, CancelStages, OpenStages
    <2>7. CASE call.first.kind = "Resting" /\ IsError(o.reply)
      <3>1. call' = [GoTo("open_cancel", Cancel("eth", call.first.oid)) EXCEPT
                       !.cause = o.reply]
        BY <2>1, <2>7
      <3>2. Cancel("eth", call.first.oid) \in Cancels
        BY <2>2, <2>7, ReplyKinds DEF Cancel, Cancels, Legs
      <3>3. /\ call'.stage = "open_cancel" /\ DOMAIN call' = DOMAIN call
            /\ call'.attempt = 0 /\ call'.result = call.result
            /\ call'.request = Cancel("eth", call.first.oid)
            /\ call'.cause = o.reply
        BY <3>1, GoToFields DEF CallOK
      <3> QED
        BY <2>2, <2>7, <3>2, <3>3, ReplyKinds, GoToOK
           DEF OrderStages, CancelStages, OpenStages
    <2> QED
      BY <2>2, <2>3, <2>4, <2>5, <2>6, <2>7, ReplyKinds
  <1>5. CASE OpenRollback
    BY <1>5, ReturnOK, ErrorResults DEF OpenRollback
  <1>6. CASE OpenCancel
    <2>1. call.stage = "open_cancel"
      BY <1>6 DEF OpenCancel, Final
    <2>2. call.cause.why \in Reasons
      BY <2>1 DEF CallOK
    <2> QED
      BY <1>6, <2>2, ReturnOK, ErrorResults DEF OpenCancel
  <1>7. CASE CloseEth
    <2>1. PICK o \in Final("close_eth") :
            call' = IF IsError(ExpectFilled(o.reply))
                    THEN Return(PassedOn(ExpectFilled(o.reply)))
                    ELSE [GoTo("close_btc", call.second) EXCEPT
                            !.first = ExpectFilled(o.reply),
                            !.cause = call.request.type]
      BY <1>7 DEF CloseEth
    <2>2. /\ call.stage = "close_eth" /\ call.second \in Orders
          /\ call.request.type \in OrderTypes
          /\ \/ IsError(o.reply) /\ o.reply.why \in Reasons
             \/ \E qty \in Nat \ {0} : o.reply = Filled(qty)
             \/ \E oid \in Nat : o.reply = Resting(oid)
      BY <2>1, <1>2 DEF OrderStages, CallOK, Orders
    <2>3. CASE IsError(ExpectFilled(o.reply))
      <3>1. ExpectFilled(o.reply).why \in Reasons
        BY <1>e, <1>r, <2>2, <2>3, ReplyKinds
      <3> QED
        BY <2>1, <2>3, <3>1, ReturnOK, ErrorResults
    <2>4. CASE ~IsError(ExpectFilled(o.reply))
      <3>1. /\ call'.stage = "close_btc" /\ DOMAIN call' = DOMAIN call
            /\ call'.attempt = 0 /\ call'.result = call.result
            /\ call'.request = call.second /\ call'.first = o.reply
            /\ call'.cause = call.request.type
        BY <1>e, <2>1, <2>4, GoToFields DEF CallOK
      <3>2. \E qty \in Nat \ {0} : o.reply = Filled(qty)
        BY <1>e, <2>2, <2>4, ReplyKinds
      <3> QED
        BY <2>2, <3>1, <3>2, GoToOK DEF OrderStages, CancelStages, CloseStages
    <2> QED
      BY <2>3, <2>4
  <1>8. CASE CloseBtc
    <2>1. PICK o \in Final("close_btc") :
            call' = IF IsError(ExpectFilled(o.reply))
                    THEN GoTo("close_rollback", Reopen(call, call.cause))
                    ELSE Return(PairFilled(call.first.qty, ExpectFilled(o.reply).qty))
      BY <1>8 DEF CloseBtc
    <2>2. /\ call.stage = "close_btc" /\ call.cause \in OrderTypes
          /\ \E qty \in Nat \ {0} : call.first = Filled(qty)
          /\ \/ IsError(o.reply) /\ o.reply.why \in Reasons
             \/ \E qty \in Nat \ {0} : o.reply = Filled(qty)
             \/ \E oid \in Nat : o.reply = Resting(oid)
      BY <2>1, <1>2 DEF OrderStages, CallOK
    <2>3. CASE IsError(ExpectFilled(o.reply))
      <3>1. call' = GoTo("close_rollback", Reopen(call, call.cause))
        BY <2>1, <2>3
      <3>2. Reopen(call, call.cause) \in Orders
        <4>1. call.first.qty \in Nat \ {0} /\ "eth" \in Legs /\ FALSE \in BOOLEAN
          BY <2>2, ReplyKinds DEF Legs
        <4> DEFINE type == call.cause
                   qty == call.first.qty
        <4>2. type \in OrderTypes
          BY <2>2
        <4> HIDE DEF type, qty
        <4>3. PICK flag \in BOOLEAN : flag = FALSE
          OBVIOUS
        <4>4. Order("eth", CloseForQty(qty), Abs(qty), type, flag) \in Orders
          BY <4>1, <4>2, UndoingOrder DEF qty
        <4> QED
          BY <4>3, <4>4 DEF Reopen, type, qty
      <3> QED
        BY <2>2, <3>1, <3>2, GoToFields, GoToOK
           DEF OrderStages, CancelStages, CloseStages
    <2>4. CASE ~IsError(ExpectFilled(o.reply))
      <3>1. \E qty \in Nat \ {0} : ExpectFilled(o.reply) = Filled(qty)
        BY <1>e, <2>2, <2>4, ReplyKinds
      <3>2. /\ call.first.qty \in Nat \ {0}
            /\ ExpectFilled(o.reply).qty \in Nat \ {0}
        BY <2>2, <3>1, ReplyKinds
      <3> QED
        BY <2>1, <2>4, <3>2, ReturnOK, ErrorResults
    <2> QED
      BY <2>3, <2>4
  <1>9. CASE CloseRollback
    BY <1>9, ReturnOK, ErrorResults DEF CloseRollback
  <1>10. CASE Repair
    <2>1. PICK o \in Final("repair") :
            call' = Return(IF IsError(ExpectFilled(o.reply))
                           THEN PassedOn(ExpectFilled(o.reply))
                           ELSE LegFilled(ExpectFilled(o.reply).qty))
      BY <1>10 DEF Repair
    <2>2. \/ IsError(o.reply) /\ o.reply.why \in Reasons
          \/ \E qty \in Nat \ {0} : o.reply = Filled(qty)
          \/ \E oid \in Nat : o.reply = Resting(oid)
      BY <2>1, <1>2 DEF OrderStages
    <2>3. CASE IsError(ExpectFilled(o.reply))
      <3>1. ExpectFilled(o.reply).why \in Reasons
        BY <1>e, <1>r, <2>2, <2>3, ReplyKinds
      <3> QED
        BY <2>1, <2>3, <3>1, ReturnOK, ErrorResults
    <2>4. CASE ~IsError(ExpectFilled(o.reply))
      <3>1. \E qty \in Nat \ {0} : ExpectFilled(o.reply) = Filled(qty)
        BY <1>e, <2>2, <2>4, ReplyKinds
      <3>2. ExpectFilled(o.reply).qty \in Nat
        BY <3>1, ReplyKinds
      <3> QED
        BY <2>1, <2>4, <3>2, ReturnOK, ErrorResults
    <2> QED
      BY <2>3, <2>4
  <1>11. CASE CancelResting
    <2>1. PICK o \in Final("cancel") :
            call' = Return(IF IsError(o.reply) THEN PassedOn(o.reply)
                           ELSE OrderCancelled)
      BY <1>11 DEF CancelResting
    <2>2. call.stage \in CancelStages /\ o \in Outcomes(call)
      BY <2>1 DEF Final, CancelStages
    <2>3. IsError(o.reply) => o.reply.why \in Reasons
      <3>1. CancelEffect(o, call.request.leg, call.request.oid)
        BY <2>2, CancelAttempt
      <3>2. \/ o.reply = Transient \/ o.reply = Cancelled
            \/ \E why \in Reasons : o.reply = Fatal(why)
        BY <3>1 DEF CancelEffect, Missed, TookOff, Answers, Reasons
      <3>3. "no_answer" \in Reasons
        BY DEF Reasons
      <3> QED
        BY <3>2, <3>3, ReplyKinds
    <2> QED
      BY <2>1, <2>3, ReturnOK, ErrorResults
  <1> QED
    BY <1>1, <1>3, <1>4, <1>5, <1>6, <1>7, <1>8, <1>9, <1>10, <1>11 DEF EngineStep

\* The order that closes what a leg holds.
LEMMA ClosingOrder ==
    ASSUME NEW leg \in Legs, NEW held \in Int \ {0}, NEW type \in OrderTypes,
           NEW flag \in BOOLEAN, NEW order,
           order = Order(leg, CloseForQty(held), Abs(held), type, flag)
    PROVE  /\ order \in Orders
           /\ [order EXCEPT !.reduce_only = flag] = order
           /\ order.leg = leg /\ order.reduce_only = flag
           /\ order.qty = Abs(held) /\ order.side = CloseForQty(held)
  <1>1. Abs(held) \in Nat \ {0} /\ CloseForQty(held) \in Sides
    BY DEF Abs, CloseForQty, Sides
  <1>2. order = [leg |-> leg, side |-> CloseForQty(held), qty |-> Abs(held),
                 type |-> type, reduce_only |-> flag]
    BY DEF Order
  <1>3. order \in Orders
    BY <1>1, <1>2 DEF Orders
  <1>4. [order EXCEPT !.reduce_only = flag] = order
    BY <1>2
  <1>5. /\ order.leg = leg /\ order.reduce_only = flag
        /\ order.qty = Abs(held) /\ order.side = CloseForQty(held)
    BY <1>2
  <1> QED
    BY <1>3, <1>4, <1>5

\* What open_pair does with the answer to its second leg.
LEMMA OpenBtcCases ==
    ASSUME EngineInv, OpenBtc
    PROVE  /\ call.stage = "open_btc"
           /\ \E o \in Final("open_btc") :
                /\ Apply(o)
                /\ call.first.kind = "Filled" /\ o.reply.kind = "Filled" =>
                     call' = Return(PairFilled(call.first.qty, o.reply.qty))
                /\ call.first.kind = "Resting" /\ o.reply.kind = "Resting" =>
                     call' = Return(PairResting(call.first.oid, o.reply.oid))
                /\ call.first.kind = "Filled" /\ o.reply.kind # "Filled" =>
                     /\ call'.stage = "open_rollback"
                     /\ call'.request = Rollback("eth", call.first)
                /\ call.first.kind = "Resting" /\ o.reply.kind = "Filled" =>
                     /\ call'.stage = "open_rollback"
                     /\ call'.request = Rollback("btc", o.reply)
                /\ call.first.kind = "Resting" /\ IsError(o.reply) =>
                     /\ call'.stage = "open_cancel"
                     /\ call'.request = Cancel("eth", call.first.oid)
                /\ ~(call.first.kind = "Filled" /\ o.reply.kind = "Filled")
                     /\ ~(call.first.kind = "Resting" /\ o.reply.kind = "Resting")
                     => call'.stage \in {"open_rollback", "open_cancel"}
  <1>1. PICK o \in Final("open_btc") :
         /\ Apply(o)
         /\ call' =
              CASE call.first.kind = "Filled" /\ o.reply.kind = "Filled" ->
                     Return(PairFilled(call.first.qty, o.reply.qty))
                [] call.first.kind = "Resting" /\ o.reply.kind = "Resting" ->
                     Return(PairResting(call.first.oid, o.reply.oid))
                [] call.first.kind = "Filled" /\ o.reply.kind # "Filled" ->
                     GoTo("open_rollback", Rollback("eth", call.first))
                [] call.first.kind = "Resting" /\ o.reply.kind = "Filled" ->
                     GoTo("open_rollback", Rollback("btc", o.reply))
                [] call.first.kind = "Resting" /\ IsError(o.reply) ->
                     [GoTo("open_cancel", Cancel("eth", call.first.oid)) EXCEPT
                        !.cause = o.reply]
    BY DEF OpenBtc
  <1>2. call.stage = "open_btc" /\ o \in Outcomes(call) /\ call.stage \in OrderStages
    BY <1>1 DEF Final, OrderStages
  <1>3. call.first.kind \in {"Filled", "Resting"}
    BY <1>2, ReplyKinds DEF CallOK
  <1>4. \/ o.reply.kind \in {"Filled", "Resting"} /\ ~IsError(o.reply)
        \/ o.reply.kind \notin {"Filled", "Resting"} /\ IsError(o.reply)
    BY <1>2, OrderAttempt, OrderReply, ReplyKinds DEF IsError
  <1>5. \A st, rq : /\ DOMAIN GoTo(st, rq) = DOMAIN call
                    /\ GoTo(st, rq).stage = st /\ GoTo(st, rq).request = rq
    BY GoToFields
  <1>6. DOMAIN call = {"stage", "attempt", "request", "second", "first", "cause",
                      "result"}
    BY DEF CallOK
  <1>7. CASE call.first.kind = "Filled" /\ o.reply.kind = "Filled"
    BY <1>1, <1>2, <1>4, <1>7
  <1>8. CASE call.first.kind = "Resting" /\ o.reply.kind = "Resting"
    BY <1>1, <1>2, <1>4, <1>8
  <1>9. CASE call.first.kind = "Filled" /\ o.reply.kind # "Filled"
    BY <1>1, <1>2, <1>4, <1>5, <1>9
  <1>10. CASE call.first.kind = "Resting" /\ o.reply.kind = "Filled"
    BY <1>1, <1>2, <1>4, <1>5, <1>10
  <1>11. CASE call.first.kind = "Resting" /\ IsError(o.reply)
    <2>1. call' = [GoTo("open_cancel", Cancel("eth", call.first.oid)) EXCEPT
                     !.cause = o.reply]
      BY <1>1, <1>4, <1>11
    <2>2. /\ call'.stage = "open_cancel"
          /\ call'.request = Cancel("eth", call.first.oid)
      BY <1>5, <1>6, <2>1
    <2> QED
      BY <1>1, <1>2, <1>4, <1>11, <2>2
  <1> QED
    BY <1>3, <1>4, <1>7, <1>8, <1>9, <1>10, <1>11

\* A retry changes nothing of the call but the number of the attempt.
LEMMA RetryFields ==
    ASSUME EngineInv, Retry
    PROVE  /\ DOMAIN call' = DOMAIN call
           /\ call'.stage = call.stage /\ call'.request = call.request
           /\ call'.second = call.second /\ call'.first = call.first
           /\ call'.cause = call.cause /\ call'.result = call.result
  BY DEF Retry, CallOK

\* The engine's step comes from the stage it is named for, and leads to the next
\* stage or to a result.
LEMMA EngineStages ==
    ASSUME EngineInv, EngineStep
    PROVE  \/ Retry /\ call'.stage = call.stage /\ call'.request = call.request
           \/ OpenEth /\ call.stage = "open_eth" /\ call'.stage \in {"open_btc", "returned"}
           \/ /\ OpenBtc /\ call.stage = "open_btc"
              /\ call'.stage \in {"open_rollback", "open_cancel", "returned"}
           \/ OpenRollback /\ call.stage = "open_rollback" /\ call'.stage = "returned"
           \/ OpenCancel /\ call.stage = "open_cancel" /\ call'.stage = "returned"
           \/ CloseEth /\ call.stage = "close_eth" /\ call'.stage \in {"close_btc", "returned"}
           \/ CloseBtc /\ call.stage = "close_btc" /\ call'.stage \in {"close_rollback", "returned"}
           \/ CloseRollback /\ call.stage = "close_rollback" /\ call'.stage = "returned"
           \/ Repair /\ call.stage = "repair" /\ call'.stage = "returned"
           \/ CancelResting /\ call.stage = "cancel" /\ call'.stage = "returned"
  <1>g. CallOK
    OBVIOUS
  <1>1. CASE Retry
    BY <1>1, RetryFields
  <1>2. CASE OpenEth
    <2>1. PICK o \in Final("open_eth") :
            call' = IF IsError(o.reply) THEN Return(PassedOn(o.reply))
                    ELSE [GoTo("open_btc", call.second) EXCEPT !.first = o.reply]
      BY <1>2 DEF OpenEth
    <2>2. call.stage = "open_eth"
      BY <2>1 DEF Final
    <2>3. call'.stage \in {"open_btc", "returned"}
      BY <1>g, <2>1, CallFields, GoToFields
    <2> QED
      BY <1>2, <2>2, <2>3
  <1>3. CASE OpenBtc
    <2>1. call.stage = "open_btc"
      BY <1>3 DEF OpenBtc, Final
    <2>2. call'.stage \in {"open_rollback", "open_cancel", "returned"}
      BY <1>3, OpenBtcCases, CallFields
    <2> QED
      BY <1>3, <2>1, <2>2
  <1>4. CASE OpenRollback
    BY <1>4, CallFields DEF OpenRollback, Final
  <1>5. CASE OpenCancel
    BY <1>5, CallFields DEF OpenCancel, Final
  <1>6. CASE CloseEth
    <2>1. PICK o \in Final("close_eth") :
            call' = IF IsError(ExpectFilled(o.reply))
                    THEN Return(PassedOn(ExpectFilled(o.reply)))
                    ELSE [GoTo("close_btc", call.second) EXCEPT
                            !.first = ExpectFilled(o.reply),
                            !.cause = call.request.type]
      BY <1>6 DEF CloseEth
    <2>2. call.stage = "close_eth"
      BY <2>1 DEF Final
    <2>3. call'.stage \in {"close_btc", "returned"}
      BY <1>g, <2>1, CallFields, GoToFields
    <2> QED
      BY <1>6, <2>2, <2>3
  <1>7. CASE CloseBtc
    BY <1>g, <1>7, CallFields, GoToFields DEF CloseBtc, Final
  <1>8. CASE CloseRollback
    BY <1>8, CallFields DEF CloseRollback, Final
  <1>9. CASE Repair
    BY <1>9, CallFields DEF Repair, Final
  <1>10. CASE CancelResting
    BY <1>10, CallFields DEF CancelResting, Final
  <1> QED
    BY <1>1, <1>2, <1>3, <1>4, <1>5, <1>6, <1>7, <1>8, <1>9, <1>10 DEF EngineStep

\* An answer that is not an error is the truth.
LEMMA TrueReply ==
    ASSUME NEW order \in Orders, NEW o, Effect(o, order), ~IsError(o.reply)
    PROVE  \/ \E qty \in Nat \ {0} :
                FilledWith(o, order, qty) /\ o.reply = Filled(qty)
           \/ WentOnBook(o, order) /\ o.reply = Resting(next_oid)
  <1>1. CASE Missed(o)
    BY <1>1, ReplyKinds DEF Missed, IsError
  <1>2. ASSUME NEW qty \in Nat, FilledWith(o, order, qty)
        PROVE  qty # 0 /\ o.reply = Filled(qty)
    BY <1>2, ReplyKinds DEF FilledWith, Answers, IsError
  <1>3. ASSUME WentOnBook(o, order) PROVE o.reply = Resting(next_oid)
    BY <1>3, ReplyKinds DEF WentOnBook, Answers, IsError
  <1> QED
    BY <1>1, <1>2, <1>3 DEF Effect

\* Where no answer is lost, an attempt that is repeated did nothing.
LEMMA RetryChangesNothing ==
    ASSUME EngineInv, Retry, call.stage \in OrderStages, "lost_response" \notin met'
    PROVE  UNCHANGED <<exposure, book, next_oid>>
  <1>1. PICK o \in Outcomes(call) : Retryable(call, o.reply) /\ Apply(o)
    BY DEF Retry, WillRetry
  <1>2. Effect(o, call.request)
    BY OrderAttempt
  <1>3. \/ o.reply.kind = "Transient"
        \/ o.reply.kind = "Fatal" /\ o.reply.why = "no_match"
    BY <1>1 DEF Retryable
  <1>4. "lost_response" \notin o.met
    BY <1>1 DEF Apply
  <1>5. ASSUME NEW qty \in Nat, FilledWith(o, call.request, qty) PROVE FALSE
    BY <1>3, <1>5, <1>4, ReplyKinds DEF FilledWith, Answers
  <1>6. ~WentOnBook(o, call.request)
    BY <1>3, <1>4, ReplyKinds DEF WentOnBook, Answers
  <1>7. Missed(o)
    BY <1>2, <1>5, <1>6 DEF Effect
  <1> QED
    BY <1>1, <1>7 DEF Missed, Apply

\* What Clean says of the history of faults, before and after a step.
LEMMA CleanMet ==
    /\ Clean <=> "lost_response" \notin met /\ "garbled" \notin met /\ "partial" \notin met
    /\ Clean' <=> "lost_response" \notin met' /\ "garbled" \notin met' /\ "partial" \notin met'
  BY DEF Clean, Spared

\* Where answers arrive and parse, an order that is answered by an error did
\* nothing.
LEMMA CleanError ==
    ASSUME NEW order \in Orders, NEW o, Effect(o, order), Apply(o), Clean',
           IsError(o.reply)
    PROVE  Missed(o) /\ UNCHANGED <<exposure, book, next_oid>>
  <1>1. "lost_response" \notin o.met /\ "garbled" \notin o.met
    BY CleanMet DEF Apply
  <1>2. Missed(o)
    BY <1>1, AnsweredEffect, ReplyKinds DEF IsError
  <1> QED
    BY <1>2 DEF Missed, Apply

----------------------------------------------------------------------------
(* How a call starts, and what it ends with.                                *)

\* The order that closes a quantity of a leg.
ClosesLeg(order, leg, qty) ==
    /\ order.leg = leg /\ order.reduce_only
    /\ order.qty = Abs(qty) /\ order.side = CloseForQty(qty)

\* A call that no request of is in flight.
LEMMA IdleOK ==
    ASSUME call' = Idle
    PROVE  CallOK' /\ call'.stage = "idle"
  BY CallFields, AttemptsAssumption, NoResultAssumption
     DEF CallOK, Stages, OrderStages, CancelStages

\* A call whose first request is an order or a cancel is well formed.
LEMMA StartOK ==
    ASSUME call'.stage \in {"open_eth", "close_eth", "repair", "cancel"},
           DOMAIN call' = {"stage", "attempt", "request", "second", "first",
                           "cause", "result"},
           call'.attempt = 0, call'.result = None,
           call'.stage = "cancel" => call'.request \in Cancels,
           call'.stage # "cancel" => call'.request \in Orders,
           call'.stage \in {"open_eth", "close_eth"} => call'.second \in Orders
    PROVE  CallOK'
  <1>1. call'.attempt \in 0..(MarketAttempts - 1)
    BY AttemptsAssumption
  <1> QED
    BY <1>1 DEF CallOK, Stages, OrderStages, CancelStages

\* open_pair.
LEMMA OpenPairOK ==
    ASSUME NEW eth \in Orders, NEW btc \in Orders, call' = OpenPair(eth, btc)
    PROVE  /\ CallOK' /\ call'.stage = "open_eth"
           /\ call'.request = eth /\ call'.second = btc
  <1>1. /\ call'.stage = "open_eth" /\ call'.request = eth /\ call'.second = btc
        /\ call'.attempt = 0 /\ call'.result = None
        /\ DOMAIN call' = {"stage", "attempt", "request", "second", "first",
                           "cause", "result"}
    BY DEF OpenPair, Idle
  <1> QED
    BY <1>1, StartOK

\* close_pair of what two legs hold, reduce-only on both.
LEMMA ClosePairOK ==
    ASSUME NEW eth \in Int \ {0}, NEW btc \in Int \ {0}, NEW type \in OrderTypes,
           call' = ClosePair(Order("eth", CloseForQty(eth), Abs(eth), type, TRUE),
                             Order("btc", CloseForQty(btc), Abs(btc), type, TRUE))
    PROVE  /\ CallOK' /\ call'.stage = "close_eth"
           /\ ClosesLeg(call'.request, "eth", eth) /\ call'.request.type = type
           /\ ClosesLeg(call'.second, "btc", btc) /\ call'.second.type = type
  <1>0. PICK flag \in BOOLEAN : flag = TRUE
    OBVIOUS
  <1>l. "eth" \in Legs /\ "btc" \in Legs
    BY DEF Legs
  <1> DEFINE e == Order("eth", CloseForQty(eth), Abs(eth), type, flag)
             b == Order("btc", CloseForQty(btc), Abs(btc), type, flag)
  <1>1. /\ e \in Orders /\ [e EXCEPT !.reduce_only = flag] = e
        /\ e.leg = "eth" /\ e.reduce_only = flag
        /\ e.qty = Abs(eth) /\ e.side = CloseForQty(eth)
    BY <1>l, ClosingOrder
  <1>2. /\ b \in Orders /\ [b EXCEPT !.reduce_only = flag] = b
        /\ b.leg = "btc" /\ b.reduce_only = flag
        /\ b.qty = Abs(btc) /\ b.side = CloseForQty(btc)
    BY <1>l, ClosingOrder
  <1>3. e.type = type /\ b.type = type
    BY DEF Order
  <1>4. call' = ClosePair(e, b)
    BY <1>0
  <1> HIDE DEF e, b
  <1>5. /\ call'.stage = "close_eth" /\ call'.request = e /\ call'.second = b
        /\ call'.attempt = 0 /\ call'.result = None
        /\ DOMAIN call' = {"stage", "attempt", "request", "second", "first",
                           "cause", "result"}
    BY <1>0, <1>1, <1>2, <1>4 DEF ClosePair, Idle
  <1>6. CallOK'
    BY <1>1, <1>2, <1>5, StartOK
  <1> QED
    BY <1>0, <1>1, <1>2, <1>3, <1>5, <1>6 DEF ClosesLeg

\* repair_residual of a quantity with one leg.
LEMMA RepairOK ==
    ASSUME NEW qty \in [Legs -> Int], \E leg \in Legs : qty[leg] # 0,
           call' = RepairResidual(qty)
    PROVE  /\ CallOK' /\ call'.stage = "repair"
           /\ call'.request.type = "Market"
           /\ \E leg \in Legs : qty[leg] # 0 /\ ClosesLeg(call'.request, leg, qty[leg])
  <1> DEFINE lone == CHOOSE l \in Legs : qty[l] # 0
  <1>1. lone \in Legs /\ qty[lone] # 0
    OBVIOUS
  <1>2. /\ call'.stage = "repair" /\ call'.attempt = 0 /\ call'.result = None
        /\ call'.request = Order(lone, CloseForQty(qty[lone]), Abs(qty[lone]),
                                 "Market", TRUE)
        /\ DOMAIN call' = {"stage", "attempt", "request", "second", "first",
                           "cause", "result"}
    BY DEF RepairResidual, Idle
  <1> HIDE DEF lone
  <1>3. /\ call'.request \in Orders /\ call'.request.type = "Market"
        /\ ClosesLeg(call'.request, lone, qty[lone])
    BY <1>1, <1>2 DEF Order, Orders, OrderTypes, Sides, CloseForQty, Abs, ClosesLeg
  <1>4. CallOK'
    BY <1>2, <1>3, StartOK
  <1> QED
    BY <1>1, <1>2, <1>3, <1>4

\* cancel_order.
LEMMA CancelOrderOK ==
    ASSUME NEW leg \in Legs, NEW oid \in Nat, call' = CancelOrder(leg, oid)
    PROVE  CallOK' /\ call'.stage = "cancel"
  <1>1. /\ call'.stage = "cancel" /\ call'.attempt = 0 /\ call'.result = None
        /\ call'.request \in Cancels
        /\ DOMAIN call' = {"stage", "attempt", "request", "second", "first",
                           "cause", "result"}
    BY DEF CancelOrder, Cancel, Cancels, Idle
  <1> QED
    BY <1>1, StartOK

\* What an operation may return.
LEMMA ResultKinds ==
    ASSUME EngineInv, EngineStep, call'.stage = "returned"
    PROVE  /\ call.stage \in OpenStages =>
                call'.result.kind \in {"PairFilled", "PairResting", "Error"}
           /\ call.stage \in CloseStages =>
                call'.result.kind \in {"PairFilled", "Error"}
           /\ call.stage = "repair" => call'.result.kind \in {"LegFilled", "Error"}
           /\ call.stage = "cancel" => call'.result.kind \in {"OrderCancelled", "Error"}
  <1> USE DEF OpenStages, CloseStages
  <1>1. CASE Retry
    BY <1>1, RetryFields DEF Retry, OrderStages, CancelStages
  <1>2. CASE OpenEth
    <2>1. PICK o \in Final("open_eth") :
            call' = IF IsError(o.reply) THEN Return(PassedOn(o.reply))
                    ELSE [GoTo("open_btc", call.second) EXCEPT !.first = o.reply]
      BY <1>2 DEF OpenEth
    <2>2. call.stage = "open_eth"
      BY <2>1 DEF Final
    <2>3. \A x : [GoTo("open_btc", call.second) EXCEPT !.first = x].stage = "open_btc"
      BY GoToFields DEF CallOK
    <2>4. call' = Return(PassedOn(o.reply))
      BY <2>1, <2>3
    <2> QED
      BY <2>2, <2>4, CallFields, ResultFields
  <1>3. CASE OpenBtc
    BY <1>3, OpenBtcCases, CallFields, ResultFields
  <1>4. CASE OpenRollback
    BY <1>4, CallFields, ResultFields DEF OpenRollback, Final
  <1>5. CASE OpenCancel
    BY <1>5, CallFields, ResultFields DEF OpenCancel, Final
  <1>6. CASE CloseEth
    <2>1. PICK o \in Final("close_eth") :
            call' = IF IsError(ExpectFilled(o.reply))
                    THEN Return(PassedOn(ExpectFilled(o.reply)))
                    ELSE [GoTo("close_btc", call.second) EXCEPT
                            !.first = ExpectFilled(o.reply),
                            !.cause = call.request.type]
      BY <1>6 DEF CloseEth
    <2>2. call.stage = "close_eth"
      BY <2>1 DEF Final
    <2>3. \A x, y : [GoTo("close_btc", call.second) EXCEPT
                       !.first = x, !.cause = y].stage = "close_btc"
      BY GoToFields DEF CallOK
    <2>4. call' = Return(PassedOn(ExpectFilled(o.reply)))
      BY <2>1, <2>3
    <2> QED
      BY <2>2, <2>4, CallFields, ResultFields
  <1>7. CASE CloseBtc
    BY <1>7, CallFields, ResultFields, GoToFields DEF CloseBtc, Final
  <1>8. CASE CloseRollback
    BY <1>8, CallFields, ResultFields DEF CloseRollback, Final
  <1>9. CASE Repair
    BY <1>9, CallFields, ResultFields DEF Repair, Final
  <1>10. CASE CancelResting
    BY <1>10, CallFields, ResultFields DEF CancelResting, Final
  <1> QED
    BY <1>1, <1>2, <1>3, <1>4, <1>5, <1>6, <1>7, <1>8, <1>9, <1>10 DEF EngineStep

\* What open_pair does with the answer to its first leg.
LEMMA OpenEthCases ==
    ASSUME EngineInv, OpenEth
    PROVE  /\ call.stage = "open_eth"
           /\ \E o \in Outcomes(call) :
                /\ Apply(o)
                /\ IsError(o.reply) => call' = Return(PassedOn(o.reply))
                /\ ~IsError(o.reply) =>
                     /\ call'.stage = "open_btc" /\ call'.request = call.second
                     /\ call'.first = o.reply
  <1>1. PICK o \in Final("open_eth") :
          /\ Apply(o)
          /\ call' = IF IsError(o.reply) THEN Return(PassedOn(o.reply))
                     ELSE [GoTo("open_btc", call.second) EXCEPT !.first = o.reply]
    BY DEF OpenEth
  <1>2. call.stage = "open_eth" /\ o \in Outcomes(call)
    BY <1>1 DEF Final
  <1>3. CASE IsError(o.reply)
    BY <1>1, <1>2, <1>3
  <1>4. CASE ~IsError(o.reply)
    <2>1. call' = [GoTo("open_btc", call.second) EXCEPT !.first = o.reply]
      BY <1>1, <1>4
    <2>2. /\ call'.stage = "open_btc" /\ call'.request = call.second
          /\ call'.first = o.reply
      BY <2>1, GoToFields DEF CallOK
    <2> QED
      BY <1>1, <1>2, <1>4, <2>2
  <1> QED
    BY <1>3, <1>4

\* What close_pair does with the answer to its first leg, and to its second.
LEMMA CloseEthCases ==
    ASSUME EngineInv, CloseEth
    PROVE  /\ call.stage = "close_eth"
           /\ \E o \in Outcomes(call) :
                /\ Apply(o)
                /\ o.reply.kind # "Filled" =>
                     call'.stage = "returned" /\ Failed(call'.result)
                /\ o.reply.kind = "Filled" =>
                     /\ call'.stage = "close_btc" /\ call'.request = call.second
                     /\ call'.first = o.reply /\ call'.cause = call.request.type
  <1>1. PICK o \in Final("close_eth") :
          /\ Apply(o)
          /\ call' = IF IsError(ExpectFilled(o.reply))
                     THEN Return(PassedOn(ExpectFilled(o.reply)))
                     ELSE [GoTo("close_btc", call.second) EXCEPT
                             !.first = ExpectFilled(o.reply),
                             !.cause = call.request.type]
    BY DEF CloseEth
  <1>2. call.stage = "close_eth" /\ o \in Outcomes(call) /\ call.stage \in OrderStages
    BY <1>1 DEF Final, OrderStages
  <1>3. /\ o.reply.kind = "Filled" => ExpectFilled(o.reply) = o.reply
        /\ o.reply.kind = "Filled" <=> ~IsError(ExpectFilled(o.reply))
    BY <1>2, OrderAttempt, OrderReply, ReplyKinds DEF IsError, ExpectFilled
  <1>4. CASE o.reply.kind # "Filled"
    BY <1>1, <1>2, <1>3, <1>4, CallFields, ResultFields DEF Failed
  <1>5. CASE o.reply.kind = "Filled"
    <2>1. call' = [GoTo("close_btc", call.second) EXCEPT
                     !.first = o.reply, !.cause = call.request.type]
      BY <1>1, <1>3, <1>5
    <2>2. /\ call'.stage = "close_btc" /\ call'.request = call.second
          /\ call'.first = o.reply /\ call'.cause = call.request.type
      BY <2>1, GoToFields DEF CallOK
    <2> QED
      BY <1>1, <1>2, <1>5, <2>2
  <1> QED
    BY <1>4, <1>5

LEMMA CloseBtcCases ==
    ASSUME EngineInv, CloseBtc
    PROVE  /\ call.stage = "close_btc"
           /\ \E o \in Outcomes(call) :
                /\ Apply(o)
                /\ o.reply.kind # "Filled" =>
                     /\ call'.stage = "close_rollback"
                     /\ call'.request = Reopen(call, call.cause)
                     /\ call'.first = call.first
                /\ o.reply.kind = "Filled" =>
                     /\ call'.stage = "returned"
                     /\ call'.result = PairFilled(call.first.qty, o.reply.qty)
  <1>1. PICK o \in Final("close_btc") :
          /\ Apply(o)
          /\ call' = IF IsError(ExpectFilled(o.reply))
                     THEN GoTo("close_rollback", Reopen(call, call.cause))
                     ELSE Return(PairFilled(call.first.qty, ExpectFilled(o.reply).qty))
    BY DEF CloseBtc
  <1>2. call.stage = "close_btc" /\ o \in Outcomes(call) /\ call.stage \in OrderStages
    BY <1>1 DEF Final, OrderStages
  <1>3. /\ o.reply.kind = "Filled" => ExpectFilled(o.reply) = o.reply
        /\ o.reply.kind = "Filled" <=> ~IsError(ExpectFilled(o.reply))
    BY <1>2, OrderAttempt, OrderReply, ReplyKinds DEF IsError, ExpectFilled
  <1>4. CASE o.reply.kind # "Filled"
    <2>1. call' = GoTo("close_rollback", Reopen(call, call.cause))
      BY <1>1, <1>3, <1>4
    <2> QED
      BY <1>1, <1>2, <1>4, <2>1, GoToFields
  <1>5. CASE o.reply.kind = "Filled"
    <2>1. call' = Return(PairFilled(call.first.qty, o.reply.qty))
      BY <1>1, <1>3, <1>5
    <2> QED
      BY <1>1, <1>2, <1>5, <2>1, CallFields
  <1> QED
    BY <1>4, <1>5

----------------------------------------------------------------------------
(* Market orders.                                                           *)

\* A call of which every order is a market order.
MarketCall ==
    /\ call.stage \in OrderStages => call.request.type = "Market"
    /\ call.stage \in {"open_eth", "close_eth"} => call.second.type = "Market"
    /\ call.stage = "open_btc" => call.first.kind = "Filled"
    /\ call.stage = "close_btc" => call.cause = "Market"
    /\ call.stage \notin CancelStages
    /\ call.stage = "returned" => call.result.kind # "PairResting"

\* A market order fills or does nothing.
LEMMA MarketAttempt ==
    ASSUME EngineInv, MarketCall, call.stage \in OrderStages,
           NEW o \in Outcomes(call), Apply(o)
    PROVE  /\ UNCHANGED <<book, next_oid>>
           /\ o.reply.kind # "Resting"
           /\ \/ Missed(o) /\ exposure' = exposure
              \/ \E qty \in Nat \ {0} :
                   /\ FilledWith(o, call.request, qty)
                   /\ exposure' = [exposure EXCEPT ![call.request.leg] =
                                     @ + Sign(call.request.side) * qty]
  <1>1. Effect(o, call.request) /\ call.request.type = "Market"
    BY OrderAttempt DEF MarketCall
  <1>2. CASE Missed(o)
    BY <1>2, ReplyKinds DEF Missed, Apply
  <1>3. ASSUME NEW qty \in Nat, FilledWith(o, call.request, qty)
        PROVE  /\ UNCHANGED <<book, next_oid>> /\ o.reply.kind # "Resting"
               /\ qty \in Nat \ {0}
               /\ exposure' = [exposure EXCEPT ![call.request.leg] =
                                 @ + Sign(call.request.side) * qty]
    BY <1>3, ReplyKinds DEF FilledWith, Answers, Apply
  <1>4. ~WentOnBook(o, call.request)
    BY <1>1 DEF WentOnBook
  <1> QED
    BY <1>1, <1>2, <1>3, <1>4 DEF Effect

\* A call of market orders stays one, and puts nothing on the book.
LEMMA MarketEngine ==
    ASSUME EngineInv, MarketCall, EngineStep
    PROVE  MarketCall' /\ UNCHANGED <<book, next_oid>>
  <1>1. call.stage \in OrderStages /\ \E o \in Outcomes(call) : Apply(o)
    BY Attempted DEF MarketCall
  <1>2. UNCHANGED <<book, next_oid>>
    BY <1>1, MarketAttempt
  <1> SUFFICES MarketCall'
    BY <1>2
  <1>r. \A leg, side, qty, flag : Order(leg, side, qty, "Market", flag).type = "Market"
    BY DEF Order
  <1>s. ASSUME call'.stage = "returned", call'.result.kind # "PairResting"
        PROVE  MarketCall'
    BY <1>s DEF MarketCall, OrderStages, CancelStages
  <1>3. CASE Retry
    BY <1>3, RetryFields DEF MarketCall
  <1>4. CASE OpenEth
    <2>1. PICK o \in Outcomes(call) :
            /\ Apply(o)
            /\ IsError(o.reply) => call' = Return(PassedOn(o.reply))
            /\ ~IsError(o.reply) =>
                 /\ call'.stage = "open_btc" /\ call'.request = call.second
                 /\ call'.first = o.reply
      BY <1>4, OpenEthCases
    <2>2. CASE IsError(o.reply)
      BY <1>s, <2>1, <2>2, CallFields, ResultFields
    <2>3. CASE ~IsError(o.reply)
      <3>1. o.reply.kind = "Filled"
        BY <1>1, <2>1, <2>3, MarketAttempt, OrderAttempt, OrderReply, ReplyKinds
           DEF IsError
      <3>2. call.second.type = "Market"
        BY <1>4, OpenEthCases DEF MarketCall
      <3> QED
        BY <2>1, <2>3, <3>1, <3>2 DEF MarketCall, OrderStages, CancelStages
    <2> QED
      BY <2>2, <2>3
  <1>5. CASE OpenBtc
    <2>1. call.stage = "open_btc" /\ call.first.kind = "Filled"
      BY <1>5, OpenBtcCases DEF MarketCall
    <2>2. PICK o \in Final("open_btc") :
            /\ call.first.kind = "Filled" /\ o.reply.kind = "Filled" =>
                 call' = Return(PairFilled(call.first.qty, o.reply.qty))
            /\ call.first.kind = "Filled" /\ o.reply.kind # "Filled" =>
                 /\ call'.stage = "open_rollback"
                 /\ call'.request = Rollback("eth", call.first)
      BY <1>5, OpenBtcCases
    <2>3. CASE o.reply.kind = "Filled"
      BY <1>s, <2>1, <2>2, <2>3, CallFields, ResultFields
    <2>4. CASE o.reply.kind # "Filled"
      BY <1>r, <2>1, <2>2, <2>4 DEF MarketCall, OrderStages, CancelStages, Rollback
    <2> QED
      BY <2>3, <2>4
  <1>6. CASE OpenRollback \/ CloseRollback \/ Repair
    BY <1>6, <1>s, CallFields, ResultFields DEF OpenRollback, CloseRollback, Repair
  <1>7. CASE OpenCancel \/ CancelResting
    BY <1>7, EngineStages DEF MarketCall, OpenCancel, CancelResting, Final, CancelStages
  <1>8. CASE CloseEth
    BY <1>8, <1>s, CloseEthCases DEF MarketCall, OrderStages, CancelStages, Failed
  <1>9. CASE CloseBtc
    <2>1. PICK o \in Outcomes(call) :
            /\ o.reply.kind # "Filled" =>
                 /\ call'.stage = "close_rollback"
                 /\ call'.request = Reopen(call, call.cause)
            /\ o.reply.kind = "Filled" =>
                 /\ call'.stage = "returned"
                 /\ call'.result = PairFilled(call.first.qty, o.reply.qty)
      BY <1>9, CloseBtcCases
    <2>2. CASE o.reply.kind = "Filled"
      BY <1>s, <2>1, <2>2, ResultFields
    <2>3. CASE o.reply.kind # "Filled"
      <3>1. call.cause = "Market"
        BY <1>9, CloseBtcCases DEF MarketCall
      <3> QED
        BY <1>r, <2>1, <2>3, <3>1 DEF MarketCall, OrderStages, CancelStages, Reopen
    <2> QED
      BY <2>2, <2>3
  <1> QED
    BY <1>3, <1>4, <1>5, <1>6, <1>7, <1>8, <1>9 DEF EngineStep

\* Where answers arrive, parse and report whole fills, a market order that is
\* answered by a fill filled as far as it can, and one that is answered by an
\* error did nothing.
LEMMA CleanAttempt ==
    ASSUME EngineInv, MarketCall, call.stage \in OrderStages,
           NEW o \in Outcomes(call), Apply(o), Clean'
    PROVE  \/ /\ exposure' = exposure
              /\ IsError(o.reply) /\ o.reply.kind # "Filled"
           \/ /\ Fillable(call.request) \in Nat \ {0}
              /\ o.reply = Filled(Fillable(call.request))
              /\ ~IsError(o.reply) /\ o.reply.kind = "Filled"
              /\ exposure' = [exposure EXCEPT ![call.request.leg] =
                                @ + Sign(call.request.side) * Fillable(call.request)]
  <1>0. Effect(o, call.request) /\ call.request \in Orders
    BY OrderAttempt
  <1>1. /\ "lost_response" \notin o.met /\ "garbled" \notin o.met
        /\ "partial" \notin o.met
    BY CleanMet DEF Apply
  <1>2. CASE IsError(o.reply)
    <2>1. exposure' = exposure
      BY <1>0, <1>2, CleanError
    <2> QED
      BY <1>2, <2>1 DEF IsError
  <1>3. CASE ~IsError(o.reply)
    <2>1. PICK qty \in Nat \ {0} :
            FilledWith(o, call.request, qty) /\ o.reply = Filled(qty)
      BY <1>0, <1>3, TrueReply DEF WentOnBook, MarketCall
    <2>2. Fillable(call.request) \in Nat
      BY <1>0, FillableRange DEF Counted, ExchangeTypeOK, Orders
    <2>3. qty = Fillable(call.request)
      BY <1>1, <2>1, <2>2 DEF FilledWith
    <2>4. exposure' = [exposure EXCEPT ![call.request.leg] =
                         @ + Sign(call.request.side) * qty]
      BY <2>1 DEF FilledWith, Apply
    <2> QED
      BY <1>3, <2>1, <2>3, <2>4, ReplyKinds
  <1> QED
    BY <1>2, <1>3

\* A quantity between nothing and another one.
Within(qty, bound) == IF bound > 0 THEN qty \in 0..bound ELSE qty \in bound..0

\* An attempt to close what a leg holds shrinks the leg and no other, whatever
\* answer comes back, and one that is answered by a whole fill leaves nothing.
LEMMA ClosingAttempt ==
    ASSUME EngineInv, MarketCall, call.stage \in OrderStages,
           NEW leg \in Legs, NEW held \in Int \ {0},
           ClosesLeg(call.request, leg, held), Within(exposure[leg], held),
           NEW o \in Outcomes(call), Apply(o)
    PROVE  /\ Within(exposure'[leg], held)
           /\ \A other \in Legs : other # leg => exposure'[other] = exposure[other]
           /\ o.reply.kind = "Filled" /\ "partial" \notin met' => exposure'[leg] = 0
  <1>1. call.request \in Orders /\ exposure \in [Legs -> Int] /\ Effect(o, call.request)
    BY OrderAttempt DEF ExchangeTypeOK
  <1>2. CASE Missed(o)
    <2>1. exposure' = exposure /\ o.reply.kind # "Filled"
      BY <1>2, ReplyKinds DEF Missed, Apply
    <2> QED
      BY <2>1
  <1>3. ASSUME NEW qty \in Nat \ {0}, FilledWith(o, call.request, qty),
               exposure' = [exposure EXCEPT ![call.request.leg] =
                              @ + Sign(call.request.side) * qty]
        PROVE  /\ Within(exposure'[leg], held)
               /\ \A other \in Legs : other # leg => exposure'[other] = exposure[other]
               /\ "partial" \notin met' => exposure'[leg] = 0
    <2>1. /\ exposure'[leg] = exposure[leg] + Sign(call.request.side) * qty
          /\ \A other \in Legs : other # leg => exposure'[other] = exposure[other]
      BY <1>1, <1>3 DEF ClosesLeg
    <2>2. /\ qty <= Fillable(call.request)
          /\ "partial" \notin met' => qty = Fillable(call.request)
      BY <1>1, <1>3, FillableRange DEF FilledWith, Apply, Counted, ExchangeTypeOK
    <2>3. CASE held > 0
      <3>1. /\ call.request.side = "Sell" /\ call.request.qty = held
            /\ exposure[leg] \in 0..held
        BY <2>3 DEF ClosesLeg, CloseForQty, Abs, Within
      <3>2. Fillable(call.request) = exposure[leg]
        BY <1>1, <3>1 DEF ClosesLeg, Fillable, Reducible, Sign
      <3> QED
        BY <1>1, <2>1, <2>2, <2>3, <3>1, <3>2 DEF Within, Sign
    <2>4. CASE held < 0
      <3>1. /\ call.request.side = "Buy" /\ call.request.qty = -held
            /\ exposure[leg] \in held..0
        BY <2>4 DEF ClosesLeg, CloseForQty, Abs, Within
      <3>2. Fillable(call.request) = -exposure[leg]
        BY <1>1, <3>1 DEF ClosesLeg, Fillable, Reducible, Sign
      <3> QED
        BY <1>1, <2>1, <2>2, <2>4, <3>1, <3>2 DEF Within, Sign
    <2> QED
      BY <2>1, <2>3, <2>4
  <1>4. MarketCall /\ \/ Missed(o) /\ exposure' = exposure
                      \/ \E qty \in Nat \ {0} :
                           /\ FilledWith(o, call.request, qty)
                           /\ exposure' = [exposure EXCEPT ![call.request.leg] =
                                             @ + Sign(call.request.side) * qty]
    BY MarketAttempt
  <1> QED
    BY <1>2, <1>3, <1>4

\* The answer to the order that closes a whole leg.
LEMMA WholeClose ==
    ASSUME EngineInv, MarketCall, call.stage \in OrderStages, NEW leg \in Legs,
           ClosesLeg(call.request, leg, exposure[leg]), exposure[leg] # 0,
           NEW o \in Outcomes(call), Apply(o), Clean'
    PROVE  /\ o.reply.kind # "Filled" => exposure' = exposure
           /\ o.reply.kind = "Filled" =>
                /\ exposure'[leg] = 0
                /\ \A other \in Legs : other # leg => exposure'[other] = exposure[other]
  <1>1. exposure[leg] \in Int \ {0} /\ Within(exposure[leg], exposure[leg])
    BY DEF ExchangeTypeOK, Within
  <1>2. o.reply.kind # "Filled" => exposure' = exposure
    BY CleanAttempt
  <1>3. "partial" \notin met'
    BY CleanMet
  <1> QED
    BY <1>1, <1>2, <1>3, ClosingAttempt
=============================================================================
