------------------------------ MODULE OrderPath -----------------------------
(***************************************************************************)
(* From a settings file to the requests the exchange gets: the start of    *)
(* the program, entry decisions (EntryDecision), and LiveOrderExecutor     *)
(* with the retry loop around it - leverage, rate limiter, asset specs,    *)
(* price ladder, nonces, answers.                                          *)
(*                                                                         *)
(* The calls of the execution engine are cut down to what they send: one   *)
(* order after the other, each in as many attempts as it takes.  What is   *)
(* done about a leg that fails is ExecutionEngine's matter.  The clock     *)
(* counts ticks of 50 ms; the wall clock nonces are read from is the clock *)
(* plus a skew somebody can set back.                                      *)
(***************************************************************************)
EXTENDS EntryDecision, Sequences

CONSTANTS
    Files,        \* what a settings file may set
    Bars,         \* bars with an entry signal
    Leftovers,    \* lone legs to be repaired: [leg, qty, entry_price]
    Moves,        \* how far the market is from the reference price, in bps
    Lots,         \* the exchange's smallest size of a leg, from sz_decimals
    MaxAttempts,  \* retry.max_attempts, and at least four for market orders
    BaseDelay,    \* retry.base_delay_ms
    MinInterval,  \* the rate limiter's min_interval
    Latencies,    \* how long a request to the exchange takes
    LoadTimes,    \* how long the request for the asset specs takes
    Setback,      \* how far the wall clock may be set back
    Faults,       \* which faults happen
    MaxFaults,    \* bound: faults per behaviour
    MaxCalls      \* bound: entry signals and repairs per behaviour

\* transient:  a server error or a lost request
\* fatal:      a client error or an answer that cannot be read
\* crash:      the process dies while a request is under way
\* clock_back: the wall clock is set back
OrderPathFaults == {"transient", "fatal", "crash", "clock_back"}

ASSUME OrderPathAssumption ==
    /\ Valid(DefaultConfig)
    /\ \A file \in Files, name \in DOMAIN DefaultConfig.settings :
         name \in DOMAIN file.settings => file.settings[name] # None
    /\ \A file \in Files : WellTyped(file)
    /\ Bars \subseteq BarRecords
    /\ Leftovers \subseteq [leg : Legs, qty : Int, entry_price : Nat \ {0}]
    /\ Moves \subseteq Int
    /\ \A leg \in Legs : Lots[leg] \in Nat \ {0}
    /\ Setback \in Nat /\ MaxFaults \in Nat
    /\ MaxAttempts \in Nat \ {0} /\ BaseDelay \in Nat
    /\ MinInterval \in Nat /\ Latencies \cup LoadTimes \subseteq Nat \ {0}
    /\ Faults \subseteq OrderPathFaults

\* What reaches the exchange endpoint.
Requests ==
    [request : {"leverage", "order"}, nonce : Nat, at : Nat, cached : BOOLEAN,
     order : Orders, attempt : Nat, price : Int, size : Int]

ASSUME NoneAssumption == None \notin Int \cup Requests

VARIABLES
    pc,        \* where the process is
    config,    \* the settings it was started with
    orders,    \* orders of the call under way still to be sent
    attempt,   \* attempts made at the first one
    delay,     \* before the next one; each attempt doubles it
    request,   \* what the next request is about
    move,      \* where the market is during the call
    cached,    \* asset_specs are loaded
    limiter,   \* FixedRateLimiter.last
    nonce,     \* TimeNonceProvider.last
    clock, skew,
    faults, calls,
    verdict,   \* history: the last entry signal and what came of it
    sent,      \* history: this process's last request to the exchange endpoint
    gone,      \* history: [nonce, set_back]: highest nonce of earlier processes,
               \* and whether the wall clock was ever set back
    given_up   \* history: the order the last call gave up, and why

process_vars == <<cached, limiter, nonce>>

time_vars == <<clock, skew, faults>>

history_vars == <<verdict, sent, gone, given_up>>

retry_vars == <<attempt, delay, request>>

vars == <<pc, config, orders, retry_vars, move, process_vars, time_vars,
          calls, history_vars>>

TypeOK ==
    /\ pc \in {"start", "refused", "idle", "sending", "waiting", "down"}
    /\ pc \in {"sending", "waiting"} <=> orders # <<>>
    /\ attempt \in 0..(Max({MaxAttempts, 4}) - 1)
    /\ delay \in Nat
    /\ request \in {"leverage", "order"}
    /\ move \in Moves \cup {0}
    /\ cached \in BOOLEAN
    /\ limiter \in Nat \cup {None}
    /\ nonce \in Nat /\ clock \in Nat /\ faults \in 0..MaxFaults
    /\ pc = "waiting" => cached /\ sent # None /\ sent.request = request

NewProcess == cached' = FALSE /\ limiter' = None /\ nonce' = 0 /\ sent' = None

Init ==
    /\ pc = "start"
    /\ config = DefaultConfig
    /\ orders = <<>> /\ attempt = 0 /\ delay = 0 /\ request = "order" /\ move = 0
    /\ cached = FALSE /\ limiter = None /\ nonce = 0
    /\ clock = Setback + 1 /\ skew = 0
    /\ faults = 0 /\ calls = 0
    /\ verdict = None /\ sent = None /\ given_up = None
    /\ gone = [nonce |-> 0, set_back |-> FALSE]

Fault(kind) ==
    /\ kind \in Faults
    /\ faults < MaxFaults
    /\ faults' = faults + 1

----------------------------------------------------------------------------
(* Start-up and decisions.                                                  *)

\* A live process needs a key to sign with, from the command line or the file;
\* validate does not ask for it.
CanSign(s, key) == s.paper \/ key \/ s.private_key # None

\* The file over the defaults, validated once; an error ends the program.
LoadConfig(file, key) ==
    /\ pc = "start"
    /\ config' = Overridden(DefaultConfig, file)
    /\ pc' = IF Valid(config') /\ CanSign(config'.settings, key) THEN "idle"
             ELSE "refused"
    /\ UNCHANGED <<orders, retry_vars, move, process_vars, time_vars,
                   calls, history_vars>>

\* Only orders that open exposure are preceded by update_leverage.
FirstRequest(order) ==
    IF ~order.reduce_only /\ config.settings.leverage # None
    THEN "leverage" ELSE "order"

Counted == calls < MaxCalls /\ calls' = calls + 1

\* The paper executor fills an order without a request.
Call(new_orders) ==
    IF config.settings.paper
    THEN UNCHANGED <<pc, orders, retry_vars, move>>
    ELSE /\ orders' = new_orders
         /\ attempt' = 0 /\ delay' = BaseDelay
         /\ request' = FirstRequest(Head(new_orders))
         /\ move' \in Moves
         /\ pc' = "sending"

\* What of a bar the run gets to see: there is a source of the balance only in a
\* live process with EquityRatio, and a source of funding rates unless disabled.
Seen(s, bar) ==
    [bar EXCEPT !.equity = IF ~s.paper /\ s.c_mode = "EquityRatio" THEN @ ELSE None,
                !.rates = IF s.disable_funding THEN None ELSE @]

\* process_bar with an entry signal.
Signal(bar) ==
    /\ pc = "idle"
    /\ Counted
    /\ LET seen == Seen(config.settings, bar)
           decision == Decision(config, seen)
       IN  /\ verdict' = [bar |-> seen, decision |-> decision]
           /\ \/ decision.kind = "orders" /\ Call(decision.orders)
              \/ /\ decision.kind = "blocked"
                 /\ UNCHANGED <<pc, orders, retry_vars, move>>
              \/ /\ decision.kind = "error"
                 /\ pc' = "down"
                 /\ UNCHANGED <<orders, retry_vars, move>>
    /\ UNCHANGED <<config, process_vars, time_vars, sent, gone, given_up>>

\* repair_residual: the reference is the price the leg was entered at.
Repair(leftover) ==
    /\ pc = "idle"
    /\ Counted
    /\ Call(<<[leg |-> leftover.leg,
               side |-> CloseForQty(leftover.qty),
               qty |-> Abs(leftover.qty),
               order_type |-> "Market",
               reference |-> leftover.entry_price,
               limit_price |-> leftover.entry_price * BpsScale,
               reduce_only |-> TRUE]>>)
    /\ UNCHANGED <<config, process_vars, time_vars, history_vars>>

----------------------------------------------------------------------------
(* The price ladder.                                                        *)

\* The ladder starts an attempt late (a mutant).
WideningLate == IF attempt = 0 THEN 0 ELSE Min({15 * (attempt - 1), 120})

\* requoted_market_price: every retry widens by 15 bps, up to 120.
Widening == Min({15 * attempt, 120})

\* So many basis points of n, rounded up to the unit n is in.
BpsOf(n, bps) == bps * (n \div BpsScale) + CeilDiv(bps * (n % BpsScale), BpsScale)

\* To a tick, up for a buy.
AlignPrice(side, n) == IF side = "Buy" THEN CeilDiv(n, BpsScale) ELSE n \div BpsScale

\* The price that is sent.  Rounding the widening up first, to 1/BpsScale of a
\* tick, is in the direction of AlignPrice and changes nothing.
Price(order) ==
    AlignPrice(order.side,
      order.limit_price
        + IF order.order_type = "Market"
          THEN Sign(order.side) * BpsOf(order.limit_price, Widening) ELSE 0)

AlignSize(order) == (order.qty \div Lots[order.leg]) * Lots[order.leg]

\* A price an immediate order of this side finds a match at.
Reaches(order, price) ==
    Sign(order.side) * (BpsScale * price - order.reference * (BpsScale + move)) >= 0

----------------------------------------------------------------------------
(* post_order and update_leverage.                                          *)

\* The limiter does not wait (a mutant).
WaitedNot == clock

\* FixedRateLimiter::wait.
Waited == IF limiter = None THEN clock ELSE Max({clock, limiter + MinInterval})

\* The time, whatever it was before (a mutant).
NextNonceNow(now) == now + skew

\* TimeNonceProvider::next_nonce.
NextNonce(now) == IF now + skew <= nonce THEN nonce + 1 ELSE now + skew

\* Asset specs are asked for once per process.
SpecTimes == IF cached THEN {0} ELSE LoadTimes

\* The limiter, the asset specs unless they are cached, and the request.
Send(latency) ==
    /\ pc = "sending"
    /\ request = "order" => AlignSize(Head(orders)) > 0
    /\ latency \in SpecTimes
    /\ limiter' = Waited
    /\ cached' = TRUE
    /\ clock' = Waited + latency
    /\ nonce' = NextNonce(clock')
    /\ sent' = [request |-> request, nonce |-> nonce', at |-> clock',
                cached |-> cached,
                order |-> Head(orders), attempt |-> attempt,
                price |-> Price(Head(orders)),
                size |-> AlignSize(Head(orders))]
    /\ pc' = "waiting"
    /\ UNCHANGED <<config, orders, retry_vars, move, skew, faults, calls,
                   verdict, gone, given_up>>

\* One attempt more than configured (a mutant).
AttemptsOneMore(order) == Max({MaxAttempts, 4}) + 1

\* retry_market_with_requote makes at least four.
Attempts(order) ==
    IF order.order_type = "Market" THEN Max({MaxAttempts, 4}) ELSE MaxAttempts

Retryable(order, why) ==
    why = "transient" \/ (why = "no_match" /\ order.order_type = "Market")

\* The attempt failed: the next one after a delay that doubles, or the error
\* ends the call, and the run and the process with it.
AttemptFailed(why, now) ==
    LET order == Head(orders)
    IN  IF Retryable(order, why) /\ attempt + 1 < Attempts(order)
        THEN /\ attempt' = attempt + 1
             /\ request' = FirstRequest(order)
             /\ clock' = now + delay
             /\ delay' = 2 * delay
             /\ pc' = "sending"
             /\ UNCHANGED <<orders, given_up>>
        ELSE /\ given_up' = [why |-> why, order |-> order, move |-> move]
             /\ orders' = <<>>
             /\ clock' = now
             /\ pc' = "down"
             /\ UNCHANGED retry_vars

\* No specs, or nothing left of the size: no request is sent.
SendFails ==
    /\ pc = "sending"
    /\ limiter' = Waited
    /\ \/ /\ ~cached
          /\ \E why \in {"transient", "fatal"}, latency \in LoadTimes :
               Fault(why) /\ AttemptFailed(why, Waited + latency)
          /\ UNCHANGED cached
       \/ /\ request = "order"
          /\ AlignSize(Head(orders)) = 0
          /\ cached' = TRUE
          /\ \E latency \in SpecTimes : AttemptFailed("fatal", Waited + latency)
          /\ UNCHANGED faults
    /\ UNCHANGED <<config, move, nonce, skew, calls, verdict, sent, gone>>

\* The order is done with: filled, or resting on the book.
OrderDone(now) ==
    /\ clock' = now
    /\ orders' = Tail(orders)
    /\ IF orders' = <<>>
       THEN pc' = "idle" /\ UNCHANGED retry_vars
       ELSE /\ pc' = "sending" /\ attempt' = 0 /\ delay' = BaseDelay
            /\ request' = FirstRequest(Head(orders'))
    /\ UNCHANGED given_up

Reply(latency) ==
    /\ pc = "waiting"
    /\ LET order == Head(orders)
           now == clock + latency
       IN  \/ \E why \in {"transient", "fatal"} :
                Fault(why) /\ AttemptFailed(why, now)
           \/ /\ request = "leverage"
              /\ request' = "order"
              /\ pc' = "sending"
              /\ clock' = now
              /\ UNCHANGED <<orders, attempt, delay, faults, given_up>>
           \/ /\ request = "order"
              /\ IF order.order_type = "Market" /\ ~Reaches(order, sent.price)
                 THEN AttemptFailed("no_match", now)
                 ELSE OrderDone(now)
              /\ UNCHANGED faults
    /\ UNCHANGED <<config, move, process_vars, skew, calls, verdict, sent, gone>>

----------------------------------------------------------------------------
(* The life of the process.                                                 *)

Crash ==
    /\ pc \in {"sending", "waiting"}
    /\ Fault("crash")
    /\ pc' = "down"
    /\ orders' = <<>>
    /\ UNCHANGED <<config, retry_vars, move, process_vars, clock, skew,
                   calls, history_vars>>

\* It takes a while to start the program again.
Restart ==
    /\ pc = "down"
    /\ calls < MaxCalls
    /\ pc' = "idle"
    /\ clock' = clock + 1
    /\ NewProcess
    /\ gone' = [gone EXCEPT !.nonce = Max({@, nonce})]
    /\ UNCHANGED <<config, orders, retry_vars, move, skew, faults, calls,
                   verdict, given_up>>

ClockSetBack ==
    /\ pc \in {"idle", "down", "waiting"}
    /\ Fault("clock_back")
    /\ skew' = skew - Setback
    /\ gone' = [gone EXCEPT !.set_back = TRUE]
    /\ UNCHANGED <<pc, config, orders, retry_vars, move, process_vars,
                   clock, calls, verdict, sent, given_up>>

Next ==
    \/ \E file \in Files, key \in BOOLEAN : LoadConfig(file, key)
    \/ \E bar \in Bars : Signal(bar)
    \/ \E leftover \in Leftovers : Repair(leftover)
    \/ \E latency \in LoadTimes \cup {0} : Send(latency)
    \/ SendFails
    \/ \E latency \in Latencies : Reply(latency)
    \/ Crash
    \/ Restart
    \/ ClockSetBack

Spec == Init /\ [][Next]_vars

----------------------------------------------------------------------------
\* Settings that were accepted end a run at an entry signal for two reasons only:
\* capital above max_notional, and no equity.  (The third is the exchange's: a
\* funding interval of zero.)  The parameters of the funding modes are never
\* missing, nor is the capital, and constraints always have a step.
ValidatedRuns ==
    verdict # None /\ verdict.decision.kind = "error" =>
      verdict.decision.why \in {"max_notional", "equity", "interval"}

\* Twice what rounding adds to a size at most: half a step or a step, depending
\* on the mode, and then half a unit of qty_precision.
Slack(k, mode) ==
    [FLOOR |-> 0, ROUND |-> 1, CEIL |-> 2][mode] * k.step_size
      + 2 * (k.qty_unit \div 2)

\* A size is worth no more than a sum of money, but for its rounding.
WorthAtMost(k, mode, qty, price, money) ==
    2 * (qty * price - money) <= Slack(k, mode) * price

\* What the smallest order of the constraints is worth.
MinimumWorth(k, price) == Most(k.min_notional * QtyScale, k.min_qty * price)

\* No leg of an entry is worth more than its share of the capital, whatever the
\* rounding mode, the step and the precision, but for what this mode adds - and
\* for a share below the minimum that the policy lifts: then it is worth no more
\* than the minimum, rounded up.  The pair is within max_notional, but for the
\* rounding and the minimum of each leg that may be lifted.
EntryWithinCapital ==
    verdict # None /\ verdict.decision.kind = "orders" =>
      LET s == config.settings
          bar == verdict.bar
          notional == Notional(Capital(s, bar), bar.vols)
          lifts == s.min_size_policy = "ADJUST"
          pair == verdict.decision.orders
          worth(i) == pair[i].qty * bar.prices[pair[i].leg]
          beyond(i) ==
            LET k == config.constraints[pair[i].leg]
                price == bar.prices[pair[i].leg]
            IN  IF lifts THEN Slack(k, "CEIL") * price + 2 * Most(0, MinimumWorth(k, price))
                ELSE Slack(k, k.rounding_mode) * price
      IN  /\ \A i \in 1..2 :
               LET k == config.constraints[pair[i].leg]
                   price == bar.prices[pair[i].leg]
                   share == QtyScale * notional[pair[i].leg]
               IN  \/ WorthAtMost(k, k.rounding_mode, pair[i].qty, price, share)
                   \/ /\ lifts
                      /\ WorthAtMost(k, "CEIL", pair[i].qty, price, MinimumWorth(k, price))
          /\ s.max_notional # None =>
               2 * (worth(1) + worth(2) - QtyScale * s.max_notional)
                 <= beyond(1) + beyond(2)

\* The last rung of the ladder: 45 bps for four attempts.
LastRung == Min({15 * (Max({MaxAttempts, 4}) - 1), 120})

\* What is sent: a market order's price is on the far side of the reference, and
\* beyond it by no more than slippage and the last rung and less than a tick; a
\* resting order's is on the near side, and no further from it than its offset;
\* a size is never rounded up.
SentWithinReach ==
    sent # None /\ sent.request = "order" =>
      LET o == sent.order
          beyond == Sign(o.side) * (sent.price - o.reference)
          limit == Sign(o.side) * (o.limit_price - BpsScale * o.reference)
      IN  /\ IF o.order_type = "Market"
             THEN /\ beyond >= 0
                  /\ BpsScale * (beyond - 1) < limit + BpsOf(o.limit_price, LastRung)
             ELSE beyond <= 0 /\ BpsScale * beyond >= limit
          /\ sent.size > 0 /\ sent.size <= o.qty

\* A market order is given up for want of a match only if the market is further
\* away than the last rung of the ladder, whatever errors the attempts before met.
GivesUpBeyondReach ==
    given_up # None /\ given_up.why = "no_match" =>
      LET o == given_up.order
          reach == o.limit_price + Sign(o.side) * BpsOf(o.limit_price, LastRung)
      IN  Sign(o.side) * (o.reference * (BpsScale + given_up.move) - reach) > 0

\* The exchange endpoint sees nonces that grow: within a process whatever is done
\* to the clock, and across restarts unless it was set back.  Its requests are
\* min_interval apart, save the one after the asset specs were loaded, which the
\* limiter does not know of.
RequestsOrdered ==
    [][sent' # sent /\ sent' # None =>
         /\ sent # None =>
              /\ sent'.nonce > sent.nonce
              /\ sent.cached => sent'.at - sent.at >= MinInterval
         /\ ~gone.set_back => sent'.nonce > gone.nonce]_vars
=============================================================================
