------------------------- MODULE SignalRunnerProofs -------------------------
(***************************************************************************)
(* What the detectors signal over the life of the process (SignalRunner),  *)
(* proved for z-scores, thresholds, windows and warm-ups of any size, any  *)
(* cooldown and any number of late ticks, missed bars, failed runs and     *)
(* restarts.                                                               *)
(***************************************************************************)
EXTENDS SignalRunner, WellFoundedInduction, TLAPS

----------------------------------------------------------------------------
(* The record.                                                              *)

Sound(s) == s \in StrategyStates /\ HydrateAccepts(s)

LEMMA DefaultSound == Sound(DefaultState) /\ DefaultState.status = "Flat"
  BY NoneAssumption DEF Sound, DefaultState, StrategyStates, HydrateAccepts, Statuses

\* force_flat.
LEMMA ForceFlatSound ==
    ASSUME NEW s, Sound(s)
    PROVE  Sound(ForceFlat(s)) /\ ForceFlat(s).status = "Flat"
  BY NoneAssumption DEF Sound, ForceFlat, StrategyStates, HydrateAccepts, Statuses

\* enter and confirm_pending_entry.
LEMMA EnterSound ==
    ASSUME NEW s, Sound(s), NEW p \in Positions
    PROVE  /\ Sound(Enter(s, p)) /\ Enter(s, p).status = "InPosition"
           /\ ConfirmPendingEntry(s, p) = Enter(s, p)
  BY NoneAssumption
     DEF Sound, Enter, ConfirmPendingEntry, StrategyStates, HydrateAccepts, Statuses

\* enter_pending.
LEMMA EnterPendingSound ==
    ASSUME NEW s, Sound(s), NEW q \in PendingEntries
    PROVE  Sound(EnterPending(s, q)) /\ EnterPending(s, q).status = "PendingEntry"
  BY NoneAssumption
     DEF Sound, EnterPending, StrategyStates, HydrateAccepts, Statuses

\* exit.
LEMMA ExitSound ==
    ASSUME NEW s, Sound(s), NEW reason, NEW now \in Nat
    PROVE  /\ Sound(Exit(s, reason, now))
           /\ Exit(s, reason, now).status \in {"Flat", "Cooldown"}
           /\ Exit(s, reason, now).status = "Cooldown"
                => Exit(s, reason, now).cooldown_until = now + CooldownHours
  <1>0. now + CooldownHours \in Nat /\ now + CooldownHours # None
    BY CooldownAssumption, NoneAssumption
  <1>1. CASE reason = "StopLoss"
    <2>1. Exit(s, reason, now) =
            [s EXCEPT !.status = "Cooldown", !.cooldown_until = now + CooldownHours,
                      !.position = None, !.pending_entry = None]
      BY <1>1 DEF Exit
    <2> QED
      BY <1>0, <1>1, <2>1 DEF Sound, StrategyStates, HydrateAccepts, Statuses
  <1>2. CASE reason # "StopLoss"
    <2>1. Exit(s, reason, now) =
            [s EXCEPT !.status = "Flat", !.cooldown_until = None,
                      !.position = None, !.pending_entry = None]
      BY <1>2 DEF Exit
    <2> QED
      BY <1>2, <2>1 DEF Sound, StrategyStates, HydrateAccepts, Statuses
  <1> QED
    BY <1>1, <1>2

\* update and recover_state change a record only to release its cooldown.
LEMMA UpdateSound ==
    ASSUME NEW s, Sound(s), NEW now \in Nat
    PROVE  /\ Sound(Update(s, now)) /\ Recover(s, now) = Update(s, now)
           /\ CooldownOver(s, now) => Update(s, now).status = "Flat"
           /\ ~CooldownOver(s, now) => Update(s, now) = s
  <1>1. CASE CooldownOver(s, now)
    <2>1. s.status = "Cooldown" /\ s.pending_entry = None /\ s.position = None
      BY <1>1 DEF CooldownOver, Sound, HydrateAccepts
    <2> DEFINE after == [s EXCEPT !.status = "Flat", !.cooldown_until = None]
    <2>2. [s EXCEPT !.status = "Flat", !.pending_entry = None, !.cooldown_until = None]
            = after
      BY <2>1 DEF Sound, StrategyStates
    <2>3. Update(s, now) = after
      BY <1>1 DEF Update
    <2>4. after.status = "Flat"
      BY DEF Sound, StrategyStates
    <2>5. Recover(s, now) = after
      BY <1>1, <2>2, <2>4 DEF Recover
    <2>6. Sound(after)
      BY <2>1, NoneAssumption DEF Sound, StrategyStates, HydrateAccepts, Statuses
    <2> QED
      BY <1>1, <2>3, <2>4, <2>5, <2>6
  <1>2. CASE ~CooldownOver(s, now)
    <2>1. Update(s, now) = s
      BY <1>2 DEF Update
    <2>2. Recover(s, now) = s
      BY <1>2 DEF Recover, Sound, HydrateAccepts
    <2> QED
      BY <1>2, <2>1, <2>2
  <1> QED
    BY <1>1, <1>2

----------------------------------------------------------------------------
(* One bar through the pipeline.                                            *)

Ages == (Nat \ {0}) \cup {None}

Pipelines ==
    [filled : 0..ZBars,
     entry : [prev_z : Int \cup {None}, last_status : Statuses \cup {None}, age : Ages],
     tp_count : Nat]

\* What a pipeline remembers of n bars: the last z-score, and those that count
\* for a take profit.
Follows(p, history, n) ==
    /\ p.entry.prev_z # None /\ n > 0 => p.entry.prev_z = history[n]
    /\ \A i \in 1..n : i > n - p.tp_count => Abs(history[i]) <= TpZ

\* A count of bars since a cooldown was released is no lower than it should be,
\* while it matters, and the z-score has been in the zone for so many bars.
Aged(p, history, n, runs) ==
    p.entry.age # None /\ p.entry.age <= StaleCross.max_age_bars =>
      /\ runs # None /\ runs <= p.entry.age
      /\ \A i \in 1..n : i > n - p.entry.age => InZone(history[i])

\* A bar more at the end, and perhaps one less at the front.
Extends(new, m, old, n, z) ==
    /\ m \in Nat \ {0} /\ n \in Nat /\ m <= n + 1
    /\ new[m] = z
    /\ \A i \in 1..(m - 1) : new[i] = old[i + n - m + 1]

LEMMA AbsInt == ASSUME NEW z \in Int PROVE Abs(z) \in Int
  BY DEF Abs

LEMMA NewPipelineOK ==
    ASSUME NEW history, NEW n \in Nat
    PROVE  /\ NewPipeline \in Pipelines
           /\ Follows(NewPipeline, history, n)
           /\ NewPipeline.entry.age = None /\ NewPipeline.entry.prev_z = None
           /\ NewPipeline.entry.last_status = None
           /\ NewPipeline.filled = 0 /\ NewPipeline.tp_count = 0
  BY ControlsAssumption
     DEF NewPipeline, NewEntryDetector, Pipelines, Follows, Ages

\* What Fed makes of each field.
LEMMA FedFields ==
    ASSUME NEW p \in Pipelines, NEW z \in Int, NEW status \in Statuses
    PROVE  /\ Fed(p, z, status) \in Pipelines
           /\ Known(p, z) \in {z, None}
           /\ Known(p, z) # None <=> p.filled + 1 >= ZBars
           /\ Fed(p, z, status).entry.prev_z = Known(p, z)
           /\ Fed(p, z, status).entry.last_status = status
           /\ Fed(p, z, status).entry.age =
                (IF Known(p, z) = None THEN None ELSE RecoveryAge(p.entry, z, status))
           /\ Fed(p, z, status).tp_count = TpCount(p.tp_count, Known(p, z), status)
           /\ Fed(p, z, status).filled = (IF p.filled < ZBars THEN p.filled + 1 ELSE ZBars)
  <1>1. /\ Known(p, z) \in {z, None}
        /\ Known(p, z) # None <=> p.filled + 1 >= ZBars
    BY SignalRunnerAssumption DEF Known
  <1>2. RecoveryAge(p.entry, z, status) \in Ages
    BY ControlsAssumption DEF RecoveryAge, Pipelines, Ages
  <1>3. TpCount(p.tp_count, Known(p, z), status) \in Nat
    BY DEF TpCount, Pipelines
  <1>4. (IF p.filled < ZBars THEN p.filled + 1 ELSE ZBars) \in 0..ZBars
    BY ControlsAssumption DEF Pipelines
  <1>5. (IF Known(p, z) = None THEN None ELSE RecoveryAge(p.entry, Known(p, z), status))
          = (IF Known(p, z) = None THEN None ELSE RecoveryAge(p.entry, z, status))
    BY <1>1
  <1>6. Fed(p, z, status) =
          [filled |-> IF p.filled < ZBars THEN p.filled + 1 ELSE ZBars,
           entry |-> [prev_z |-> Known(p, z), last_status |-> status,
                      age |-> IF Known(p, z) = None THEN None
                              ELSE RecoveryAge(p.entry, z, status)],
           tp_count |-> TpCount(p.tp_count, Known(p, z), status)]
    BY <1>5 DEF Fed, EntryUpdated
  <1> QED
    BY <1>1, <1>2, <1>3, <1>4, <1>6 DEF Pipelines, Ages

\* A pipeline that is fed a bar remembers it.
LEMMA FedFollows ==
    ASSUME NEW p \in Pipelines, NEW z \in Int, NEW status \in Statuses,
           NEW old, NEW n, NEW new, NEW m,
           Follows(p, old, n), Extends(new, m, old, n, z)
    PROVE  Follows(Fed(p, z, status), new, m)
  <1>1. /\ Fed(p, z, status).entry.prev_z \in {z, None}
        /\ Fed(p, z, status).tp_count = TpCount(p.tp_count, Known(p, z), status)
        /\ Known(p, z) \in {z, None}
    BY FedFields
  <1>2. m \in Nat /\ n \in Nat /\ m <= n + 1 /\ new[m] = z
    BY DEF Extends
  <1>3. ASSUME NEW i \in 1..m, i > m - Fed(p, z, status).tp_count
        PROVE  Abs(new[i]) <= TpZ
    <2>1. p.tp_count \in Nat
      BY DEF Pipelines
    <2>2. /\ Known(p, z) = z /\ Abs(z) <= TpZ
          /\ Fed(p, z, status).tp_count = p.tp_count + 1
      <3>1. Fed(p, z, status).tp_count # 0
        BY <1>2, <1>3
      <3> QED
        BY <1>1, <3>1, SignalRunnerAssumption DEF TpCount
    <2>3. CASE i = m
      BY <1>2, <2>2, <2>3
    <2>4. CASE i # m
      <3>1. i \in 1..(m - 1) /\ new[i] = old[i + n - m + 1]
        BY <1>2, <2>4 DEF Extends
      <3>2. i + n - m + 1 \in 1..n /\ i + n - m + 1 > n - p.tp_count
        BY <1>2, <1>3, <2>1, <2>2, <3>1
      <3> QED
        BY <3>1, <3>2 DEF Follows
    <2> QED
      BY <2>3, <2>4
  <1> QED
    BY <1>1, <1>2, <1>3 DEF Follows

----------------------------------------------------------------------------
(* The warm-up.                                                             *)

\* Naturals are well ordered.
LEMMA LeastNat ==
    ASSUME NEW T, T \subseteq Nat, T # {}
    PROVE  \E n \in T : \A m \in T : n <= m
  <1> DEFINE R == OpToRel(<, Nat)
  <1>1. IsWellFoundedOn(R, Nat)
    BY NatLessThanWellFounded
  <1>2. \E x \in T : \A y \in T : ~(<<y, x>> \in R)
    <2> HIDE DEF R
    <2> QED
      BY <1>1, WFMin
  <1>3. PICK x \in T : \A y \in T : ~(<<y, x>> \in R)
    BY <1>2
  <1>4. \A y \in T : <<y, x>> \in Nat \X Nat
    OBVIOUS
  <1>5. \A y \in T : ~(y < x)
    BY <1>3, <1>4 DEF OpToRel
  <1> QED
    BY <1>5

\* What a warm-up computes, bar by bar.
Fold(after, history, status, i) ==
    IF i = 0 THEN NewPipeline ELSE Fed(after[i - 1], history[i], status)

IsWarmUp(after, history, status, n) ==
    after = [i \in 0..n |-> IF i = 0 THEN NewPipeline
                            ELSE Fed(after[i - 1], history[i], status)]

LEMMA WarmUpExists ==
    ASSUME NEW history, NEW status, NEW n \in Nat
    PROVE  \E after : IsWarmUp(after, history, status, n)
  <1> DEFINE Missing == {k \in Nat : ~ \E after : IsWarmUp(after, history, status, k)}
  <1>1. ASSUME Missing # {}
        PROVE  FALSE
    <2>1. PICK k \in Missing : \A other \in Missing : k <= other
      BY <1>1, LeastNat
    <2>2. CASE k = 0
      <3>1. IsWarmUp([i \in 0..0 |-> NewPipeline], history, status, 0)
        BY DEF IsWarmUp, Fold
      <3> QED
        BY <2>1, <2>2, <3>1
    <2>3. CASE k # 0
      <3>1. k - 1 \in Nat /\ k \in Nat /\ ~(k <= k - 1)
        BY <2>1, <2>3
      <3>2. PICK shorter : IsWarmUp(shorter, history, status, k - 1)
        BY <2>1, <3>1
      <3> DEFINE longer == [i \in 0..k |-> IF i = k THEN Fed(shorter[k - 1], history[k], status)
                                           ELSE shorter[i]]
      <3>3. ASSUME NEW i \in 0..k
            PROVE  longer[i] = Fold(longer, history, status, i)
        <4>1. \A j \in 0..(k - 1) : /\ longer[j] = shorter[j]
                                    /\ shorter[j] = Fold(shorter, history, status, j)
          BY <3>1, <3>2 DEF IsWarmUp, Fold
        <4>2. CASE i = 0
          <5>1. 0 \in 0..(k - 1) /\ longer[0] = shorter[0]
            BY <3>1, <4>1
          <5>2. shorter[0] = NewPipeline
            BY <4>1, <5>1 DEF Fold
          <5> QED
            BY <4>2, <5>1, <5>2 DEF Fold
        <4>3. CASE i # 0
          <5>1. i - 1 \in 0..(k - 1) /\ longer[i - 1] = shorter[i - 1]
            BY <3>1, <4>1, <4>3
          <5>2. longer[i] = Fed(shorter[i - 1], history[i], status)
            <6>1. CASE i = k
              BY <6>1
            <6>2. CASE i # k
              <7>1. i \in 0..(k - 1)
                BY <3>1, <6>2
              <7>2. longer[i] = Fold(shorter, history, status, i)
                BY <4>1, <7>1
              <7> QED
                BY <4>3, <7>2 DEF Fold
            <6> QED
              BY <6>1, <6>2
          <5> QED
            BY <4>3, <5>1, <5>2 DEF Fold
        <4> QED
          BY <4>2, <4>3
      <3>4. IsWarmUp(longer, history, status, k)
        <4> HIDE DEF longer
        <4>1. longer = [i \in 0..k |-> longer[i]]
          BY DEF longer
        <4> QED
          BY <3>3, <4>1 DEF IsWarmUp, Fold
      <3> QED
        BY <2>1, <3>4
    <2> QED
      BY <2>2, <2>3
  <1> QED
    BY <1>1

\* A pipeline after some bars of a warm-up.
Rebuilt(p, history, status, i) ==
    /\ p \in Pipelines
    /\ Follows(p, history, i)
    /\ p.entry.age = None
    /\ p.entry.last_status = IF i = 0 THEN None ELSE status
    /\ p.filled = IF i < ZBars THEN i ELSE ZBars
    /\ p.entry.prev_z # None <=> i >= ZBars

\* One status for all of its bars: a warm-up never sees a cooldown end.
LEMMA RebuiltStep ==
    ASSUME NEW history \in Seq(Zs), NEW status \in Statuses,
           NEW i \in 1..Len(history), NEW p, Rebuilt(p, history, status, i - 1)
    PROVE  Rebuilt(Fed(p, history[i], status), history, status, i)
  <1> DEFINE q == Fed(p, history[i], status)
  <1>0. /\ p \in Pipelines /\ history[i] \in Int /\ i \in Nat \ {0}
        /\ p.filled \in 0..ZBars /\ ZBars \in Nat \ {0}
    <2>1. history[i] \in Zs /\ i \in Nat \ {0}
      OBVIOUS
    <2>2. history[i] \in Int
      BY <2>1, SignalRunnerAssumption
    <2>3. p \in Pipelines /\ p.filled \in 0..ZBars
      BY DEF Rebuilt, Pipelines
    <2> QED
      BY <2>1, <2>2, <2>3, ControlsAssumption
  <1>1. /\ q \in Pipelines
        /\ Known(p, history[i]) # None <=> p.filled + 1 >= ZBars
        /\ q.entry.prev_z = Known(p, history[i])
        /\ q.entry.last_status = status
        /\ q.entry.age = (IF Known(p, history[i]) = None THEN None
                          ELSE RecoveryAge(p.entry, history[i], status))
        /\ q.filled = (IF p.filled < ZBars THEN p.filled + 1 ELSE ZBars)
    BY <1>0, FedFields
  <1>2. Extends(history, i, history, i - 1, history[i])
    BY <1>0 DEF Extends
  <1>3. Follows(q, history, i)
    BY <1>0, <1>2, FedFollows DEF Rebuilt
  <1>4. RecoveryAge(p.entry, history[i], status) = None
    <2>1. status = "Flat" => p.entry.last_status # "Cooldown"
      BY SignalRunnerAssumption DEF Rebuilt, Statuses
    <2> QED
      BY <2>1 DEF Rebuilt, RecoveryAge
  <1> HIDE DEF q
  <1>5. /\ q.filled = IF i < ZBars THEN i ELSE ZBars
        /\ q.entry.prev_z # None <=> i >= ZBars
    BY <1>0, <1>1 DEF Rebuilt
  <1>6. Rebuilt(q, history, status, i)
    BY <1>0, <1>1, <1>3, <1>4, <1>5 DEF Rebuilt
  <1> QED
    BY <1>6 DEF q

LEMMA WarmedUpIs ==
    ASSUME NEW history \in Seq(Zs), NEW status \in Statuses
    PROVE  Rebuilt(WarmedUp(history, status), history, status, Len(history))
  <1> DEFINE n == Len(history)
             after == CHOOSE f : f = [i \in 0..Len(history) |->
                                        IF i = 0 THEN NewPipeline
                                        ELSE Fed(f[i - 1], history[i], status)]
  <1>1. WarmedUp(history, status) = after[n]
    BY DEF WarmedUp
  <1>2. n \in Nat
    OBVIOUS
  <1>3. IsWarmUp(after, history, status, n)
    <2>1. \E f : f = [i \in 0..Len(history) |->
                        IF i = 0 THEN NewPipeline
                        ELSE Fed(f[i - 1], history[i], status)]
      <3>1. PICK f : IsWarmUp(f, history, status, n)
        BY <1>2, WarmUpExists
      <3>2. f = [i \in 0..Len(history) |->
                   IF i = 0 THEN NewPipeline ELSE Fed(f[i - 1], history[i], status)]
        BY <3>1 DEF IsWarmUp
      <3> QED
        BY <3>2
    <2>2. after = [i \in 0..Len(history) |->
                     IF i = 0 THEN NewPipeline
                     ELSE Fed(after[i - 1], history[i], status)]
      BY <2>1
    <2> QED
      BY <2>2 DEF IsWarmUp
  <1> HIDE DEF after
  <1> DEFINE Wrong == {i \in Nat : i <= n /\ ~Rebuilt(after[i], history, status, i)}
  <1>4. ASSUME Wrong # {}
        PROVE  FALSE
    <2>1. PICK k \in Wrong : \A other \in Wrong : k <= other
      BY <1>4, LeastNat
    <2>2. k \in 0..n /\ after[k] = Fold(after, history, status, k)
      <3> HIDE DEF n
      <3>1. k \in 0..n
        BY <1>2, <2>1
      <3>2. \A i \in 0..n : after[i] = Fold(after, history, status, i)
        BY <1>3 DEF IsWarmUp, Fold
      <3> QED
        BY <3>1, <3>2
    <2>3. CASE k = 0
      <3>1. after[0] = NewPipeline
        BY <2>2, <2>3 DEF Fold
      <3>2. Rebuilt(NewPipeline, history, status, 0)
        BY NewPipelineOK, ControlsAssumption DEF Rebuilt
      <3> QED
        BY <2>1, <2>3, <3>1, <3>2
    <2>4. CASE k # 0
      <3>1. k - 1 \in Nat /\ k - 1 <= n /\ ~(k <= k - 1) /\ k \in 1..Len(history)
        BY <1>2, <2>2, <2>4
      <3>2. Rebuilt(after[k - 1], history, status, k - 1)
        BY <2>1, <3>1
      <3>3. after[k] = Fed(after[k - 1], history[k], status)
        BY <2>2, <2>4 DEF Fold
      <3>4. Rebuilt(after[k], history, status, k)
        BY <3>1, <3>2, <3>3, RebuiltStep
      <3> QED
        BY <2>1, <3>4
    <2> QED
      BY <2>3, <2>4
  <1>5. Rebuilt(after[n], history, status, n)
    BY <1>2, <1>4
  <1> QED
    BY <1>1, <1>5

----------------------------------------------------------------------------
(* The invariant: types, and a pipeline that knows what really occurred.    *)

TypeInv ==
    /\ mode \in Modes
    /\ bar \in 0..MaxBar
    /\ zs \in Seq(Zs) /\ Len(zs) = WarmupBars
    /\ up \in BOOLEAN
    /\ Sound(state) /\ Sound(row)
    /\ pipeline \in Pipelines
    /\ late \in 0..MaxLate
    /\ seen.zs \in Seq(Zs) /\ Len(seen.zs) = WarmupBars
    /\ seen.status \in Statuses \cup {None}
    /\ since \in Nat \cup {None}
    /\ ~up => state = DefaultState /\ pipeline = NewPipeline

PipelineInv ==
    /\ Follows(pipeline, seen.zs, WarmupBars)
    /\ Aged(pipeline, seen.zs, WarmupBars, since)
    /\ up /\ pipeline.entry.last_status = "Cooldown" => state.status = "Cooldown"

SignalInv == TypeInv /\ PipelineInv

\* What a run that goes on makes of the record.
Result(z, s) ==
    /\ Sound(s)
    /\ \/ s = Judged /\ Signalled(z).exit = None
       \/ /\ Judged.status = "Flat" /\ Signalled(z).entry # None
          /\ s.status \in {"PendingEntry", "InPosition"}
       \/ Judged.status = "InPosition" /\ s = Exited(z)

\* A run ends with its process, or with a pipeline that was fed its bar.
RunEnds(z) ==
    /\ Run(z)
    /\ Sound(row')
    /\ \/ Down
       \/ /\ up' = TRUE
          /\ pipeline' = Fed(pipeline, z, Judged.status)
          /\ Result(z, state')

LEMMA JudgedSound ==
    ASSUME TypeInv
    PROVE  /\ Sound(Judged) /\ Judged.status \in Statuses
           /\ Judged = state \/ (CooldownOver(state, bar) /\ Judged.status = "Flat")
           /\ mode # "backtest" /\ CooldownOver(state, bar) => Judged.status = "Flat"
  <1>1. bar \in Nat /\ Sound(state)
    BY SignalRunnerAssumption DEF TypeInv
  <1>2. Sound(Judged)
    BY <1>1, UpdateSound DEF Judged
  <1>3. /\ Judged = state \/ (CooldownOver(state, bar) /\ Judged.status = "Flat")
        /\ mode # "backtest" /\ CooldownOver(state, bar) => Judged.status = "Flat"
    BY <1>1, UpdateSound DEF Judged
  <1> QED
    BY <1>2, <1>3 DEF Sound, StrategyStates

LEMMA Signals ==
    ASSUME TypeInv, NEW z
    PROVE  /\ Signalled(z).entry \in TradeDirections \cup {None}
           /\ Signalled(z).entry # None => Judged.status = "Flat"
           /\ Signalled(z).exit \in ExitReasons \cup {None}
           /\ Signalled(z).exit # None => Judged.status = "InPosition"
           /\ Signalled(z).entry = EntrySignal(pipeline.entry, Known(pipeline, z), Judged.status)
           /\ Signalled(z).exit =
                ExitSignal(pipeline.tp_count, Known(pipeline, z), Judged.status, Held)
           /\ Signalled(z).ran = TRUE
  BY DEF Signalled, EntrySignal, ExitSignal, SignalDirection, TradeDirections, ExitReasons

LEMMA EnteredSound ==
    ASSUME TypeInv, NEW z, Signalled(z).entry # None
    PROVE  /\ Sound(Entered(z)) /\ Entered(z).status = "InPosition"
           /\ LET q == EnterPending(Judged, [direction |-> Signalled(z).entry,
                                             submitted_at |-> bar])
              IN  Sound(q) /\ q.status = "PendingEntry"
  <1>1. /\ [direction |-> Signalled(z).entry, entry_time |-> bar] \in Positions
        /\ [direction |-> Signalled(z).entry, submitted_at |-> bar] \in PendingEntries
    BY Signals, SnapshotsAssumption DEF TypeInv
  <1> QED
    BY <1>1, JudgedSound, EnterSound, EnterPendingSound DEF Entered

LEMMA Runs ==
    ASSUME TypeInv, NEW z \in Zs,
           \/ Quiet(z) \/ EnterPosition(z) \/ EnterResting(z) \/ ExitPosition(z)
           \/ OrdersFail(z)
           \/ ReplayQuiet(z) \/ ReplayEntry(z) \/ ReplayExit(z) \/ ReplayFails(z)
    PROVE  RunEnds(z)
  <1>0. Sound(Judged) /\ bar \in Nat /\ Sound(row)
    BY JudgedSound, SignalRunnerAssumption DEF TypeInv
  <1>1. Sound(Exited(z))
    BY <1>0, ExitSound DEF Exited
  <1>2. ASSUME NEW s, Completed(z, s), Result(z, s), LiveRun(z)
        PROVE  RunEnds(z)
    BY <1>2 DEF Completed, RunEnds, LiveRun, Result
  <1>3. ASSUME NEW s, ReplayBar(z, s), Result(z, s)
        PROVE  RunEnds(z)
    BY <1>0, <1>3 DEF ReplayBar, RunEnds, Run
  <1>4. CASE Quiet(z) \/ ReplayQuiet(z)
    <2>1. Result(z, Judged)
      BY <1>0, <1>4 DEF Quiet, ReplayQuiet, Result
    <2> QED
      BY <1>2, <1>3, <1>4, <2>1 DEF Quiet, ReplayQuiet
  <1>5. CASE EnterPosition(z) \/ ReplayEntry(z)
    <2>1. Result(z, Entered(z))
      BY <1>5, Signals, EnteredSound DEF EnterPosition, ReplayEntry, MayEnter, Result
    <2> QED
      BY <1>2, <1>3, <1>5, <2>1 DEF EnterPosition, ReplayEntry
  <1>6. CASE EnterResting(z)
    <2>1. Result(z, EnterPending(Judged, [direction |-> Signalled(z).entry,
                                          submitted_at |-> bar]))
      BY <1>6, Signals, EnteredSound DEF EnterResting, MayEnter, Result
    <2> QED
      BY <1>2, <1>6, <2>1 DEF EnterResting
  <1>7. CASE ExitPosition(z) \/ ReplayExit(z)
    <2>1. Result(z, Exited(z))
      BY <1>1, <1>7, Signals DEF ExitPosition, ReplayExit, Result
    <2> QED
      BY <1>2, <1>3, <1>7, <2>1 DEF ExitPosition, ReplayExit
  <1>8. CASE OrdersFail(z)
    BY <1>0, <1>8 DEF OrdersFail, Abandoned, LiveRun, RunEnds
  <1>9. CASE ReplayFails(z)
    BY <1>0, <1>9 DEF ReplayFails, RunEnds
  <1> QED
    BY <1>4, <1>5, <1>6, <1>7, <1>8, <1>9

\* A window after a bar.
LEMMA Slides ==
    ASSUME NEW history \in Seq(Zs), Len(history) = WarmupBars, NEW z \in Zs
    PROVE  LET new == Slid(history, z)
           IN  /\ new \in Seq(Zs) /\ Len(new) = WarmupBars
               /\ WarmupBars > 0 =>
                    /\ new[WarmupBars] = z
                    /\ \A i \in 1..(WarmupBars - 1) : new[i] = history[i + 1]
                    /\ Extends(new, WarmupBars, history, WarmupBars, z)
  <1> DEFINE new == Slid(history, z)
  <1>0. WarmupBars \in Nat
    BY SignalRunnerAssumption
  <1>1. CASE WarmupBars = 0
    BY <1>0, <1>1 DEF Slid
  <1>2. CASE WarmupBars > 0
    <2>1. new = Append(Tail(history), z)
      BY <1>2 DEF Slid
    <2>2. Tail(history) \in Seq(Zs) /\ Len(Tail(history)) = WarmupBars - 1
      BY <1>0, <1>2
    <2>3. \A i \in 1..(WarmupBars - 1) : Tail(history)[i] = history[i + 1]
      BY <1>0, <1>2
    <2> HIDE DEF new
    <2>4. /\ new \in Seq(Zs) /\ Len(new) = WarmupBars
          /\ new[WarmupBars] = z
          /\ \A i \in 1..(WarmupBars - 1) : new[i] = Tail(history)[i]
      BY <1>0, <1>2, <2>1, <2>2
    <2>5. \A i \in 1..(WarmupBars - 1) : new[i] = history[i + 1]
      BY <2>3, <2>4
    <2>6. Extends(new, WarmupBars, history, WarmupBars, z)
      <3>1. \A i \in 1..(WarmupBars - 1) : i + WarmupBars - WarmupBars + 1 = i + 1
        BY <1>0
      <3> QED
        BY <1>0, <1>2, <2>4, <2>5, <3>1 DEF Extends
    <2> QED
      BY <2>4, <2>5, <2>6 DEF new
  <1> QED
    BY <1>0, <1>1, <1>2

\* Bar and window after a bar.
LEMMA WindowMoves ==
    ASSUME TypeInv, NEW z \in Zs, BarOver(z)
    PROVE  /\ bar' \in 0..MaxBar /\ bar' <= bar + 1 /\ bar <= bar'
           /\ zs' \in Seq(Zs) /\ Len(zs') = WarmupBars
           /\ WarmupBars > 0 => zs'[WarmupBars] = z
  <1>1. MaxBar \in Nat /\ bar \in 0..MaxBar /\ zs \in Seq(Zs) /\ Len(zs) = WarmupBars
    BY SignalRunnerAssumption DEF TypeInv
  <1>2. bar' \in 0..MaxBar /\ bar' <= bar + 1 /\ bar <= bar'
    BY <1>1 DEF BarOver
  <1>3. zs' = Slid(zs, z)
    BY DEF BarOver
  <1> QED
    BY <1>1, <1>2, <1>3, Slides

\* What the process has been given after a run.
LEMMA RunGives ==
    ASSUME TypeInv, NEW z \in Zs, Run(z)
    PROVE  /\ seen'.zs \in Seq(Zs) /\ Len(seen'.zs) = WarmupBars
           /\ seen'.status = Judged.status
           /\ WarmupBars > 0 =>
                /\ seen'.zs[WarmupBars] = z
                /\ \A i \in 1..(WarmupBars - 1) : seen'.zs[i] = seen.zs[i + 1]
                /\ Extends(seen'.zs, WarmupBars, seen.zs, WarmupBars, z)
  <1>1. seen.zs \in Seq(Zs) /\ Len(seen.zs) = WarmupBars
    BY DEF TypeInv
  <1>2. seen' = Given(Slid(seen.zs, z), Judged.status)
    BY DEF Run
  <1>3. PICK new : new = Slid(seen.zs, z)
    OBVIOUS
  <1>4. seen'.zs = new /\ seen'.status = Judged.status
    BY <1>2, <1>3 DEF Given
  <1>5. /\ new \in Seq(Zs) /\ Len(new) = WarmupBars
        /\ WarmupBars > 0 =>
             /\ new[WarmupBars] = z
             /\ \A i \in 1..(WarmupBars - 1) : new[i] = seen.zs[i + 1]
             /\ Extends(new, WarmupBars, seen.zs, WarmupBars, z)
    BY <1>1, <1>3, Slides
  <1> QED
    BY <1>4, <1>5

\* The count of runs since a release.
LEMMA RunCounts ==
    ASSUME TypeInv, NEW z, Run(z)
    PROVE  /\ since' \in Nat \cup {None}
           /\ CooldownOver(state, bar) => since' = 1
           /\ since # None => since' \in Nat /\ (since' = 1 \/ since' <= since + 1)
  <1>1. since' = RunsSince /\ since \in Nat \cup {None}
        /\ StaleCross.max_age_bars \in Nat
    BY ControlsAssumption DEF Run, TypeInv
  <1> QED
    BY <1>1, NoneAssumption DEF RunsSince

\* A recovery age is counted from the bar that released the cooldown.
LEMMA RecoveryAges ==
    ASSUME NEW d, NEW z, NEW status,
           d.age \in Ages, RecoveryAge(d, z, status) # None,
           RecoveryAge(d, z, status) <= StaleCross.max_age_bars
    PROVE  /\ status = "Flat" /\ InZone(z)
           /\ \/ d.last_status = "Cooldown" /\ RecoveryAge(d, z, status) = 1
              \/ /\ d.age # None /\ d.age <= StaleCross.max_age_bars
                 /\ RecoveryAge(d, z, status) = d.age + 1
  <1>1. status = "Flat" /\ InZone(z)
    BY DEF RecoveryAge
  <1>2. CASE d.last_status = "Cooldown"
    BY <1>1, <1>2 DEF RecoveryAge
  <1>3. CASE d.last_status # "Cooldown"
    <2>1. d.age # None /\ d.age \in Nat
      BY <1>1, <1>3 DEF RecoveryAge, Ages
    <2>2. StaleCross.max_age_bars \in Nat
      BY ControlsAssumption
    <2>3. ~(d.age > StaleCross.max_age_bars)
      BY <1>1, <1>3, <2>1, <2>2 DEF RecoveryAge
    <2> QED
      BY <1>1, <1>3, <2>1, <2>2, <2>3 DEF RecoveryAge
  <1> QED
    BY <1>2, <1>3

\* What a run feeds keeps the pipeline in step with what occurred.
LEMMA RunFeeds ==
    ASSUME SignalInv, NEW z \in Zs, Run(z)
    PROVE  LET p == Fed(pipeline, z, Judged.status)
           IN  /\ p \in Pipelines
               /\ Follows(p, seen'.zs, WarmupBars)
               /\ Aged(p, seen'.zs, WarmupBars, since')
  <1> DEFINE p == Fed(pipeline, z, Judged.status)
  <1>0. /\ z \in Int /\ WarmupBars \in Nat /\ bar \in Nat /\ BarOver(z) /\ up
        /\ pipeline \in Pipelines /\ Judged.status \in Statuses
        /\ TypeInv /\ PipelineInv
    BY SignalRunnerAssumption, JudgedSound DEF Run, SignalInv, TypeInv
  <1>1. p \in Pipelines
    BY <1>0, FedFields
  <1>2. Follows(p, seen'.zs, WarmupBars)
    <2>1. CASE WarmupBars = 0
      BY <2>1 DEF Follows
    <2>2. CASE WarmupBars > 0
      <3>1. Extends(seen'.zs, WarmupBars, seen.zs, WarmupBars, z)
        BY <1>0, <2>2, RunGives
      <3> QED
        BY <1>0, <3>1, FedFollows DEF PipelineInv
    <2> QED
      BY <1>0, <2>1, <2>2
  <1>3. Aged(p, seen'.zs, WarmupBars, since')
    <2> DEFINE age == RecoveryAge(pipeline.entry, z, Judged.status)
    <2>1. SUFFICES ASSUME age # None, age <= StaleCross.max_age_bars, p.entry.age = age
                   PROVE  /\ since' # None /\ since' <= age
                          /\ \A i \in 1..WarmupBars :
                               i > WarmupBars - age => InZone(seen'.zs[i])
      <3>1. p.entry.age = (IF Known(pipeline, z) = None THEN None ELSE age)
        BY <1>0, FedFields
      <3> HIDE DEF p, age
      <3>2. p.entry.age # None => p.entry.age = age
        BY <3>1
      <3> QED
        BY <3>2 DEF Aged
    <2>2. /\ Judged.status = "Flat" /\ InZone(z)
          /\ \/ pipeline.entry.last_status = "Cooldown" /\ age = 1
             \/ /\ pipeline.entry.age # None
                /\ pipeline.entry.age <= StaleCross.max_age_bars
                /\ age = pipeline.entry.age + 1
      <3>1. pipeline.entry.age \in Ages
        BY <1>0 DEF Pipelines
      <3> QED
        BY <2>1, <3>1, RecoveryAges
    <2> HIDE DEF age
    <2>3. WarmupBars > 0 => seen'.zs[WarmupBars] = z
      BY <1>0, RunGives
    <2>4. /\ CooldownOver(state, bar) => since' = 1
          /\ since # None => since' \in Nat /\ (since' = 1 \/ since' <= since + 1)
      BY <1>0, RunCounts
    <2>5. CASE pipeline.entry.last_status = "Cooldown" /\ age = 1
      <3>1. state.status = "Cooldown"
        BY <1>0, <2>5 DEF PipelineInv
      <3>2. CooldownOver(state, bar)
        BY <1>0, <2>2, <3>1, JudgedSound
      <3>3. since' = 1 /\ 1 # None
        BY <2>4, <3>2, NoneAssumption
      <3>4. \A i \in 1..WarmupBars : i > WarmupBars - 1 => i = WarmupBars /\ WarmupBars > 0
        BY <1>0
      <3> QED
        BY <1>0, <2>2, <2>3, <2>5, <3>3, <3>4
    <2>6. CASE /\ pipeline.entry.age # None
               /\ pipeline.entry.age <= StaleCross.max_age_bars
               /\ age = pipeline.entry.age + 1
      <3>1. pipeline.entry.age \in Nat \ {0}
        BY <1>0, <2>6 DEF Pipelines, Ages
      <3>2. /\ since # None /\ since \in Nat /\ since <= pipeline.entry.age
            /\ \A i \in 1..WarmupBars :
                 i > WarmupBars - pipeline.entry.age => InZone(seen.zs[i])
        BY <1>0, <2>6 DEF PipelineInv, Aged, TypeInv
      <3>3. since' # None /\ since' <= age
        BY <2>4, <2>6, <3>1, <3>2, NoneAssumption
      <3>4. ASSUME NEW i \in 1..WarmupBars, i > WarmupBars - age
            PROVE  InZone(seen'.zs[i])
        <4>1. CASE i = WarmupBars
          BY <1>0, <2>2, <2>3, <3>4, <4>1
        <4>2. CASE i # WarmupBars
          <5>1. /\ i \in 1..(WarmupBars - 1) /\ i + 1 \in 1..WarmupBars /\ WarmupBars > 0
                /\ i + 1 > WarmupBars - pipeline.entry.age
            BY <1>0, <2>6, <3>1, <3>4, <4>2
          <5>2. seen'.zs[i] = seen.zs[i + 1]
            BY <1>0, <5>1, RunGives
          <5> QED
            BY <3>2, <5>1, <5>2
        <4> QED
          BY <4>1, <4>2
      <3> QED
        BY <3>3, <3>4
    <2> QED
      BY <2>2, <2>5, <2>6
  <1> QED
    BY <1>1, <1>2, <1>3

----------------------------------------------------------------------------
(* Every step keeps the invariant.                                          *)

LEMMA SignalInit == Init => SignalInv
  <1> SUFFICES ASSUME Init PROVE SignalInv
    OBVIOUS
  <1>1. bar \in 0..MaxBar /\ WarmupBars \in Nat
    BY SignalRunnerAssumption DEF Init
  <1>2. zs \in Seq(Zs) /\ Len(zs) = WarmupBars
    BY <1>1 DEF Init
  <1>3. TypeInv
    <2>1. seen.zs = zs /\ seen.status = None
      BY DEF Init, Given
    <2>2. late \in 0..MaxLate
      BY SignalRunnerAssumption DEF Init
    <2>3. pipeline \in Pipelines /\ Sound(state) /\ Sound(row)
      BY DefaultSound, NewPipelineOK DEF Init
    <2>4. mode \in Modes /\ up \in BOOLEAN /\ since \in Nat \cup {None}
      BY DEF Init
    <2>5. state = DefaultState /\ pipeline = NewPipeline
      BY DEF Init
    <2> QED
      BY <1>1, <1>2, <2>1, <2>2, <2>3, <2>4, <2>5 DEF TypeInv
  <1>4. PipelineInv
    BY <1>1, NewPipelineOK DEF Init, PipelineInv, Aged
  <1> QED
    BY <1>3, <1>4 DEF SignalInv

\* A process that ends leaves nothing behind but its row.
LEMMA DownKeeps ==
    ASSUME TypeInv, NEW z \in Zs, BarOver(z), Down, UNCHANGED mode, Sound(row'),
           since' \in Nat \cup {None}, UNCHANGED late,
           seen'.zs \in Seq(Zs), Len(seen'.zs) = WarmupBars,
           seen'.status \in Statuses \cup {None}
    PROVE  SignalInv'
  <1>1. bar' \in 0..MaxBar /\ zs' \in Seq(Zs) /\ Len(zs') = WarmupBars
    BY WindowMoves
  <1>2. TypeInv'
    BY <1>1, DefaultSound, NewPipelineOK DEF TypeInv, Down
  <1>3. PipelineInv'
    BY NewPipelineOK, SignalRunnerAssumption DEF PipelineInv, Aged, Down
  <1> QED
    BY <1>2, <1>3 DEF SignalInv

\* Only a run that stays in its cooldown leaves a pipeline that saw one.
LEMMA CooldownStays ==
    ASSUME TypeInv, NEW z, NEW s, Result(z, s), Judged.status = "Cooldown"
    PROVE  s = state /\ state.status = "Cooldown"
  BY JudgedSound DEF Result

LEMMA RunKeeps ==
    ASSUME SignalInv, NEW z \in Zs, RunEnds(z)
    PROVE  SignalInv'
  <1>0. /\ TypeInv /\ Run(z) /\ Sound(row') /\ bar \in Nat /\ BarOver(z)
        /\ UNCHANGED <<mode, late>>
    BY SignalRunnerAssumption DEF RunEnds, Run, SignalInv, TypeInv
  <1>3. /\ since' \in Nat \cup {None}
        /\ seen'.zs \in Seq(Zs) /\ Len(seen'.zs) = WarmupBars
        /\ seen'.status \in Statuses \cup {None} /\ seen'.status = Judged.status
    BY <1>0, RunGives, RunCounts, JudgedSound
  <1>1. CASE Down
    BY <1>0, <1>1, <1>3, DownKeeps
  <1>2. CASE /\ up' = TRUE
             /\ pipeline' = Fed(pipeline, z, Judged.status)
             /\ Result(z, state')
    <2>1. /\ pipeline' \in Pipelines
          /\ Follows(pipeline', seen'.zs, WarmupBars)
          /\ Aged(pipeline', seen'.zs, WarmupBars, since')
      BY <1>0, <1>2, RunFeeds
    <2>2. bar' \in 0..MaxBar /\ zs' \in Seq(Zs) /\ Len(zs') = WarmupBars
      BY <1>0, WindowMoves
    <2>3. TypeInv'
      BY <1>0, <1>2, <1>3, <2>1, <2>2 DEF TypeInv, Result
    <2>4. pipeline'.entry.last_status = "Cooldown" => state'.status = "Cooldown"
      <3>1. pipeline'.entry.last_status = Judged.status
        <4>1. pipeline \in Pipelines /\ z \in Int /\ Judged.status \in Statuses
          BY <1>0, JudgedSound, SignalRunnerAssumption DEF TypeInv
        <4> QED
          BY <1>2, <4>1, FedFields
      <3> QED
        BY <1>0, <1>2, <3>1, CooldownStays
    <2>5. PipelineInv'
      BY <2>1, <2>4 DEF PipelineInv
    <2> QED
      BY <2>3, <2>5 DEF SignalInv
  <1> QED
    BY <1>1, <1>2 DEF RunEnds

\* A start: recover_state, and a pipeline rebuilt from the window.
LEMMA LaunchFacts ==
    ASSUME TypeInv, Launch
    PROVE  /\ Sound(state') /\ state'.status \in Statuses
           /\ Rebuilt(pipeline', zs, state'.status, WarmupBars)
           /\ since' \in Nat \cup {None}
           /\ seen'.zs = zs
           /\ seen'.status = IF WarmupBars = 0 THEN None ELSE state'.status
  <1>1. bar \in Nat /\ zs \in Seq(Zs) /\ Len(zs) = WarmupBars
    BY SignalRunnerAssumption DEF TypeInv
  <1>2. Sound(state')
    BY <1>1, UpdateSound DEF Launch, TypeInv
  <1>3. state'.status \in Statuses
    BY <1>2 DEF Sound, StrategyStates
  <1>4. pipeline' = WarmedUp(zs, state'.status)
    BY DEF Launch
  <1>5. Rebuilt(pipeline', zs, state'.status, WarmupBars)
    BY <1>1, <1>3, <1>4, WarmedUpIs
  <1> QED
    BY <1>1, <1>2, <1>3, <1>5 DEF Launch, TypeInv, Given

LEMMA LaunchKeeps ==
    ASSUME SignalInv, Launch
    PROVE  SignalInv'
  <1>0. /\ TypeInv /\ WarmupBars \in Nat
        /\ Sound(state') /\ state'.status \in Statuses
        /\ Rebuilt(pipeline', zs, state'.status, WarmupBars)
        /\ since' \in Nat \cup {None} /\ seen'.zs = zs
        /\ seen'.status \in Statuses \cup {None}
    BY LaunchFacts, SignalRunnerAssumption DEF SignalInv
  <1>1. TypeInv'
    BY <1>0 DEF TypeInv, Launch, Rebuilt
  <1>2. Follows(pipeline', seen'.zs, WarmupBars) /\ Aged(pipeline', seen'.zs, WarmupBars, since')
    BY <1>0 DEF Rebuilt, Aged, Launch
  <1>3. pipeline'.entry.last_status = "Cooldown" => state'.status = "Cooldown"
    BY <1>0, SignalRunnerAssumption DEF Rebuilt, Statuses
  <1> QED
    BY <1>1, <1>2, <1>3 DEF SignalInv, PipelineInv

LEMMA SettleFacts ==
    ASSUME TypeInv, Settle
    PROVE  /\ state.status = "PendingEntry"
           /\ Sound(state') /\ state'.status \in {"Flat", "InPosition"}
  <1>1. Sound(state) /\ bar \in 0..MaxBar /\ state.status = "PendingEntry"
    BY DEF TypeInv, Settle
  <1>2. state.pending_entry \in PendingEntries
    BY <1>1 DEF Sound, HydrateAccepts, StrategyStates
  <1>3. [direction |-> state.pending_entry.direction, entry_time |-> bar] \in Positions
    BY <1>1, <1>2, SnapshotsAssumption
  <1> QED
    BY <1>1, <1>3, EnterSound, ForceFlatSound DEF Settle

LEMMA SignalStep == SignalInv /\ [Next]_vars => SignalInv'
  <1> SUFFICES ASSUME SignalInv, [Next]_vars PROVE SignalInv'
    OBVIOUS
  <1>0. TypeInv /\ PipelineInv /\ WarmupBars \in Nat
    BY SignalRunnerAssumption DEF SignalInv
  <1>1. CASE Launch
    BY <1>1, LaunchKeeps
  <1>2. CASE Settle
    <2>1. /\ state.status = "PendingEntry"
          /\ Sound(state') /\ state'.status \in {"Flat", "InPosition"}
      BY <1>0, <1>2, SettleFacts
    <2>2. TypeInv'
      BY <1>0, <1>2, <2>1 DEF TypeInv, Settle
    <2>3. PipelineInv'
      BY <1>0, <1>2, <2>1 DEF PipelineInv, Settle
    <2> QED
      BY <2>2, <2>3 DEF SignalInv
  <1>3. CASE StartBacktest
    <2>1. TypeInv'
      BY <1>0, <1>3, DefaultSound, NewPipelineOK DEF TypeInv, StartBacktest, Given
    <2>2. pipeline' = NewPipeline
      BY <1>3 DEF StartBacktest
    <2>3. Follows(pipeline', seen'.zs, WarmupBars) /\ pipeline'.entry.age = None
      BY <1>0, <2>2, NewPipelineOK
    <2>4. pipeline'.entry.last_status # "Cooldown"
      BY <2>2, NewPipelineOK, SignalRunnerAssumption DEF Statuses
    <2>5. PipelineInv'
      BY <2>3, <2>4 DEF PipelineInv, Aged
    <2> QED
      BY <2>1, <2>5 DEF SignalInv
  <1>4. ASSUME NEW z \in Zs, SkipBar(z)
        PROVE  SignalInv'
    <2>1. Down
      BY <1>0, <1>4 DEF SkipBar, Down, TypeInv
    <2> QED
      BY <1>0, <1>4, <2>1, DownKeeps DEF SkipBar, TypeInv
  <1>5. ASSUME NEW z \in Zs, LoseBar(z)
        PROVE  SignalInv'
    <2>1. BarOver(z) /\ Down /\ UNCHANGED <<mode, late, seen, since>>
      BY <1>5 DEF LoseBar
    <2>2. Sound(row')
      BY <1>0, <1>5 DEF LoseBar, TypeInv
    <2>3. /\ since' \in Nat \cup {None}
          /\ seen'.zs \in Seq(Zs) /\ Len(seen'.zs) = WarmupBars
          /\ seen'.status \in Statuses \cup {None}
      BY <1>0, <2>1 DEF TypeInv
    <2> QED
      BY <1>0, <2>1, <2>2, <2>3, DownKeeps
  <1>6. ASSUME NEW z \in Zs, MissTick(z)
        PROVE  SignalInv'
    <2>1. /\ bar' \in 0..MaxBar /\ zs' \in Seq(Zs) /\ Len(zs') = WarmupBars
          /\ late' \in 0..MaxLate
      BY <1>0, <1>6, WindowMoves, SignalRunnerAssumption DEF MissTick, TypeInv
    <2>2. UNCHANGED <<mode, up, state, row, pipeline, seen, since>>
      BY <1>6 DEF MissTick
    <2>3. TypeInv'
      BY <1>0, <2>1, <2>2 DEF TypeInv
    <2> QED
      BY <1>0, <2>2, <2>3 DEF SignalInv, PipelineInv
  <1>7. ASSUME NEW z \in Zs,
               \/ Quiet(z) \/ EnterPosition(z) \/ EnterResting(z) \/ ExitPosition(z)
               \/ OrdersFail(z)
               \/ ReplayQuiet(z) \/ ReplayEntry(z) \/ ReplayExit(z) \/ ReplayFails(z)
        PROVE  SignalInv'
    BY <1>0, <1>7, Runs, RunKeeps
  <1>8. CASE UNCHANGED vars
    BY <1>0, <1>8 DEF vars, SignalInv, TypeInv, PipelineInv
  <1> QED
    BY <1>1, <1>2, <1>3, <1>4, <1>5, <1>6, <1>7, <1>8 DEF Next

LEMMA SignalInvariant == Spec => []SignalInv
  BY SignalInit, SignalStep, PTL DEF Spec

\* The record, the window and the pipeline stay well formed, whatever is missed,
\* fails or is started again.
THEOREM SignalTypes == Spec => []TypeOK
  <1>1. SignalInv => TypeOK
    BY DEF SignalInv, TypeInv, TypeOK, Sound, Pipelines
  <1> QED
    BY <1>1, SignalInvariant, PTL

----------------------------------------------------------------------------
(* Nothing is invented.                                                     *)

\* A process outside of its runs: it is down, is started, or a tick came too late.
Idle ==
    /\ signal' = NoSignal
    /\ \/ UNCHANGED mode /\ Down
       \/ Launch
       \/ StartBacktest
       \/ UNCHANGED <<mode, up, state, pipeline, seen>>

\* Outside of its runs a process signals nothing.
LEMMA Between ==
    ASSUME TypeInv, [Next]_vars
    PROVE  \/ \E z \in Zs : RunEnds(z)
           \/ Idle
           \/ UNCHANGED <<mode, zs, seen, since, signal>> /\ (Settle \/ UNCHANGED vars)
  <1>1. ASSUME NEW z \in Zs, SkipBar(z) \/ LoseBar(z) \/ MissTick(z)
        PROVE  Idle
    BY <1>1 DEF SkipBar, LoseBar, MissTick, Down, TypeInv, Idle
  <1>2. ASSUME NEW z \in Zs,
               \/ Quiet(z) \/ EnterPosition(z) \/ EnterResting(z) \/ ExitPosition(z)
               \/ OrdersFail(z)
               \/ ReplayQuiet(z) \/ ReplayEntry(z) \/ ReplayExit(z) \/ ReplayFails(z)
        PROVE  RunEnds(z)
    BY <1>2, Runs
  <1>3. CASE Launch \/ StartBacktest
    BY <1>3 DEF Launch, StartBacktest, Idle
  <1>4. CASE Settle
    BY <1>4 DEF Settle
  <1>5. CASE UNCHANGED vars
    BY <1>5 DEF vars
  <1> QED
    BY <1>1, <1>2, <1>3, <1>4, <1>5 DEF Next

\* A take profit has its confirmations in the window.
LEMMA TakeProfitRun ==
    ASSUME SignalInv, NEW z \in Zs, Run(z), Signalled(z).exit = "TakeProfit",
           NEW i \in 1..WarmupBars, i > WarmupBars - ConfirmBarsTp
    PROVE  Abs(seen'.zs[i]) <= TpZ
  <1>0. /\ TypeInv /\ PipelineInv /\ z \in Int /\ WarmupBars \in Nat
        /\ ConfirmBarsTp \in Nat /\ pipeline.tp_count \in Nat /\ BarOver(z)
        /\ pipeline \in Pipelines /\ Judged.status \in Statuses
    BY SignalRunnerAssumption, ControlsAssumption, JudgedSound
       DEF SignalInv, TypeInv, Pipelines, Run
  <1>1. Known(pipeline, z) # None /\ TpConfirmed(pipeline.tp_count, Known(pipeline, z))
    <2>1. ExitSignal(pipeline.tp_count, Known(pipeline, z), Judged.status, Held) = "TakeProfit"
      BY <1>0, Signals
    <2>2. None # "TakeProfit"
      BY SignalRunnerAssumption DEF ExitReasons
    <2> QED
      BY <2>1, <2>2 DEF ExitSignal
  <1>2. Known(pipeline, z) = z
    BY <1>0, <1>1, FedFields
  <1>3. Abs(z) <= TpZ /\ pipeline.tp_count + 1 >= ConfirmBarsTp
    BY <1>1, <1>2 DEF TpConfirmed
  <1>4. WarmupBars > 0
    BY <1>0
  <1>5. CASE i = WarmupBars
    BY <1>0, <1>3, <1>4, <1>5, RunGives
  <1>6. CASE i # WarmupBars
    <2>1. /\ i \in 1..(WarmupBars - 1) /\ i + 1 \in 1..WarmupBars
          /\ i + 1 > WarmupBars - pipeline.tp_count
      BY <1>0, <1>3, <1>6
    <2>2. seen'.zs[i] = seen.zs[i + 1]
      BY <1>0, <1>4, <2>1, RunGives
    <2> QED
      BY <1>0, <2>1, <2>2 DEF PipelineInv, Follows
  <1> QED
    BY <1>5, <1>6

\* ExitSignalDetector: a take profit needs confirm_bars_tp bars in a row at or
\* below tp_z, whatever a restart fed again and whatever tick came too late.
THEOREM TakeProfitIsConfirmed == Spec => []TakeProfitConfirmed
  <1>1. Init => TakeProfitConfirmed
    BY SignalRunnerAssumption DEF Init, NoSignal, TakeProfitConfirmed, ExitReasons
  <1>2. SignalInv /\ TakeProfitConfirmed /\ [Next]_vars => TakeProfitConfirmed'
    <2> SUFFICES ASSUME SignalInv, TakeProfitConfirmed, [Next]_vars
                 PROVE  TakeProfitConfirmed'
      OBVIOUS
    <2>1. ASSUME NEW z \in Zs, RunEnds(z)
          PROVE  TakeProfitConfirmed'
      <3>1. Run(z) /\ signal' = Signalled(z)
        BY <2>1 DEF RunEnds, Run
      <3> QED
        BY <3>1, TakeProfitRun DEF TakeProfitConfirmed
    <2>2. CASE Idle
      BY <2>2, SignalRunnerAssumption DEF Idle, NoSignal, TakeProfitConfirmed, ExitReasons
    <2>3. CASE UNCHANGED <<seen, signal>>
      BY <2>3 DEF TakeProfitConfirmed
    <2> QED
      BY <2>1, <2>2, <2>3, Between DEF SignalInv
  <1> QED
    BY <1>1, <1>2, SignalInvariant, PTL DEF Spec

\* An entry comes with a crossing, at an extreme, or in a recovery.
LEMMA EntryCases ==
    ASSUME SignalInv, NEW z \in Zs, Run(z), 1 < WarmupBars, Signalled(z).entry # None
    PROVE  /\ Known(pipeline, z) = z
           /\ \/ Abs(seen'.zs[WarmupBars - 1]) < EntryZ
              \/ /\ PersistentExtreme.enabled
                 /\ PersistentExtreme.min_abs_z <= Abs(seen'.zs[WarmupBars])
                 /\ SignalDirection(seen'.zs[WarmupBars]) \in PersistentExtreme.directions
              \/ LET p == Fed(pipeline, z, Judged.status)
                 IN  p.entry.age # None /\ p.entry.age <= StaleCross.max_age_bars
  <1>0. /\ TypeInv /\ PipelineInv /\ z \in Int /\ WarmupBars \in Nat /\ BarOver(z)
        /\ pipeline \in Pipelines /\ Judged.status \in Statuses
    BY SignalRunnerAssumption, JudgedSound DEF SignalInv, TypeInv, Run
  <1>1. EntrySignal(pipeline.entry, Known(pipeline, z), Judged.status) # None
    BY <1>0, Signals
  <1>2. Known(pipeline, z) = z /\ z # None
    <2>1. Known(pipeline, z) # None
      BY <1>1 DEF EntrySignal
    <2>2. z # None
      BY <1>0, SignalRunnerAssumption
    <2> QED
      BY <1>0, <2>1, <2>2, FedFields
  <1>3. seen'.zs[WarmupBars] = z /\ seen'.zs[WarmupBars - 1] = seen.zs[WarmupBars]
    <2>1. WarmupBars - 1 \in 1..(WarmupBars - 1) /\ WarmupBars - 1 + 1 = WarmupBars
          /\ WarmupBars > 0
      BY <1>0
    <2> QED
      BY <1>0, <2>1, RunGives
  <1>4. \/ CrossedIntoZone(pipeline.entry, z)
        \/ StaleCrossRecovery(pipeline.entry, z, Judged.status)
        \/ /\ Persistent(pipeline.entry, z, Judged.status)
           /\ SignalDirection(z) \in PersistentExtreme.directions
    BY <1>1, <1>2 DEF EntrySignal
  <1>5. CASE CrossedIntoZone(pipeline.entry, z)
    <2>1. pipeline.entry.prev_z = seen.zs[WarmupBars]
      BY <1>0, <1>5 DEF CrossedIntoZone, PipelineInv, Follows
    <2> QED
      BY <1>2, <1>3, <1>5, <2>1 DEF CrossedIntoZone
  <1>6. CASE StaleCrossRecovery(pipeline.entry, z, Judged.status)
    <2>1. Fed(pipeline, z, Judged.status).entry.age
            = RecoveryAge(pipeline.entry, z, Judged.status)
      BY <1>0, <1>2, FedFields
    <2> QED
      BY <1>2, <1>6, <2>1 DEF StaleCrossRecovery
  <1>7. CASE /\ Persistent(pipeline.entry, z, Judged.status)
             /\ SignalDirection(z) \in PersistentExtreme.directions
    BY <1>2, <1>3, <1>7 DEF Persistent
  <1> QED
    BY <1>2, <1>4, <1>5, <1>6, <1>7

\* The signal is an entry that only a recovery explains.
Recovering == signal.entry # None /\ ~(Abs(PrevZ) < EntryZ) /\ ~Extreme

\* A backtest never sees a cooldown end, and so never recovers.
ColdInv ==
    /\ StaleCrossWindow
    /\ mode = "backtest" => pipeline.entry.age = None /\ ~Recovering

LEMMA ColdAge ==
    ASSUME SignalInv, NEW z \in Zs, Run(z), mode = "backtest", pipeline.entry.age = None
    PROVE  Fed(pipeline, z, Judged.status).entry.age = None
  <1>0. /\ z \in Int /\ pipeline \in Pipelines /\ Judged.status \in Statuses
        /\ up /\ Judged = state
    BY SignalRunnerAssumption, JudgedSound DEF SignalInv, TypeInv, Run, Judged
  <1>1. Judged.status = "Flat" => pipeline.entry.last_status # "Cooldown"
    BY <1>0 DEF SignalInv, PipelineInv
  <1>2. RecoveryAge(pipeline.entry, z, Judged.status) = None
    BY <1>1 DEF RecoveryAge
  <1> QED
    BY <1>0, <1>2, FedFields

LEMMA ColdStep ==
    ASSUME 1 < WarmupBars, SignalInv, ColdInv, [Next]_vars
    PROVE  ColdInv'
  <1>0. TypeInv /\ PipelineInv
    BY DEF SignalInv
  <1>1. ASSUME NEW z \in Zs, RunEnds(z)
        PROVE  ColdInv'
    <2> DEFINE p == Fed(pipeline, z, Judged.status)
    <2>0. Run(z) /\ signal' = Signalled(z) /\ UNCHANGED mode
      BY <1>1 DEF RunEnds, Run
    <2>1. Aged(p, seen'.zs, WarmupBars, since')
      BY <2>0, RunFeeds
    <2>2. Recovering' => p.entry.age # None /\ p.entry.age <= StaleCross.max_age_bars
      BY <2>0, EntryCases DEF Recovering, PrevZ, LastZ, Extreme
    <2>3. p.entry.age # None => p.entry.age \in Nat
      <3>1. p \in Pipelines
        BY <2>0, RunFeeds
      <3> HIDE DEF p
      <3> QED
        BY <3>1 DEF Pipelines, Ages
    <2>4. since' \in Nat \cup {None} /\ WarmupBars \in Nat
      BY <1>0, <2>0, RunCounts, SignalRunnerAssumption
    <2>5. mode = "backtest" => p.entry.age = None
      BY <2>0, ColdAge DEF ColdInv
    <2> HIDE DEF p
    <2>6. Recovering' => /\ since' # None /\ since' <= p.entry.age
                         /\ \A i \in 1..WarmupBars :
                              i > WarmupBars - p.entry.age => InZone(seen'.zs[i])
      BY <2>1, <2>2 DEF Aged
    <2>7. StaleCrossWindow'
      <3> SUFFICES ASSUME Recovering'
                   PROVE  /\ since' # None
                          /\ since' <= StaleCross.max_age_bars
                          /\ \A i \in 1..WarmupBars :
                               i > WarmupBars - since' => InZone(seen'.zs[i])
        BY DEF StaleCrossWindow, Recovering
      <3>1. /\ p.entry.age \in Nat /\ since' \in Nat /\ StaleCross.max_age_bars \in Nat
            /\ since' <= p.entry.age /\ p.entry.age <= StaleCross.max_age_bars
        BY <2>2, <2>3, <2>4, <2>6, ControlsAssumption
      <3>2. since' <= StaleCross.max_age_bars
        BY <3>1
      <3>3. \A i \in 1..WarmupBars :
              i > WarmupBars - since' => i > WarmupBars - p.entry.age
        <4>1. PICK runs \in Nat, age \in Nat :
                runs = since' /\ age = p.entry.age /\ runs <= age
          BY <3>1
        <4>2. ASSUME NEW i \in 1..WarmupBars, i > WarmupBars - runs
              PROVE  i > WarmupBars - age
          <5>1. i \in Int /\ WarmupBars \in Int /\ runs <= age
            BY <2>4, <4>1
          <5> QED
            BY <4>2, <5>1
        <4> QED
          BY <4>1, <4>2
      <3> QED
        BY <2>6, <3>2, <3>3
    <2>8. pipeline'.entry.age \in {p.entry.age, None}
      <3>1. NewPipeline.entry.age = None
        BY NewPipelineOK
      <3> QED
        BY <1>1, <3>1 DEF RunEnds, Down, p
    <2> QED
      BY <2>0, <2>2, <2>5, <2>7, <2>8 DEF ColdInv
  <1>2. CASE Idle
    <2>1. ~Recovering'
      BY <1>2 DEF Idle, Recovering, NoSignal
    <2>2. mode' = "backtest" => pipeline'.entry.age = None
      BY <1>2, NewPipelineOK DEF Idle, Down, Launch, StartBacktest, ColdInv
    <2> QED
      BY <2>1, <2>2 DEF ColdInv, StaleCrossWindow, Recovering
  <1>3. CASE UNCHANGED <<mode, zs, seen, since, signal>> /\ (Settle \/ UNCHANGED vars)
    <2>1. UNCHANGED pipeline
      BY <1>3 DEF Settle, vars
    <2> QED
      BY <1>3, <2>1
         DEF ColdInv, StaleCrossWindow, Recovering, PrevZ, LastZ, Extreme
  <1> QED
    BY <1>0, <1>1, <1>2, <1>3, Between

\* EntrySignalDetector: an entry without a crossing and off the extremes comes only
\* in the first max_age_bars runs after a cooldown, all of them in the zone.
THEOREM RecoveryIsInWindow ==
    ASSUME 1 < WarmupBars
    PROVE  Spec => []StaleCrossWindow
  <1>1. Init => ColdInv
    BY NewPipelineOK, SignalRunnerAssumption
       DEF Init, NoSignal, ColdInv, StaleCrossWindow, Recovering
  <1>2. SignalInv /\ ColdInv /\ [Next]_vars => ColdInv'
    BY ColdStep
  <1>3. ColdInv => StaleCrossWindow
    BY DEF ColdInv
  <1> QED
    BY <1>1, <1>2, <1>3, SignalInvariant, PTL DEF Spec

----------------------------------------------------------------------------
(* Nothing is lost.                                                         *)

\* With a warm-up as long as the windows a live process knows every z-score from
\* its first run on; a backtest knows them once it has entered anything.
FullInv ==
    /\ pipeline.entry.prev_z # None => pipeline.filled = ZBars
    /\ up /\ mode # "backtest" =>
         pipeline.filled = ZBars /\ pipeline.entry.prev_z # None
    /\ up /\ mode = "backtest" /\ state.status # "Flat" => pipeline.filled = ZBars

LEMMA FullPipeline ==
    ASSUME NEW p \in Pipelines, NEW z \in Int, NEW status \in Statuses
    PROVE  LET q == Fed(p, z, status)
           IN  /\ q.entry.prev_z # None => q.filled = ZBars
               /\ Known(p, z) # None =>
                    q.filled = ZBars /\ q.entry.prev_z # None /\ Known(p, z) = z
               /\ p.filled = ZBars => Known(p, z) # None
  <1> DEFINE q == Fed(p, z, status)
  <1>1. p.filled \in 0..ZBars /\ ZBars \in Nat \ {0}
    BY ControlsAssumption DEF Pipelines
  <1>2. /\ Known(p, z) \in {z, None}
        /\ Known(p, z) # None <=> p.filled + 1 >= ZBars
        /\ q.entry.prev_z = Known(p, z)
        /\ q.filled = (IF p.filled < ZBars THEN p.filled + 1 ELSE ZBars)
    BY FedFields
  <1> HIDE DEF q
  <1>3. p.filled + 1 >= ZBars => q.filled = ZBars
    BY <1>1, <1>2
  <1>4. p.filled = ZBars => p.filled + 1 >= ZBars
    BY <1>1
  <1> QED
    BY <1>2, <1>3, <1>4 DEF q

LEMMA FullStep ==
    ASSUME ZBars <= WarmupBars, SignalInv, FullInv, [Next]_vars
    PROVE  FullInv'
  <1>0. TypeInv /\ PipelineInv /\ WarmupBars \in Nat /\ ZBars \in Nat \ {0}
    BY SignalRunnerAssumption, ControlsAssumption DEF SignalInv
  <1>1. ASSUME NEW z \in Zs, RunEnds(z)
        PROVE  FullInv'
    <2>0. /\ z \in Int /\ pipeline \in Pipelines /\ Judged.status \in Statuses
          /\ up /\ UNCHANGED mode
      BY <1>0, <1>1, SignalRunnerAssumption, JudgedSound DEF TypeInv, RunEnds, Run
    <2>1. CASE Down
      BY <2>1, NewPipelineOK DEF FullInv, Down
    <2>2. CASE /\ up' = TRUE
               /\ pipeline' = Fed(pipeline, z, Judged.status)
               /\ Result(z, state')
      <3>1. /\ pipeline'.entry.prev_z # None => pipeline'.filled = ZBars
            /\ Known(pipeline, z) # None =>
                 pipeline'.filled = ZBars /\ pipeline'.entry.prev_z # None
            /\ pipeline.filled = ZBars => Known(pipeline, z) # None
        BY <2>0, <2>2, FullPipeline
      <3>2. ASSUME mode = "backtest", state'.status # "Flat"
            PROVE  Known(pipeline, z) # None
        <4>1. Judged = state
          BY <3>2 DEF Judged
        <4>2. CASE state.status # "Flat"
          BY <2>0, <3>1, <3>2, <4>2 DEF FullInv
        <4>3. CASE state.status = "Flat"
          <5>1. Signalled(z).entry # None
            BY <2>2, <3>2, <4>1, <4>3 DEF Result
          <5> QED
            BY <1>0, <5>1, Signals DEF EntrySignal
        <4> QED
          BY <4>2, <4>3
      <3> QED
        BY <2>0, <3>1, <3>2 DEF FullInv
    <2> QED
      BY <1>1, <2>1, <2>2 DEF RunEnds
  <1>2. CASE Down
    BY <1>2, NewPipelineOK DEF FullInv, Down
  <1>3. CASE Launch
    <2>1. Rebuilt(pipeline', zs, state'.status, WarmupBars) /\ mode # "backtest"
      BY <1>0, <1>3, LaunchFacts DEF Launch
    <2>2. pipeline'.filled = ZBars /\ pipeline'.entry.prev_z # None
      BY <1>0, <2>1 DEF Rebuilt
    <2> QED
      BY <1>3, <2>1, <2>2 DEF FullInv, Launch
  <1>4. CASE Settle
    <2>1. state.status = "PendingEntry" /\ UNCHANGED <<mode, up, pipeline>>
      BY <1>0, <1>4, SettleFacts DEF Settle
    <2> QED
      BY <2>1 DEF FullInv
  <1>5. CASE StartBacktest
    BY <1>5, NewPipelineOK, DefaultSound DEF FullInv, StartBacktest
  <1>6. CASE UNCHANGED vars \/ UNCHANGED <<mode, up, state, pipeline, seen>>
    BY <1>6 DEF vars, FullInv
  <1> QED
    BY <1>0, <1>1, <1>2, <1>3, <1>4, <1>5, <1>6, Between DEF Idle

LEMMA FullInit == Init => FullInv
  BY NewPipelineOK, DefaultSound DEF Init, FullInv

LEMMA FullInvariant ==
    ASSUME ZBars <= WarmupBars
    PROVE  Spec => []FullInv
  BY FullInit, FullStep, SignalInvariant, PTL DEF Spec

\* A signal that was given by no run of this step is an old one, of a process
\* whose resting entry is settled.
LEMMA OwnSignal ==
    ASSUME SignalInv, [Next]_vars, signal'.ran
    PROVE  \/ \E z \in Zs : RunEnds(z)
           \/ UNCHANGED vars
           \/ Judged.status = "PendingEntry" /\ ~CooldownOver(state, bar)
  <1>0. TypeInv
    BY DEF SignalInv
  <1>1. ~Idle
    BY DEF Idle, NoSignal
  <1>2. CASE Settle
    <2>1. state.status = "PendingEntry"
      BY <1>2 DEF Settle
    <2>2. ~CooldownOver(state, bar)
      BY <2>1 DEF CooldownOver
    <2>3. Judged = state
      BY <1>0, <2>2, JudgedSound
    <2> QED
      BY <2>1, <2>2, <2>3
  <1> QED
    BY <1>0, <1>1, <1>2, Between

\* What a run sees of the window.
LEMMA RunSees ==
    ASSUME ZBars <= WarmupBars, SignalInv, FullInv, NEW z \in Zs, Run(z)
    PROVE  /\ z \in Int /\ zs'[WarmupBars] = z /\ LastZ \in Int
           /\ pipeline.entry.prev_z # None => pipeline.entry.prev_z = LastZ
           /\ pipeline.filled = ZBars => Known(pipeline, z) = z
           /\ mode # "backtest" => Known(pipeline, z) = z /\ pipeline.entry.prev_z = LastZ
  <1>0. /\ TypeInv /\ PipelineInv /\ z \in Int /\ BarOver(z) /\ up
        /\ WarmupBars \in Nat /\ WarmupBars > 0
        /\ pipeline \in Pipelines /\ Judged.status \in Statuses
    BY SignalRunnerAssumption, ControlsAssumption, JudgedSound DEF SignalInv, TypeInv, Run
  <1>1. zs'[WarmupBars] = z
    BY <1>0, WindowMoves
  <1>2. LastZ \in Int
    <2>1. seen.zs[WarmupBars] \in Zs
      BY <1>0 DEF TypeInv
    <2> QED
      BY <2>1, SignalRunnerAssumption DEF LastZ
  <1>3. pipeline.entry.prev_z # None => pipeline.entry.prev_z = LastZ
    BY <1>0 DEF PipelineInv, Follows, LastZ
  <1>4. pipeline.filled = ZBars => Known(pipeline, z) = z
    BY <1>0, FullPipeline
  <1>5. mode # "backtest" => pipeline.filled = ZBars /\ pipeline.entry.prev_z # None
    BY <1>0 DEF FullInv
  <1> QED
    BY <1>0, <1>1, <1>2, <1>3, <1>4, <1>5

\* A crossing of the window is one for the detector.
LEMMA CrossingSignals ==
    ASSUME NEW d, NEW z \in Int, NEW before \in Int, d.prev_z = before,
           Abs(before) < EntryZ, InZone(z)
    PROVE  EntrySignal(d, z, "Flat") # None
  <1>1. before # None /\ z # None
    BY SignalRunnerAssumption
  <1>2. CrossedIntoZone(d, z)
    BY <1>1 DEF CrossedIntoZone
  <1>3. EntrySignal(d, z, "Flat") = SignalDirection(z)
    BY <1>1, <1>2 DEF EntrySignal
  <1> QED
    BY <1>3, SignalRunnerAssumption DEF SignalDirection, TradeDirections

\* EntrySignalDetector: a Flat run does not miss a crossing, whatever came between
\* it and the bar before: a late tick, a missed run, a failure, a restart.
THEOREM CrossingIsNotMissed ==
    ASSUME ZBars <= WarmupBars
    PROVE  Spec => CrossingNotMissed
  <1>1. SignalInv /\ FullInv /\ [Next]_vars =>
          [signal'.ran /\ Judged.status = "Flat" /\ Warm /\ Crossed
             => signal'.entry # None]_vars
    <2> SUFFICES ASSUME SignalInv, FullInv, [Next]_vars, ~UNCHANGED vars, signal'.ran,
                        Judged.status = "Flat", Warm, Crossed
                 PROVE  signal'.entry # None
      OBVIOUS
    <2>1. ASSUME NEW z \in Zs, RunEnds(z)
          PROVE  signal'.entry # None
      <3>1. Run(z) /\ signal' = Signalled(z) /\ TypeInv
        BY <2>1 DEF RunEnds, Run, SignalInv
      <3>2. pipeline.entry.prev_z # None
        BY <3>1, SignalRunnerAssumption, RunSees DEF Warm, FullInv, Run
      <3>3. /\ pipeline.entry.prev_z = LastZ /\ Known(pipeline, z) = z
            /\ z \in Int /\ LastZ \in Int /\ zs'[WarmupBars] = z
        BY <3>1, <3>2, RunSees DEF FullInv
      <3>4. EntrySignal(pipeline.entry, z, "Flat") # None
        BY <3>3, CrossingSignals DEF Crossed
      <3>5. Signalled(z).entry = EntrySignal(pipeline.entry, z, "Flat")
        BY <3>1, <3>3, Signals
      <3> QED
        BY <3>1, <3>4, <3>5
    <2> QED
      BY <2>1, OwnSignal
  <1> QED
    BY <1>1, FullInvariant, SignalInvariant, PTL DEF Spec, CrossingNotMissed

\* ExitSignalDetector: a run that keeps a position saw a z-score below the stop and
\* a position in time, the first run of a process too.
THEOREM PositionsStayInLimits ==
    ASSUME ZBars <= WarmupBars
    PROVE  Spec => HeldWithinLimits
  <1>1. SignalInv /\ FullInv /\ [Next]_vars =>
          [signal'.ran /\ Judged.status = "InPosition" /\ signal'.exit = None
             => /\ Abs(zs'[WarmupBars]) < SlZ
                /\ bar - Judged.position.entry_time < MaxHold]_vars
    <2> SUFFICES ASSUME SignalInv, FullInv, [Next]_vars, ~UNCHANGED vars, signal'.ran,
                        Judged.status = "InPosition", signal'.exit = None
                 PROVE  /\ Abs(zs'[WarmupBars]) < SlZ
                        /\ bar - Judged.position.entry_time < MaxHold
      OBVIOUS
    <2>1. PICK z \in Zs : RunEnds(z)
      BY OwnSignal
    <2>2. Run(z) /\ signal' = Signalled(z) /\ TypeInv /\ up
      BY <2>1 DEF RunEnds, Run, SignalInv
    <2>3. Judged = state
      BY <2>2, JudgedSound
    <2>4. Known(pipeline, z) = z /\ z \in Int /\ zs'[WarmupBars] = z /\ z # None
      BY <2>2, <2>3, RunSees, SignalRunnerAssumption DEF FullInv
    <2>5. ExitSignal(pipeline.tp_count, z, "InPosition", Held) = None
      BY <2>2, <2>4, Signals
    <2>6. ~(Abs(z) >= SlZ) /\ ~(Held >= MaxHold)
      BY <2>4, <2>5, SignalRunnerAssumption DEF ExitSignal, ExitReasons
    <2>7. Held = bar - Judged.position.entry_time /\ Judged.position.entry_time \in Nat
      <3>1. Judged.position \in Positions /\ Judged.position # None
        BY <2>2, JudgedSound DEF Sound, HydrateAccepts, StrategyStates
      <3> QED
        BY <3>1, SnapshotsAssumption DEF Held
    <2>8. bar \in Nat /\ MaxHold \in Nat /\ SlZ \in Int /\ Abs(z) \in Int
      BY <2>2, <2>4, AbsInt, SignalRunnerAssumption, ControlsAssumption,
         ThresholdsAssumption DEF TypeInv
    <2> QED
      BY <2>4, <2>6, <2>7, <2>8
  <1> QED
    BY <1>1, FullInvariant, SignalInvariant, PTL DEF Spec, HeldWithinLimits

----------------------------------------------------------------------------
(* The recovery.                                                            *)

\* The detector knows the status of the last bar the process was given.
StatusInv == up /\ seen.status = "Cooldown" => pipeline.entry.last_status = "Cooldown"

LEMMA StatusStep ==
    ASSUME SignalInv, StatusInv, [Next]_vars
    PROVE  StatusInv'
  <1>0. TypeInv /\ WarmupBars \in Nat /\ None # "Cooldown"
    BY SignalRunnerAssumption DEF SignalInv, Statuses
  <1>1. ASSUME NEW z \in Zs, RunEnds(z), up'
        PROVE  StatusInv'
    <2>1. pipeline' = Fed(pipeline, z, Judged.status) /\ Run(z)
      BY <1>1 DEF RunEnds, Down
    <2>2. pipeline'.entry.last_status = Judged.status
      <3>1. z \in Int /\ pipeline \in Pipelines /\ Judged.status \in Statuses
        BY <1>0, SignalRunnerAssumption, JudgedSound DEF TypeInv
      <3> QED
        BY <2>1, <3>1, FedFields
    <2>3. seen'.status = Judged.status
      BY <1>0, <2>1, RunGives
    <2> QED
      BY <2>2, <2>3 DEF StatusInv
  <1>2. CASE Down
    BY <1>2 DEF Down, StatusInv
  <1>3. CASE Launch
    <2>1. /\ Rebuilt(pipeline', zs, state'.status, WarmupBars)
          /\ seen'.status = IF WarmupBars = 0 THEN None ELSE state'.status
      BY <1>0, <1>3, LaunchFacts
    <2> QED
      BY <1>0, <2>1 DEF Rebuilt, StatusInv
  <1>4. CASE StartBacktest
    BY <1>0, <1>4 DEF StartBacktest, StatusInv, Given
  <1>5. CASE Settle \/ UNCHANGED vars \/ UNCHANGED <<mode, up, state, pipeline, seen>>
    BY <1>5 DEF Settle, vars, StatusInv
  <1> QED
    BY <1>0, <1>1, <1>2, <1>3, <1>4, <1>5, Between DEF Idle, StatusInv

\* The first Flat bar after a cooldown, in the zone and reverting, is an entry.
LEMMA RecoverySignals ==
    ASSUME NEW d, NEW z \in Int, NEW before \in Int, d.prev_z = before,
           d.last_status = "Cooldown", StaleCross.enabled,
           InZone(z), Abs(z) <= Abs(before)
    PROVE  EntrySignal(d, z, "Flat") # None
  <1>1. before # None /\ z # None /\ 1 # None /\ 1 <= StaleCross.max_age_bars
    BY SignalRunnerAssumption, ControlsAssumption
  <1>2. RecoveryAge(d, z, "Flat") = 1
    BY DEF RecoveryAge
  <1>3. CrossedIntoZone(d, z) \/ StaleCrossRecovery(d, z, "Flat")
    BY <1>1, <1>2 DEF StaleCrossRecovery
  <1>4. EntrySignal(d, z, "Flat") = SignalDirection(z)
    BY <1>1, <1>3 DEF EntrySignal
  <1> QED
    BY <1>4, SignalRunnerAssumption DEF SignalDirection, TradeDirections

\* EntrySignalDetector: the live run that ends a cooldown takes the recovery path,
\* also in a process that was started during the cooldown, if it was given a bar
\* of the cooldown at all.
THEOREM RecoveryIsTaken ==
    ASSUME ZBars <= WarmupBars
    PROVE  Spec => RecoveryFires
  <1>1. Init => StatusInv
    BY DEF Init, StatusInv
  <1>2. SignalInv /\ StatusInv /\ [Next]_vars => StatusInv'
    BY StatusStep
  <1>3. SignalInv /\ FullInv /\ StatusInv /\ [Next]_vars =>
          [signal'.ran /\ mode # "backtest" /\ CooldownOver(state, bar)
             /\ seen.status = "Cooldown" /\ (Crossed \/ Reverting)
             => signal'.entry # None]_vars
    <2> SUFFICES ASSUME SignalInv, FullInv, StatusInv, [Next]_vars, ~UNCHANGED vars,
                        signal'.ran, mode # "backtest", CooldownOver(state, bar),
                        seen.status = "Cooldown", Crossed \/ Reverting
                 PROVE  signal'.entry # None
      OBVIOUS
    <2>1. PICK z \in Zs : RunEnds(z)
      BY OwnSignal
    <2>2. Run(z) /\ signal' = Signalled(z) /\ TypeInv /\ up
      BY <2>1 DEF RunEnds, Run, SignalInv
    <2>3. Judged.status = "Flat" /\ pipeline.entry.last_status = "Cooldown"
      BY <2>2, JudgedSound DEF StatusInv, CooldownOver
    <2>4. /\ pipeline.entry.prev_z = LastZ /\ Known(pipeline, z) = z
          /\ z \in Int /\ LastZ \in Int /\ zs'[WarmupBars] = z
      BY <2>2, RunSees
    <2>5. EntrySignal(pipeline.entry, z, "Flat") # None
      <3>1. CASE Crossed
        BY <2>4, <3>1, CrossingSignals DEF Crossed
      <3>2. CASE Reverting
        BY <2>3, <2>4, <3>2, RecoverySignals DEF Reverting
      <3> QED
        BY <3>1, <3>2
    <2> QED
      BY <2>2, <2>3, <2>4, <2>5, Signals
  <1> QED
    BY <1>1, <1>2, <1>3, FullInvariant, SignalInvariant, PTL DEF Spec, RecoveryFires
=============================================================================
