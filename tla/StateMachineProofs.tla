------------------------ MODULE StateMachineProofs -------------------------
(***************************************************************************)
(* Proofs about StateMachine, for every set of positions, pending entries  *)
(* and foreign rows and every cooldown length.                             *)
(*                                                                         *)
(* The safety invariants are not inductive alone: that a restart accepts   *)
(* what was saved needs the same of the row, and that an entry waits for   *)
(* the cooldown needs where the deadline is kept while the process is      *)
(* down.  IInv adds those two facts.                                       *)
(***************************************************************************)
EXTENDS StateMachine, TLAPS

\* What every record this program itself produced satisfies.
Sound(s) ==
    /\ HydrateAccepts(s)
    /\ s.status = "Flat" => s.cooldown_until = None

OwnRecordsSound ==
    ~foreign => /\ process = "up" => Sound(state)
                /\ row # None => Sound(row)

\* While entries are barred, somebody remembers it: the running process, or
\* the row when no process runs.
BarRemembered ==
    now < barred =>
      LET keeper == IF process = "up" THEN state ELSE row
      IN  /\ keeper # None
          /\ keeper.status = "Cooldown"
          /\ keeper.cooldown_until # None
          /\ barred <= keeper.cooldown_until

IInv ==
    /\ TypeOK
    /\ StateHydratable
    /\ OwnRowAccepted
    /\ OwnRecordsSound
    /\ BarRemembered

----------------------------------------------------------------------------
\* The two copies of the release logic, recover_state's at start-up and
\* update's in the running process, agree on every record hydrate accepts.
LEMMA RecoverIsUpdate ==
  ASSUME NEW s \in StrategyStates, HydrateAccepts(s), NEW t \in Nat
  PROVE  Recover(s, t) = Update(s, t)
  <1>1. CASE CooldownOver(s, t)
    <2>1. s.pending_entry = None /\ s.status = "Cooldown"
      BY <1>1 DEF CooldownOver, HydrateAccepts
    <2>2. [s EXCEPT !.status = "Flat", !.pending_entry = None,
                    !.cooldown_until = None]
            = [s EXCEPT !.status = "Flat", !.cooldown_until = None]
      BY <2>1 DEF StrategyStates
    <2> QED
      BY <1>1, <2>2 DEF Recover, Update, StrategyStates
  <1>2. CASE ~CooldownOver(s, t)
    BY <1>2 DEF Recover, Update, HydrateAccepts
  <1> QED
    BY <1>1, <1>2

----------------------------------------------------------------------------
\* A first start, with an empty table or with a foreign row, satisfies IInv.
LEMMA InitInvariant == Init => IInv
  <1> SUFFICES ASSUME Init PROVE IInv
    OBVIOUS
  <1>1. TypeOK
    BY RowAssumption
       DEF Init, TypeOK, DefaultState, StrategyStates, Statuses
  <1>2. StateHydratable /\ OwnRowAccepted /\ OwnRecordsSound
    BY DEF Init, StateHydratable, OwnRowAccepted, OwnRecordsSound
  <1>3. BarRemembered
    BY DEF Init, BarRemembered
  <1> QED
    BY <1>1, <1>2, <1>3 DEF IInv

\* A method call: the record is replaced by another one that hydrate accepts,
\* and the row is left alone.
LEMMA CallInvariant ==
  ASSUME IInv, process = "up",
         state' \in StrategyStates,
         HydrateAccepts(state'),
         ~foreign => Sound(state'),
         UNCHANGED <<now, process, row, foreign>>,
         barred' \in Nat,
         now < barred' =>
           /\ state'.status = "Cooldown"
           /\ state'.cooldown_until # None
           /\ barred' <= state'.cooldown_until
  PROVE  IInv'
  <1>1. TypeOK'
    BY DEF IInv, TypeOK
  <1>2. StateHydratable' /\ OwnRowAccepted' /\ OwnRecordsSound'
    BY DEF IInv, StateHydratable, OwnRowAccepted, OwnRecordsSound
  <1>3. state' # None
    BY RowAssumption
  <1>4. BarRemembered'
    BY <1>3 DEF BarRemembered
  <1> QED
    BY <1>1, <1>2, <1>4 DEF IInv

\* load, recover_state and hydrate preserve IInv, refusals included.
LEMMA RestartInvariant ==
  ASSUME IInv, Restart
  PROVE  IInv'
  <1> USE DEF IInv
  <1>1. CASE row = None /\ process' = "up" /\ state' = DefaultState
    <2>1. state' \in StrategyStates /\ Sound(state')
      BY <1>1, NoneAssumption
         DEF StrategyStates, Statuses, DefaultState, Sound, HydrateAccepts
    <2>2. ~(now < barred)
      BY <1>1 DEF Restart, BarRemembered
    <2> QED
      BY <1>1, <2>1, <2>2
         DEF Restart, TypeOK, StateHydratable, OwnRowAccepted, OwnRecordsSound,
             BarRemembered, Sound
  <1>2. CASE /\ row # None
             /\ HydrateAccepts(Recover(row, now))
             /\ process' = "up"
             /\ state' = Recover(row, now)
    <2>1. row \in StrategyStates /\ now \in Nat
      BY <1>2 DEF TypeOK
    <2>2. state' \in StrategyStates
      BY <1>2, <2>1 DEF Recover, StrategyStates, Statuses
    <2>3. ~foreign => Sound(state')
      <3>1. SUFFICES ASSUME ~foreign PROVE Sound(state')
        OBVIOUS
      <3>2. Sound(row)
        BY <1>2, <3>1 DEF OwnRecordsSound
      <3>3. state' = Update(row, now)
        BY <1>2, <2>1, <3>2, RecoverIsUpdate DEF Sound
      <3> QED
        BY <2>1, <3>2, <3>3
           DEF Update, CooldownOver, Sound, HydrateAccepts, StrategyStates,
               Statuses
    <2>4. BarRemembered'
      <3>1. SUFFICES ASSUME now < barred
                     PROVE  /\ state' # None
                            /\ state'.status = "Cooldown"
                            /\ state'.cooldown_until # None
                            /\ barred <= state'.cooldown_until
        BY <1>2 DEF Restart, BarRemembered
      <3>2. /\ row.status = "Cooldown"
            /\ row.cooldown_until # None
            /\ barred <= row.cooldown_until
        BY <3>1 DEF Restart, BarRemembered
      <3>3. row.cooldown_until \in Nat /\ now \in Nat /\ barred \in Nat
        BY <2>1, <3>2 DEF StrategyStates, TypeOK
      <3>4. ~CooldownOver(row, now)
        BY <3>1, <3>2, <3>3 DEF CooldownOver
      <3>5. state' = row
        BY <1>2, <3>2, <3>4 DEF Recover
      <3> QED
        BY <1>2, <3>2, <3>5
    <2> QED
      BY <1>2, <2>2, <2>3, <2>4
         DEF Restart, TypeOK, StateHydratable, OwnRowAccepted, OwnRecordsSound
  <1>3. CASE /\ row # None
             /\ ~HydrateAccepts(Recover(row, now))
             /\ process' = "refused"
             /\ UNCHANGED state
    <2>1. foreign
      <3>1. SUFFICES ASSUME ~foreign PROVE FALSE
        OBVIOUS
      <3>2. row \in StrategyStates /\ now \in Nat /\ Sound(row)
        BY <1>3, <3>1 DEF TypeOK, OwnRecordsSound
      <3>3. Recover(row, now) = Update(row, now)
        BY <3>2, RecoverIsUpdate DEF Sound
      <3>4. HydrateAccepts(Update(row, now))
        BY <3>2 DEF Update, CooldownOver, Sound, HydrateAccepts,
                    StrategyStates, Statuses
      <3> QED
        BY <1>3, <3>3, <3>4
    <2> QED
      BY <1>3, <2>1
         DEF Restart, TypeOK, StateHydratable, OwnRowAccepted, OwnRecordsSound,
             BarRemembered
  <1> QED
    BY <1>1, <1>2, <1>3 DEF Restart

\* Every step of the machine, the store or the clock preserves IInv.
LEMMA StepInvariant == IInv /\ [Next]_vars => IInv'
  <1> SUFFICES ASSUME IInv, [Next]_vars PROVE IInv'
    OBVIOUS
  <1>t. /\ now \in Nat /\ barred \in Nat /\ state \in StrategyStates
        /\ row \in StrategyStates \cup {None}
    BY DEF IInv, TypeOK
  <1>h. process = "up" => HydrateAccepts(state)
    BY DEF IInv, StateHydratable
  <1>s. process = "up" /\ ~foreign => Sound(state)
    BY DEF IInv, OwnRecordsSound
  \* In a running process an entry barred means a Cooldown state.
  <1>b. process = "up" /\ now < barred =>
          /\ state.status = "Cooldown"
          /\ state.cooldown_until # None
          /\ barred <= state.cooldown_until
    BY DEF IInv, BarRemembered
  <1>1. CASE Tick
    <2>1. now' \in Nat /\ (now' < barred => now < barred)
      BY <1>1, <1>t DEF Tick
    <2>2. BarRemembered'
      BY <1>1, <2>1 DEF Tick, IInv, BarRemembered
    <2> QED
      BY <1>1, <2>1, <2>2
         DEF Tick, IInv, TypeOK, StateHydratable, OwnRowAccepted,
             OwnRecordsSound
  <1>2. CASE CallForceFlat
    <2>1. ForceFlat(state) \in StrategyStates
      BY <1>t DEF ForceFlat, StrategyStates, Statuses
    <2>2. HydrateAccepts(ForceFlat(state)) /\ Sound(ForceFlat(state))
      BY <1>t DEF ForceFlat, HydrateAccepts, Sound, StrategyStates
    <2> QED
      BY <1>2, <1>t, <2>1, <2>2, CallInvariant DEF CallForceFlat
  <1>3. ASSUME NEW p \in Positions, CallEnter(p) PROVE IInv'
    <2>1. Enter(state, p) \in StrategyStates
      BY <1>t DEF Enter, StrategyStates, Statuses
    <2>2. HydrateAccepts(Enter(state, p)) /\ Sound(Enter(state, p))
      BY <1>t, NoneAssumption DEF Enter, HydrateAccepts, Sound, StrategyStates
    <2>3. ~(now < barred)
      BY <1>3, <1>b DEF CallEnter, CanEnter
    <2> QED
      BY <1>3, <1>t, <2>1, <2>2, <2>3, CallInvariant DEF CallEnter
  <1>4. ASSUME NEW p \in Positions, CallConfirm(p) PROVE IInv'
    <2>1. ConfirmPendingEntry(state, p) \in StrategyStates
      BY <1>t DEF ConfirmPendingEntry, StrategyStates, Statuses
    <2>2. /\ HydrateAccepts(ConfirmPendingEntry(state, p))
          /\ Sound(ConfirmPendingEntry(state, p))
      BY <1>t, NoneAssumption
         DEF ConfirmPendingEntry, HydrateAccepts, Sound, StrategyStates
    <2>3. ~(now < barred)
      BY <1>4, <1>b DEF CallConfirm, CanConfirm
    <2> QED
      BY <1>4, <1>t, <2>1, <2>2, <2>3, CallInvariant DEF CallConfirm
  <1>5. ASSUME NEW q \in PendingEntries, CallEnterPending(q) PROVE IInv'
    <2>1. EnterPending(state, q) \in StrategyStates
      BY <1>t DEF EnterPending, StrategyStates, Statuses
    <2>2. HydrateAccepts(EnterPending(state, q)) /\ Sound(EnterPending(state, q))
      BY <1>t, NoneAssumption
         DEF EnterPending, HydrateAccepts, Sound, StrategyStates
    <2>3. ~(now < barred)
      BY <1>5, <1>b DEF CallEnterPending, CanEnterPending
    <2> QED
      BY <1>5, <1>t, <2>1, <2>2, <2>3, CallInvariant DEF CallEnterPending
  <1>6. ASSUME NEW reason \in ExitReasons, CallExit(reason) PROVE IInv'
    <2>1. now + CooldownHours \in Nat
      BY <1>t, CooldownAssumption
    <2>2. Exit(state, reason, now) \in StrategyStates
      BY <1>t, <2>1 DEF Exit, StrategyStates, Statuses
    <2>3. /\ HydrateAccepts(Exit(state, reason, now))
          /\ Sound(Exit(state, reason, now))
      BY <1>t, <2>1, NoneAssumption
         DEF Exit, HydrateAccepts, Sound, StrategyStates
    <2>4. CASE reason = "StopLoss"
      <3>1. /\ state'.status = "Cooldown"
            /\ state'.cooldown_until = now + CooldownHours
            /\ barred' = now + CooldownHours
        BY <1>6, <1>t, <2>4 DEF CallExit, Exit, StrategyStates
      <3> QED
        BY <1>6, <2>1, <2>2, <2>3, <3>1, NoneAssumption, CallInvariant
           DEF CallExit
    <2>5. CASE reason # "StopLoss"
      <3>1. ~(now < barred)
        BY <1>6, <1>b DEF CallExit, CanExit
      <3> QED
        BY <1>6, <1>t, <2>2, <2>3, <2>5, <3>1, CallInvariant DEF CallExit
    <2> QED
      BY <2>4, <2>5
  <1>7. CASE CallUpdate
    <2>1. Update(state, now) \in StrategyStates
      BY <1>t DEF Update, StrategyStates, Statuses
    <2>2. HydrateAccepts(Update(state, now))
      BY <1>7, <1>t, <1>h
         DEF CallUpdate, Update, CooldownOver, HydrateAccepts, StrategyStates,
             Statuses
    <2>3. ~foreign => Sound(Update(state, now))
      BY <1>7, <1>t, <1>s, <2>2
         DEF CallUpdate, Update, CooldownOver, Sound, StrategyStates, Statuses
    <2>4. now < barred => Update(state, now) = state
      <3>1. SUFFICES ASSUME now < barred PROVE ~CooldownOver(state, now)
        BY DEF Update
      <3>2. state.cooldown_until \in Nat /\ barred <= state.cooldown_until
        BY <1>7, <1>t, <1>b, <3>1 DEF CallUpdate, StrategyStates
      <3> QED
        BY <1>t, <3>1, <3>2 DEF CooldownOver
    <2> QED
      BY <1>7, <1>t, <1>b, <2>1, <2>2, <2>3, <2>4, CallInvariant DEF CallUpdate
  <1>8. CASE Save
    BY <1>8, <1>t, <1>s, RowAssumption
       DEF Save, IInv, TypeOK, StateHydratable, OwnRowAccepted,
           OwnRecordsSound, BarRemembered
  <1>9. CASE Crash
    <2>1. barred' \in Nat /\ state' \in StrategyStates
      BY <1>9, <1>t DEF Crash, RowBar, StrategyStates, DefaultState, Statuses
    <2>2. BarRemembered'
      BY <1>9, <1>t DEF Crash, RowBar, BarRemembered, StrategyStates
    <2> QED
      BY <1>9, <2>1, <2>2
         DEF Crash, IInv, TypeOK, StateHydratable, OwnRowAccepted,
             OwnRecordsSound
  <1>10. CASE Restart
    BY <1>10, RestartInvariant
  <1>11. CASE UNCHANGED vars
    BY <1>11 DEF vars, IInv, TypeOK, StateHydratable, OwnRowAccepted,
                 OwnRecordsSound, BarRemembered
  <1> QED
    BY <1>1, <1>2, <1>3, <1>4, <1>5, <1>6, <1>7, <1>8, <1>9, <1>10, <1>11
       DEF Next

----------------------------------------------------------------------------
\* The inductive invariant holds of every reachable state.
THEOREM Invariant == Spec => []IInv
  BY InitInvariant, StepInvariant, PTL DEF Spec

\* The variables keep their types: timestamps never leave Nat, the row is
\* always a whole record or absent.
THEOREM TypeCorrect == Spec => []TypeOK
  <1>1. IInv => TypeOK
    BY DEF IInv
  <1> QED
    BY <1>1, Invariant, PTL

\* start-up (recover_state then hydrate) never refuses a row this program
\* wrote: only a foreign row can keep the process from starting.
THEOREM OwnRowIsAccepted == Spec => []OwnRowAccepted
  <1>1. IInv => OwnRowAccepted
    BY DEF IInv
  <1> QED
    BY <1>1, Invariant, PTL

\* No sequence of method calls builds a record hydrate would refuse.
THEOREM StateIsHydratable == Spec => []StateHydratable
  <1>1. IInv => StateHydratable
    BY DEF IInv
  <1> QED
    BY <1>1, Invariant, PTL

\* enter's and enter_pending's deadline check never fails for a Flat record of
\* this program's own making, so no filled order is left without a position
\* because of it.
THEOREM FlatIsClean == Spec => []FlatHasNoDeadline
  <1>1. IInv => FlatHasNoDeadline
    BY DEF IInv, OwnRecordsSound, FlatHasNoDeadline, Sound
  <1> QED
    BY <1>1, Invariant, PTL

\* An entry never precedes the end of the cooldown the last stop loss started,
\* across saves, crashes and restarts.
THEOREM EntryWaitsForCooldown == Spec => EntryAfterCooldown
  <1>1. IInv /\ [Next]_vars =>
          [state.status = "Flat" /\ state'.status \in {"InPosition", "PendingEntry"}
             /\ process = "up" => now >= barred]_vars
    <2> SUFFICES ASSUME IInv, process = "up", state.status = "Flat"
                 PROVE  now >= barred
      OBVIOUS
    <2> QED
      BY DEF IInv, TypeOK, BarRemembered
  <1> QED
    BY <1>1, Invariant, PTL DEF Spec, EntryAfterCooldown

\* The start-up path and the running path release a cooldown alike.
THEOREM RestartReleasesLikeUpdate == Spec => RestartLikeUpdate
  <1>1. IInv /\ [Next]_vars =>
          [process # "up" /\ process' = "up" /\ row # None /\ HydrateAccepts(row)
             => state' = Update(row, now)]_vars
    <2> SUFFICES ASSUME IInv, Next, process # "up", process' = "up",
                        row # None, HydrateAccepts(row)
                 PROVE  state' = Update(row, now)
      OBVIOUS
    <2>1. row \in StrategyStates /\ now \in Nat
      BY DEF IInv, TypeOK
    <2>2. Restart
      BY DEF Next, Tick, CallForceFlat, CallEnter, CallConfirm,
             CallEnterPending, CallExit, CallUpdate, Save, Crash
    <2> QED
      BY <2>1, <2>2, RecoverIsUpdate DEF Restart
  <1> QED
    BY <1>1, Invariant, PTL DEF Spec, RestartLikeUpdate
=============================================================================
