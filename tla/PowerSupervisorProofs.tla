------------------------ MODULE PowerSupervisorProofs ------------------------
(***************************************************************************)
(* Proofs about the power supervisor, for every duration, every wiring and  *)
(* every build; and, below, of the timing promises of PowerSupervisorTiming,*)
(* for every bound on the main loop's gap as well.                          *)
(***************************************************************************)
EXTENDS PowerSupervisorTiming, TLAPS

(* The lengths a running deadline may have. *)
LEMMA LargerIsBound ==
    ASSUME NEW a \in Nat, NEW b \in Nat
    PROVE  /\ Larger(a, b) \in Nat
           /\ a <= Larger(a, b)
           /\ b <= Larger(a, b)
BY DEF Larger

LEMMA StateTimerBound ==
    LET bound == Larger(SettleTicks, Larger(BootTicks, ShutdownTicks))
    IN  /\ bound \in Nat
        /\ 0 \in 0..bound
        /\ SettleTicks \in 0..bound
        /\ BootTicks \in 0..bound
        /\ ShutdownTicks \in 0..bound
<1>1. /\ Larger(BootTicks, ShutdownTicks) \in Nat
      /\ BootTicks <= Larger(BootTicks, ShutdownTicks)
      /\ ShutdownTicks <= Larger(BootTicks, ShutdownTicks)
  BY LargerIsBound, Durations
<1> DEFINE bound == Larger(SettleTicks, Larger(BootTicks, ShutdownTicks))
<1>2. /\ bound \in Nat
      /\ SettleTicks <= bound
      /\ Larger(BootTicks, ShutdownTicks) <= bound
  BY <1>1, LargerIsBound, Durations
<1> HIDE DEF bound
<1>3. /\ 0 \in 0..bound
      /\ SettleTicks \in 0..bound
      /\ BootTicks \in 0..bound
      /\ ShutdownTicks \in 0..bound
  BY <1>1, <1>2, Durations
<1> QED BY <1>2, <1>3 DEF bound

(* Sampling keeps an input well formed. *)
LEMMA DebounceType ==
    ASSUME NEW input \in DebouncedInput, NEW raw \in BOOLEAN
    PROVE  /\ Debounce(input, raw) \in DebouncedInput
           /\ ForcedLow(input) \in DebouncedInput
           /\ [input EXCEPT !.lastRaw = raw, !.filtered = raw] \in DebouncedInput
           /\ [input EXCEPT !.timer = Down(@)] \in DebouncedInput
<1>1. /\ input.lastRaw \in BOOLEAN
      /\ input.filtered \in BOOLEAN
      /\ input.timer \in 0..DebounceTicks
  BY DEF DebouncedInput
<1>2. DebounceTicks \in 0..DebounceTicks
  BY Durations
<1>3. Debounce(input, raw) \in DebouncedInput
  <2> DEFINE left == IF raw # input.lastRaw THEN DebounceTicks ELSE input.timer
  <2>1. left \in 0..DebounceTicks
    BY <1>1, <1>2
  <2>2. (IF left = 0 THEN raw ELSE input.filtered) \in BOOLEAN
    BY <1>1
  <2> QED BY <2>1, <2>2 DEF Debounce, DebouncedInput
<1>4. ForcedLow(input) \in DebouncedInput
  BY DEF ForcedLow, DebouncedInput
<1>5. [input EXCEPT !.lastRaw = raw, !.filtered = raw] \in DebouncedInput
  BY DEF DebouncedInput
<1>6. [input EXCEPT !.timer = Down(@)] \in DebouncedInput
  <2>1. Down(input.timer) \in 0..DebounceTicks
    BY <1>1, Durations DEF Down
  <2> QED BY <2>1 DEF DebouncedInput
<1> QED BY <1>3, <1>4, <1>5, <1>6

LEMMA DownType ==
    ASSUME NEW n \in Nat, NEW t \in 0..n
    PROVE  Down(t) \in 0..n
BY DEF Down

LEMMA LevelsType ==
    TypeOK => PwrNow \in BOOLEAN /\ VbusNow \in BOOLEAN
BY DEF TypeOK, PwrNow, VbusNow

LEMMA SampledType ==
    ASSUME TypeOK, UpdatePowerInputs
    PROVE  pwr' \in DebouncedInput /\ vbus' \in DebouncedInput
<1>1. PwrNow \in BOOLEAN /\ VbusNow \in BOOLEAN
  BY LevelsType
<1> QED BY <1>1, DebounceType DEF TypeOK, UpdatePowerInputs

(* A state change keeps its part of the invariant, whoever makes it. *)
LEMMA EnterStateType ==
    ASSUME TypeOK, NEW next \in PowerState, NEW request \in BOOLEAN,
           EnterState(next, request)
    PROVE  /\ state' = next
           /\ armTimer' \in 0..ArmDelayTicks
           /\ wakeRequested' = (next # "HOST_OFF" /\ request)
           /\ wakeRequested' \in BOOLEAN
BY Durations DEF TypeOK, EnterState, ArmDeadline

-----------------------------------------------------------------------------
LEMMA InitEstablishes == Init => SupervisorInv
<1> SUFFICES ASSUME Init PROVE SupervisorInv
  OBVIOUS
<1>1. PwrNow \in BOOLEAN /\ VbusNow \in BOOLEAN
  BY DEF Init, PwrNow, VbusNow
<1>2. pwr \in DebouncedInput /\ vbus \in DebouncedInput
  BY <1>1, Durations DEF Init, Settled, DebouncedInput
<1>3. stateTimer \in 0..Larger(SettleTicks, Larger(BootTicks, ShutdownTicks))
  BY StateTimerBound DEF Init
<1>4. TypeOK
  <2>1. armTimer \in 0..ArmDelayTicks /\ cooldown \in 0..SettleTicks
           /\ pulseTimer \in 0..PulseTicks
    BY Durations DEF Init
  <2>2. state \in PowerState
    BY DEF Init, PowerState
  <2> QED BY <1>2, <1>3, <2>1, <2>2 DEF Init, TypeOK
<1>5. state # "WAKE_PULSE"
  BY DEF Init
<1>6. NoWakeInCooldown /\ RequestsInPlace /\ PressedInPulse
  BY <1>5 DEF Init, NoWakeInCooldown, RequestsInPlace, PressedInPulse
<1> QED BY <1>4, <1>6 DEF SupervisorInv

(* Every task but the pulse's ends by entering a state or by staying.      *)
LEMMA TaskStateType ==
    ASSUME TypeOK,
           \/ \E next \in PowerState, request \in BOOLEAN : EnterState(next, request)
           \/ StayInState
    PROVE  /\ state' \in PowerState
           /\ armTimer' \in 0..ArmDelayTicks
           /\ wakeRequested' \in BOOLEAN
<1>1. CASE \E next \in PowerState, request \in BOOLEAN : EnterState(next, request)
  BY <1>1, EnterStateType
<1>2. CASE StayInState
  BY <1>2 DEF StayInState, TypeOK
<1> QED BY <1>1, <1>2

LEMMA TypeStep == SupervisorInv /\ [Next]_vars => TypeOK'
<1> SUFFICES ASSUME SupervisorInv, [Next]_vars
             PROVE  TypeOK'
  OBVIOUS
<1> USE DEF SupervisorInv, TaskIn
<1>1. CASE TaskHostOff
  <2>1. \/ \E next \in PowerState, request \in BOOLEAN : EnterState(next, request)
        \/ StayInState
    BY <1>1 DEF TaskHostOff, PowerState, TypeOK
  <2> QED BY <1>1, <2>1, TaskStateType, SampledType
          DEF TaskHostOff, TypeOK, pins, timers, button
<1>2. CASE TaskStandby
  <2>1. /\ state' \in PowerState
        /\ armTimer' \in 0..ArmDelayTicks
        /\ wakeRequested' \in BOOLEAN
    <3>1. CASE ConsumeWake
      <4>1. CASE WakeOutputs
        <5>1. EnterState("WAKE_PULSE", FALSE)
          BY <3>1, <4>1 DEF ConsumeWake
        <5> QED BY <5>1, TaskStateType DEF PowerState
      <4>2. CASE ~WakeOutputs
        BY <3>1, <4>2 DEF ConsumeWake, TypeOK
      <4> QED BY <4>1, <4>2
    <3>2. CASE StayInState
      BY <3>2, TaskStateType
    <3>3. CASE EnterState("HOST_ON_USB_HCI", wakeRequested)
      BY <3>3, TaskStateType DEF PowerState, TypeOK
    <3> QED BY <1>2, <3>1, <3>2, <3>3 DEF TaskStandby
  <2> QED BY <1>2, <2>1, SampledType DEF TaskStandby, TypeOK, pins, timers, button
<1>3. CASE StartPulse
  BY <1>3, SampledType, Durations DEF StartPulse, TypeOK, pins, timers
<1>4. CASE SkipPulse
  <2>1. StartSettling
    BY <1>4 DEF SkipPulse
  <2>2. \E next \in PowerState, request \in BOOLEAN : EnterState(next, request)
    BY <2>1 DEF StartSettling, PowerState, TypeOK
  <2>3. /\ cooldown' \in 0..SettleTicks
        /\ stateTimer' \in 0..Larger(SettleTicks, Larger(BootTicks, ShutdownTicks))
    BY <2>1, StateTimerBound, Durations DEF StartSettling
  <2> QED BY <1>4, <2>2, <2>3, TaskStateType, SampledType
          DEF SkipPulse, TypeOK, pins, button
<1>5. CASE TaskSettle
  <2>1. \/ \E next \in PowerState, request \in BOOLEAN : EnterState(next, request)
        \/ StayInState
    BY <1>5 DEF TaskSettle, PowerState, TypeOK
  <2>2. stateTimer' \in 0..Larger(SettleTicks, Larger(BootTicks, ShutdownTicks))
    BY <1>5, StateTimerBound DEF TaskSettle, TypeOK
  <2> QED BY <1>5, <2>1, <2>2, TaskStateType, SampledType
          DEF TaskSettle, TypeOK, pins, button
<1>6. CASE TaskWaitHostBoot
  <2>1. \/ \E next \in PowerState, request \in BOOLEAN : EnterState(next, request)
        \/ StayInState
    BY <1>6 DEF TaskWaitHostBoot, PowerState, TypeOK
  <2> QED BY <1>6, <2>1, TaskStateType, SampledType
          DEF TaskWaitHostBoot, TypeOK, pins, timers, button
<1>7. CASE TaskHostOn
  <2>1. \/ \E next \in PowerState, request \in BOOLEAN : EnterState(next, request)
        \/ StayInState
    BY <1>7 DEF TaskHostOn, PowerState
  <2>2. stateTimer' \in 0..Larger(SettleTicks, Larger(BootTicks, ShutdownTicks))
    BY <1>7, StateTimerBound DEF TaskHostOn, TypeOK
  <2> QED BY <1>7, <2>1, <2>2, TaskStateType, SampledType
          DEF TaskHostOn, TypeOK, pins, button
<1>8. CASE TaskShuttingDown
  <2>1. \/ \E next \in PowerState, request \in BOOLEAN : EnterState(next, request)
        \/ StayInState
    BY <1>8 DEF TaskShuttingDown, PowerState, TypeOK
  <2> QED BY <1>8, <2>1, TaskStateType, SampledType
          DEF TaskShuttingDown, TypeOK, pins, timers, button
<1>9. CASE FinishPulse
  <2>1. StartSettling
    BY <1>9 DEF FinishPulse
  <2>2. \E next \in PowerState, request \in BOOLEAN : EnterState(next, request)
    BY <2>1 DEF StartSettling, PowerState, TypeOK
  <2>3. /\ cooldown' \in 0..SettleTicks
        /\ stateTimer' \in 0..Larger(SettleTicks, Larger(BootTicks, ShutdownTicks))
    BY <2>1, StateTimerBound, Durations DEF StartSettling
  <2> QED BY <1>9, <2>2, <2>3, TaskStateType DEF FinishPulse, TypeOK, pins, inputs
<1>10. CASE RequestWake
  BY <1>10 DEF RequestWake, TypeOK, pins, inputs, timers, button
<1>11. CASE DebugForceStandby
  <2>1. pwr' \in DebouncedInput /\ vbus' \in DebouncedInput
    BY <1>11, DebounceType DEF DebugForceStandby, TypeOK
  <2>2. armTimer' \in 0..ArmDelayTicks
    BY <1>11, Durations DEF DebugForceStandby
  <2> QED BY <1>11, <2>1, <2>2 DEF DebugForceStandby, TypeOK, pins, timers, button
<1>12. CASE DebugReleaseStandby
  <2>1. pwr' \in DebouncedInput /\ vbus' \in DebouncedInput
    BY <1>12, LevelsType, DebounceType DEF DebugReleaseStandby, TypeOK
  <2> QED BY <1>12, <2>1 DEF DebugReleaseStandby, TypeOK, pins, timers, button
<1>13. CASE PwrPinChange
  BY <1>13 DEF PwrPinChange, TypeOK, inputs, timers, button
<1>14. CASE VbusPinChange
  BY <1>14 DEF VbusPinChange, TypeOK, inputs, timers, button
<1>15. CASE Tick
  <2>1. pwr' \in DebouncedInput /\ vbus' \in DebouncedInput
    BY <1>15, DebounceType DEF Tick, TypeOK
  <2>2. /\ stateTimer' \in 0..Larger(SettleTicks, Larger(BootTicks, ShutdownTicks))
        /\ cooldown' \in 0..SettleTicks
        /\ armTimer' \in 0..ArmDelayTicks
        /\ pulseTimer' \in 0..PulseTicks
    BY <1>15, DownType, StateTimerBound, Durations DEF Tick, TypeOK
  <2> QED BY <1>15, <2>1, <2>2 DEF Tick, TypeOK, pins
<1>16. CASE UNCHANGED vars
  BY <1>16 DEF vars, pins, inputs, timers, button, TypeOK
<1> QED BY <1>1, <1>2, <1>3, <1>4, <1>5, <1>6, <1>7, <1>8, <1>9, <1>10, <1>11, <1>12,
           <1>13, <1>14, <1>15, <1>16 DEF Next, Task

(* The task leaves WAKE_PULSE only into settling, and a wake is alive and  *)
(* the cooldown started in disjoint states.                                *)
LEMMA WakeStep ==
    SupervisorInv /\ [Next]_vars => NoWakeInCooldown' /\ RequestsInPlace' /\ PressedInPulse'
<1> SUFFICES ASSUME SupervisorInv, [Next]_vars
             PROVE  NoWakeInCooldown' /\ RequestsInPlace' /\ PressedInPulse'
  OBVIOUS
<1> USE DEF SupervisorInv, TaskIn, NoWakeInCooldown, RequestsInPlace, PressedInPulse
<1>1. CASE TaskHostOff
  BY <1>1 DEF TaskHostOff, EnterState, StayInState, timers, button, TypeOK
<1>2. CASE TaskStandby
  <2>1. CASE ConsumeWake /\ wakeRequested
    <3>1. wakeRequested' = FALSE /\ state' \in {"WAKE_PULSE", state}
      BY <2>1 DEF ConsumeWake, EnterState
    <3>2. cooldown' = cooldown /\ pressed' = pressed /\ ~pressed
      BY <1>2 DEF TaskStandby, timers, button
    <3> QED BY <2>1, <3>1, <3>2
  <2>2. CASE ~(ConsumeWake /\ wakeRequested)
    BY <1>2, <2>2 DEF TaskStandby, EnterState, StayInState, timers, button, TypeOK
  <2> QED BY <2>1, <2>2
<1>3. CASE StartPulse
  BY <1>3 DEF StartPulse, timers
<1>4. CASE SkipPulse
  BY <1>4 DEF SkipPulse, StartSettling, EnterState, button, TypeOK
<1>5. CASE TaskSettle
  BY <1>5 DEF TaskSettle, EnterState, StayInState, button, TypeOK
<1>6. CASE TaskWaitHostBoot
  BY <1>6 DEF TaskWaitHostBoot, EnterState, StayInState, timers, button, TypeOK
<1>7. CASE TaskHostOn
  BY <1>7 DEF TaskHostOn, EnterState, StayInState, button, TypeOK
<1>8. CASE TaskShuttingDown
  BY <1>8 DEF TaskShuttingDown, EnterState, StayInState, timers, button, TypeOK
<1>9. CASE FinishPulse
  BY <1>9 DEF FinishPulse, StartSettling, EnterState, TypeOK
<1>10. CASE RequestWake
  BY <1>10 DEF RequestWake, WakeAllowed, timers, button
<1>11. CASE DebugForceStandby
  BY <1>11 DEF DebugForceStandby, timers, button
<1>12. CASE DebugReleaseStandby
  BY <1>12 DEF DebugReleaseStandby, timers, button
<1>13. CASE PwrPinChange
  BY <1>13 DEF PwrPinChange, timers, button
<1>14. CASE VbusPinChange
  BY <1>14 DEF VbusPinChange, timers, button
<1>15. CASE Tick
  BY <1>15 DEF Tick, Down
<1>16. CASE UNCHANGED vars
  BY <1>16 DEF vars, timers, button
<1> QED BY <1>1, <1>2, <1>3, <1>4, <1>5, <1>6, <1>7, <1>8, <1>9, <1>10, <1>11, <1>12,
           <1>13, <1>14, <1>15, <1>16 DEF Next, Task

THEOREM SupervisorInvariant == Spec => []SupervisorInv
<1>1. Init => SupervisorInv
  BY InitEstablishes
<1>2. SupervisorInv /\ [Next]_vars => SupervisorInv'
  BY TypeStep, WakeStep DEF SupervisorInv
<1> QED BY <1>1, <1>2, PTL DEF Spec

(* Every variable keeps its type, for every wiring, build and duration.    *)
THEOREM TypeCorrect == Spec => []TypeOK
<1>1. SupervisorInv => TypeOK
  BY DEF SupervisorInv
<1> QED BY <1>1, SupervisorInvariant, PTL

(* power_supervisor_request_wake's cooldown check is enough: no wake is    *)
(* pending or carried out inside the cooldown of an earlier pulse.         *)
THEOREM NoWakeInCooldownAlways == Spec => []NoWakeInCooldown
<1>1. SupervisorInv => NoWakeInCooldown
  BY DEF SupervisorInv
<1> QED BY <1>1, SupervisorInvariant, PTL

-----------------------------------------------------------------------------
(* The supervisor with its clocks: the history variables only watch it. *)
LEMMA StepsAreSteps == [TNext]_timingVars => [Next]_vars
BY DEF TNext, timingVars, TTask, TFinishPulse, TForce, TCalls, TPwrPinChange, TTick, Next

THEOREM TimingImplementsSupervisor == TSpec => Spec
<1>1. TInit => Init
  BY DEF TInit
<1> QED BY <1>1, StepsAreSteps, PTL DEF TSpec, Spec

-----------------------------------------------------------------------------
LEMMA CountUpType ==
    ASSUME NEW limit \in Nat, NEW n \in 0..limit
    PROVE  /\ CountUp(n, limit) \in 0..limit
           /\ CountUp(n, limit) >= n
           /\ n < limit => CountUp(n, limit) = n + 1
           /\ n = limit => CountUp(n, limit) = limit
BY DEF CountUp

LEMMA LatestNoticeType == LatestNotice \in Nat
BY Durations, LoopGap DEF LatestNotice

LEMMA TimingInit == TInit => TimingInv
<1> SUFFICES ASSUME TInit PROVE TimingInv
  OBVIOUS
<1>1. SupervisorInv
  BY InitEstablishes DEF TInit
<1>2. TTypeOK
  <2>1. highFor \in 0..LatestNotice
    BY LatestNoticeType DEF TInit
  <2>2. sinceTask \in 0..MaxLoopGap
    BY LoopGap DEF TInit
  <2>3. sinceRelease \in 0..SettleTicks /\ offFor \in 0..ArmDelayTicks
    BY Durations DEF TInit
  <2> QED BY <2>1, <2>2, <2>3 DEF TInit, TTypeOK
<1>3. CooldownCounts
  BY Durations DEF TInit, Init, CooldownCounts
<1>4. ArmingCounts
  BY Durations DEF TInit, Init, ArmingCounts
<1>5. SenseLag
  BY DEF TInit, Init, SenseLag, Settled, PwrNow
<1> QED BY <1>1, <1>2, <1>3, <1>4, <1>5 DEF TimingInv

LEMMA TTypeStep == TimingInv /\ [TNext]_timingVars => TTypeOK'
<1> SUFFICES ASSUME TimingInv, [TNext]_timingVars PROVE TTypeOK'
  OBVIOUS
<1> USE DEF TimingInv, SupervisorInv, TTypeOK, TypeOK
<1>1. CASE TTask
  BY <1>1, Durations, LoopGap DEF TTask
<1>2. CASE TFinishPulse
  BY <1>2, Durations DEF TFinishPulse
<1>3. CASE TForce
  BY <1>3 DEF TForce
<1>4. CASE TCalls
  BY <1>4 DEF TCalls, history
<1>5. CASE TPwrPinChange
  BY <1>5, LatestNoticeType DEF TPwrPinChange
<1>6. CASE TTick
  <2>1. sinceTask' \in 0..MaxLoopGap
    BY <1>6, LoopGap DEF TTick
  <2>2. sinceRelease' \in 0..SettleTicks /\ offFor' \in 0..ArmDelayTicks
    BY <1>6, CountUpType, Durations DEF TTick
  <2>3. highFor' \in 0..LatestNotice
    BY <1>6, CountUpType, LatestNoticeType DEF TTick
  <2> QED BY <1>6, <2>1, <2>2, <2>3 DEF TTick
<1>7. CASE UNCHANGED timingVars
  BY <1>7 DEF timingVars, history
<1> QED BY <1>1, <1>2, <1>3, <1>4, <1>5, <1>6, <1>7 DEF TNext

-----------------------------------------------------------------------------
(* How a task moves the cooldown, the arming deadline and the history. *)
LEMMA CooldownStep == TimingInv /\ [TNext]_timingVars => CooldownCounts'
<1> SUFFICES ASSUME TimingInv, [TNext]_timingVars PROVE CooldownCounts'
  OBVIOUS
<1> USE DEF TimingInv, SupervisorInv, TTypeOK, TypeOK, CooldownCounts
<1>1. CASE TTask
  <2>1. cooldown' \in {cooldown, SettleTicks}
    BY <1>1 DEF TTask, Task, TaskHostOff, TaskStandby, StartPulse, SkipPulse, StartSettling,
       TaskSettle, TaskWaitHostBoot, TaskHostOn, TaskShuttingDown, timers
  <2>2. sinceRelease' = sinceRelease
    BY <1>1 DEF TTask
  <2>3. cooldown \in Nat /\ sinceRelease \in Nat
    BY Durations
  <2>4. sinceRelease + cooldown >= SettleTicks
    OBVIOUS
  <2>5. CASE cooldown' = cooldown
    BY <2>2, <2>4, <2>5
  <2>6. CASE cooldown' = SettleTicks
    BY <2>2, <2>3, <2>6, Durations
  <2> QED BY <2>1, <2>5, <2>6
<1>2. CASE TFinishPulse
  BY <1>2, Durations DEF TFinishPulse, FinishPulse, StartSettling
<1>3. CASE TForce
  BY <1>3 DEF TForce, DebugForceStandby, timers
<1>4. CASE TCalls
  BY <1>4 DEF TCalls, history, RequestWake, DebugReleaseStandby, VbusPinChange, timers
<1>5. CASE TPwrPinChange
  BY <1>5 DEF TPwrPinChange, PwrPinChange, timers
<1>6. CASE TTick
  <2>1. sinceRelease' = CountUp(sinceRelease, SettleTicks) /\ cooldown' = Down(cooldown)
    BY <1>6 DEF TTick, Tick
  <2> QED BY <2>1, Durations DEF CountUp, Down
<1>7. CASE UNCHANGED timingVars
  BY <1>7 DEF timingVars, history, vars, timers
<1> QED BY <1>1, <1>2, <1>3, <1>4, <1>5, <1>6, <1>7 DEF TNext

LEMMA ArmingStep == TimingInv /\ [TNext]_timingVars => ArmingCounts'
<1> SUFFICES ASSUME TimingInv, [TNext]_timingVars PROVE ArmingCounts'
  OBVIOUS
<1> USE DEF TimingInv, SupervisorInv, TTypeOK, TypeOK, ArmingCounts
<1>1. CASE TTask
  <2> USE DEF TTask, LeavesSession, Arms, TaskIn
  <2>1. CASE TaskHostOff
    BY <1>1, <2>1 DEF TaskHostOff, EnterState, StayInState, WakeArmed
  <2>2. CASE TaskStandby
    <3>1. state' \in {"HOST_ON_USB_HCI", "WAKE_PULSE", "STANDBY_HCI_HOST"}
             /\ state = "STANDBY_HCI_HOST"
      BY <2>2 DEF TaskStandby, EnterState, StayInState, ConsumeWake
    <3> QED BY <1>1, <3>1
  <2>3. CASE StartPulse
    BY <1>1, <2>3 DEF StartPulse
  <2>4. CASE SkipPulse
    BY <1>1, <2>4 DEF SkipPulse, StartSettling, EnterState
  <2>5. CASE TaskSettle
    BY <1>1, <2>5 DEF TaskSettle, EnterState, StayInState
  <2>6. CASE TaskWaitHostBoot
    BY <1>1, <2>6, Durations DEF TaskWaitHostBoot, EnterState, StayInState, ArmDeadline
  <2>7. CASE TaskHostOn
    BY <1>1, <2>7 DEF TaskHostOn, EnterState, StayInState
  <2>8. CASE TaskShuttingDown
    BY <1>1, <2>8, Durations DEF TaskShuttingDown, EnterState, StayInState, ArmDeadline
  <2> QED BY <1>1, <2>1, <2>2, <2>3, <2>4, <2>5, <2>6, <2>7, <2>8 DEF Task
<1>2. CASE TFinishPulse
  BY <1>2 DEF TFinishPulse, FinishPulse, StartSettling, EnterState
<1>3. CASE TForce
  BY <1>3 DEF TForce
<1>4. CASE TCalls
  BY <1>4 DEF TCalls, history, RequestWake, DebugReleaseStandby, VbusPinChange
<1>5. CASE TPwrPinChange
  BY <1>5 DEF TPwrPinChange, PwrPinChange
<1>6. CASE TTick
  <2>1. /\ offFor' = CountUp(offFor, ArmDelayTicks)
        /\ armTimer' = Down(armTimer)
        /\ forcedOff' = forcedOff /\ state' = state
    BY <1>6 DEF TTick, Tick
  <2> QED BY <2>1, Durations DEF CountUp, Down
<1>7. CASE UNCHANGED timingVars
  BY <1>7 DEF timingVars, history, vars
<1> QED BY <1>1, <1>2, <1>3, <1>4, <1>5, <1>6, <1>7 DEF TNext

-----------------------------------------------------------------------------
(* The lag of the debounced sense, restated on plain values. *)
LagBound(raw, filtered, timer, high, since) ==
    /\ ~raw => high <= since
    /\ raw /\ ~filtered =>
          /\ timer > 0 => high + timer <= DebounceTicks + MaxLoopGap
          /\ timer = 0 => high <= DebounceTicks + MaxLoopGap + since

LEMMA SenseLagIs ==
    SenseLag <=> (~debugForce /\ pwrPin =>
                     LagBound(pwr.lastRaw, pwr.filtered, pwr.timer, highFor, sinceTask))
BY DEF SenseLag, LagBound

(* Sampling a pin that is high keeps the bound with no time since the task. *)
LEMMA SampleLag ==
    ASSUME NEW input \in DebouncedInput, NEW high \in Nat, NEW since \in 0..MaxLoopGap,
           LagBound(input.lastRaw, input.filtered, input.timer, high, since),
           NEW next, next = Debounce(input, TRUE)
    PROVE  /\ LagBound(next.lastRaw, next.filtered, next.timer, high, 0)
           /\ ~next.filtered => high < DebounceTicks + MaxLoopGap
<1> DEFINE left == IF TRUE # input.lastRaw THEN DebounceTicks ELSE input.timer
<1>1. /\ input.lastRaw \in BOOLEAN /\ input.filtered \in BOOLEAN
      /\ input.timer \in Nat /\ input.timer <= DebounceTicks
  BY Durations DEF DebouncedInput
<1>2. /\ next.lastRaw = TRUE
      /\ next.filtered = (IF left = 0 THEN TRUE ELSE input.filtered)
      /\ next.timer = left
  BY DEF Debounce
<1>3. left \in Nat
  BY <1>1, Durations
<1>4. ~next.filtered => left # 0 /\ ~input.filtered
  BY <1>2
<1>5. ASSUME ~input.filtered, left # 0
      PROVE  high + left <= DebounceTicks + MaxLoopGap
  <2>1. CASE ~input.lastRaw
    <3>1. left = DebounceTicks /\ high <= since
      BY <2>1 DEF LagBound
    <3> HIDE DEF left
    <3> QED BY <3>1, Durations, LoopGap
  <2>2. CASE input.lastRaw
    <3>1. left = input.timer
      BY <1>1, <2>2
    <3> QED BY <1>1, <1>5, <2>2, <3>1 DEF LagBound
  <2> QED BY <2>1, <2>2
<1> HIDE DEF left
<1>6. ~next.filtered => left > 0 /\ high + left <= DebounceTicks + MaxLoopGap
  <2>1. left # 0 => left > 0
    BY <1>3
  <2> QED BY <1>4, <1>5, <2>1, Zenon
<1>7. left > 0 /\ high + left <= DebounceTicks + MaxLoopGap => high < DebounceTicks + MaxLoopGap
  BY <1>3, Durations, LoopGap
<1>8. left > 0 => left # 0
  BY <1>3
<1> QED BY <1>2, <1>6, <1>7, <1>8, Zenon DEF LagBound

(* A tick moves the bound with it. *)
LEMMA TickLag ==
    ASSUME NEW raw \in BOOLEAN, NEW filtered \in BOOLEAN, NEW timer \in Nat,
           NEW high \in Nat, NEW later \in Nat, later <= high + 1, NEW since \in Nat,
           LagBound(raw, filtered, timer, high, since)
    PROVE  LagBound(raw, filtered, Down(timer), later, since + 1)
BY Durations, LoopGap DEF LagBound, Down

LEMMA SenseStep == TimingInv /\ [TNext]_timingVars => SenseLag'
<1> SUFFICES ASSUME TimingInv, [TNext]_timingVars,
                    ~debugForce', pwrPin'
             PROVE  LagBound(pwr.lastRaw', pwr.filtered', pwr.timer', highFor', sinceTask')
  BY DEF SenseLag, LagBound
<1>1. /\ pwr \in DebouncedInput /\ highFor \in Nat /\ sinceTask \in 0..MaxLoopGap
      /\ pwr.lastRaw \in BOOLEAN /\ pwr.filtered \in BOOLEAN
      /\ pwr.timer \in Nat /\ pwr.timer <= DebounceTicks
      /\ sinceTask \in Nat
  BY LatestNoticeType, Durations, LoopGap
     DEF TimingInv, TTypeOK, SupervisorInv, TypeOK, DebouncedInput
<1>2. ~debugForce /\ pwrPin => LagBound(pwr.lastRaw, pwr.filtered, pwr.timer, highFor, sinceTask)
  BY SenseLagIs DEF TimingInv
<1>3. CASE TTask
  <2>1. /\ UpdatePowerInputs /\ debugForce' = debugForce /\ pwrPin' = pwrPin
        /\ highFor' = highFor /\ sinceTask' = 0
    BY <1>3 DEF TTask, Task, TaskIn, TaskHostOff, TaskStandby, StartPulse, SkipPulse, TaskSettle,
       TaskWaitHostBoot, TaskHostOn, TaskShuttingDown, pins
  <2>2. pwr' = Debounce(pwr, TRUE)
    BY <2>1 DEF UpdatePowerInputs, PwrNow, Debounce
  <2> QED BY <1>1, <1>2, <2>1, <2>2, SampleLag
<1>4. CASE TFinishPulse
  BY <1>2, <1>4 DEF TFinishPulse, FinishPulse, inputs, pins
<1>5. CASE TForce
  BY <1>5 DEF TForce, DebugForceStandby
<1>6. CASE TCalls
  <2>1. CASE DebugReleaseStandby
    <3>1. pwr' = [pwr EXCEPT !.lastRaw = PwrNow, !.filtered = PwrNow] /\ pwrPin
      BY <2>1 DEF DebugReleaseStandby, pins
    <3>2. PwrNow = TRUE
      BY <3>1 DEF PwrNow
    <3> QED BY <1>1, <3>1, <3>2 DEF LagBound, DebouncedInput
  <2>2. CASE RequestWake \/ VbusPinChange
    <3>1. pwr' = pwr /\ pwrPin' = pwrPin /\ debugForce' = debugForce
      BY <2>2 DEF RequestWake, VbusPinChange, pins, inputs
    <3> QED BY <1>2, <1>6, <3>1 DEF TCalls, history
  <2> QED BY <1>6, <2>1, <2>2 DEF TCalls
<1>7. CASE TPwrPinChange
  <2>1. highFor' = 0 /\ sinceTask' = sinceTask /\ pwr' = pwr
    BY <1>7 DEF TPwrPinChange, PwrPinChange, inputs
  <2> QED BY <1>1, <2>1, Durations, LoopGap DEF LagBound
<1>8. CASE TTick
  <2>1. /\ pwr' = [pwr EXCEPT !.timer = Down(@)] /\ pwrPin /\ ~debugForce
        /\ sinceTask' = sinceTask + 1 /\ highFor' = CountUp(highFor, LatestNotice)
    BY <1>8 DEF TTick, Tick, pins
  <2>2. highFor' \in Nat /\ highFor' <= highFor + 1
    BY <1>1, <2>1 DEF CountUp
  <2>3. pwr'.lastRaw = pwr.lastRaw /\ pwr'.filtered = pwr.filtered /\ pwr'.timer = Down(pwr.timer)
    BY <1>1, <2>1 DEF DebouncedInput
  <2> QED BY <1>1, <1>2, <2>1, <2>2, <2>3, TickLag
<1>9. CASE UNCHANGED timingVars
  BY <1>2, <1>9 DEF timingVars, history, vars, inputs, pins
<1> QED BY <1>3, <1>4, <1>5, <1>6, <1>7, <1>8, <1>9 DEF TNext

-----------------------------------------------------------------------------
LEMMA TimingStep == TimingInv /\ [TNext]_timingVars => TimingInv'
<1>1. TimingInv /\ [TNext]_timingVars => SupervisorInv'
  BY StepsAreSteps, TypeStep, WakeStep DEF TimingInv, SupervisorInv
<1> QED BY <1>1, TTypeStep, CooldownStep, ArmingStep, SenseStep DEF TimingInv

(* The strengthened invariant is inductive. *)
THEOREM TimingInvariant == TSpec => []TimingInv
BY TimingInit, TimingStep, PTL DEF TSpec

(* README.md's arming delay, for every delay and whatever the debug        *)
(* console does: outside forced standby, no scan and no pulse before it.   *)
THEOREM ArmDelayAlwaysHonoured == TSpec => []ArmDelayHonoured
<1>1. TimingInv => ArmDelayHonoured
  BY DEF TimingInv, ArmingCounts, ArmDelayHonoured
<1> QED BY <1>1, TimingInvariant, PTL

(* A press is a step of the task in WAKE_PULSE. *)
LEMMA OnlyPulsePresses ==
    ASSUME TimingInv, [TNext]_timingVars, ~pressed, pressed'
    PROVE  TTask /\ StartPulse
<1>1. CASE TTask
  BY <1>1 DEF TTask, Task, TaskHostOff, TaskStandby, SkipPulse, TaskSettle,
     TaskWaitHostBoot, TaskHostOn, TaskShuttingDown, button
<1>2. CASE TFinishPulse
  BY <1>2 DEF TFinishPulse, FinishPulse
<1>3. CASE TForce \/ TCalls \/ TPwrPinChange \/ TTick \/ UNCHANGED timingVars
  BY <1>3 DEF TForce, TCalls, TPwrPinChange, TTick, DebugForceStandby, RequestWake,
     DebugReleaseStandby, VbusPinChange, PwrPinChange, Tick, timingVars, vars, button
<1> QED BY <1>1, <1>2, <1>3 DEF TNext

(* Two presses are a settle time apart, because a pulse starts outside the *)
(* cooldown and the cooldown counts from the last release.                 *)
THEOREM PulsesAlwaysSpaced == TSpec => PulsesSpaced
<1>1. TimingInv /\ [TNext]_timingVars
         => [~pressed /\ pressed' => sinceRelease >= SettleTicks]_timingVars
  <2> SUFFICES ASSUME TimingInv, [TNext]_timingVars, ~pressed, pressed'
               PROVE  sinceRelease >= SettleTicks
    OBVIOUS
  <2>1. state = "WAKE_PULSE"
    BY OnlyPulsePresses DEF StartPulse, TaskIn
  <2>2. cooldown = 0
    BY <2>1 DEF TimingInv, SupervisorInv, NoWakeInCooldown
  <2>3. sinceRelease \in Nat /\ sinceRelease + cooldown >= SettleTicks
    BY Durations DEF TimingInv, TTypeOK, CooldownCounts
  <2> QED BY <2>2, <2>3
<1> QED BY <1>1, TimingInvariant, PTL DEF TSpec, PulsesSpaced

(* A host that has been on for a debounce period and a turn of the main    *)
(* loop is never pressed off, however the pin has bounced before.          *)
THEOREM RunningHostNeverPressed == TSpec => NoPressOnRunningHost
<1>1. TimingInv /\ [TNext]_timingVars
         => [~pressed /\ pressed' /\ ~debugForce
                => ~pwrPin \/ highFor < DebounceTicks + MaxLoopGap]_timingVars
  <2> SUFFICES ASSUME TimingInv, [TNext]_timingVars, ~pressed, pressed', ~debugForce, pwrPin
               PROVE  highFor < DebounceTicks + MaxLoopGap
    OBVIOUS
  <2>1. pwr' = Debounce(pwr, PwrNow) /\ ~pwr'.filtered
    BY OnlyPulsePresses DEF StartPulse, TaskIn, UpdatePowerInputs, PressDue
  <2>2. PwrNow = TRUE
    BY DEF PwrNow
  <2>3. pwr \in DebouncedInput /\ highFor \in Nat /\ sinceTask \in 0..MaxLoopGap
    BY LatestNoticeType DEF TimingInv, TTypeOK, SupervisorInv, TypeOK
  <2>4. LagBound(pwr.lastRaw, pwr.filtered, pwr.timer, highFor, sinceTask)
    BY SenseLagIs DEF TimingInv
  <2> QED BY <2>1, <2>2, <2>3, <2>4, SampleLag
<1> QED BY <1>1, TimingInvariant, PTL DEF TSpec, NoPressOnRunningHost
=============================================================================
