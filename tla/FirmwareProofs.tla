--------------------------- MODULE FirmwareProofs ---------------------------
(***************************************************************************)
(* Proofs about the main loop, for all build options and durations: the     *)
(* composition is still the supervisor, so what is proved of the supervisor *)
(* holds of it, and the controller has one owner at a time.                 *)
(***************************************************************************)
EXTENDS Firmware, PowerSupervisorProofs

(* Every step of the loop is a step of the supervisor or leaves it alone.  *)
LEMMA LoopStepsAreSteps == [FNext]_firmware => [Next]_vars
<1> SUFFICES ASSUME [FNext]_firmware PROVE [Next]_vars
  OBVIOUS
<1>1. CASE SuperviseQuietly \/ SuperviseWakePulse \/ SupervisePulseEnds
  BY <1>1 DEF SuperviseQuietly, SuperviseWakePulse, SupervisePulseEnds, Next, Task
<1>2. CASE MatchingPacket \/ DebugCommand \/ FTick \/ Pins
  BY <1>2 DEF MatchingPacket, DebugCommand, FTick, Pins, Next
<1>3. CASE \/ SameMode \/ EnterHostUsbMode \/ EnterStandbyMode \/ EnterSilentMode
           \/ EnterWakePulse \/ OtherMode
  BY <1>3 DEF SameMode, EnterHostUsbMode, EnterStandbyMode, EnterSilentMode,
       EnterWakePulse, OtherMode, AtMode
<1>4. CASE \/ ConfigureReturns(TRUE) \/ ConfigureReturns(FALSE)
           \/ ServiceHost \/ ServiceStandby \/ ServiceOther
           \/ Keyboard \/ LoopCloses
  BY <1>4 DEF ConfigureReturns, ServiceHost, ServiceStandby, ServiceOther, AtService,
       Keyboard, LoopCloses
<1>5. CASE UNCHANGED firmware
  BY <1>5 DEF firmware
<1> QED
  BY <1>1, <1>2, <1>3, <1>4, <1>5 DEF FNext, Loop

(* The main loop drives the supervisor as its specification allows, so the *)
(* supervisor's theorems hold of the whole firmware.                       *)
THEOREM FirmwareImplementsSupervisor == FSpec => Spec
<1>1. FInit => Init
  BY DEF FInit
<1> QED
  BY <1>1, LoopStepsAreSteps, PTL DEF FSpec, Spec

-----------------------------------------------------------------------------
(* One turn of the loop makes at most one transition of the supervisor, so *)
(* no handler that has to run is skipped.                                  *)
OneTransition ==
    /\ lastState = "HOST_ON_USB_HCI" => state \in {"HOST_ON_USB_HCI", "HOST_SHUTTING_DOWN"}
    /\ lastState = "STANDBY_HCI_HOST" =>
          state \in {"STANDBY_HCI_HOST", "HOST_ON_USB_HCI", "WAKE_PULSE"}

LoopInPlace ==
    /\ pc = "supervise" => lastState \in {state, "UNKNOWN"}
    /\ pc # "supervise" => loopState = state
    /\ pc = "mode" => OneTransition
    /\ pc = "configure" => state = "STANDBY_HCI_HOST"
    /\ pc \in {"service", "hid", "rest"} => lastState = state

OwnerInv == OneControllerOwner /\ LoopInPlace

LEMMA OwnerInit == FInit => OwnerInv
BY DEF FInit, OwnerInv, OneControllerOwner, LoopInPlace

(* The supervisor's transitions out of the two modes that own something.   *)
LEMMA TaskTransition ==
    ASSUME TaskHostOff \/ TaskStandby \/ TaskSettle \/ TaskWaitHostBoot
             \/ TaskHostOn \/ TaskShuttingDown \/ SkipPulse
    PROVE  /\ pressed' = pressed /\ ~pressed
           /\ state = "HOST_ON_USB_HCI" => state' \in {"HOST_ON_USB_HCI", "HOST_SHUTTING_DOWN"}
           /\ state = "STANDBY_HCI_HOST" =>
                 state' \in {"STANDBY_HCI_HOST", "HOST_ON_USB_HCI", "WAKE_PULSE"}
BY DEF TaskHostOff, TaskStandby, TaskSettle, TaskWaitHostBoot, TaskHostOn, TaskShuttingDown,
     SkipPulse, TaskIn, EnterState, StayInState, ConsumeWake, StartSettling, button

LEMMA SuperviseKeepsOwner ==
    ASSUME OwnerInv, PressedInPulse, SuperviseQuietly \/ SuperviseWakePulse \/ SupervisePulseEnds
    PROVE  OwnerInv'
<1>1. /\ pc = "supervise" /\ AfterTask
      /\ UNCHANGED <<lastState, modeVars>>
  BY DEF SuperviseQuietly, SuperviseWakePulse, SupervisePulseEnds, AfterTask
<1>2. lastState \in {state, "UNKNOWN"}
  BY <1>1 DEF OwnerInv, LoopInPlace
<1>3. OneControllerOwner'
  BY <1>1 DEF AfterTask, OwnerInv, OneControllerOwner, modeVars
<1>4. CASE SuperviseQuietly \/ (SuperviseWakePulse /\ SkipPulse)
  <2>1. pc' = "mode" /\ loopState' = state' /\ OneTransition'
    BY <1>1, <1>2, <1>4, TaskTransition DEF SuperviseQuietly, AfterTask, OneTransition
  <2> QED
    BY <1>3, <2>1 DEF OwnerInv, LoopInPlace
<1>5. CASE SuperviseWakePulse /\ StartPulse
  <2>1. pc' = "supervise" /\ state' = state
    BY <1>1, <1>5 DEF StartPulse, AfterTask
  <2> QED
    BY <1>1, <1>2, <1>3, <2>1 DEF OwnerInv, LoopInPlace
<1>6. CASE SupervisePulseEnds
  <2>1. state = "WAKE_PULSE" /\ pc' = "mode" /\ loopState' = state'
    BY <1>1, <1>6 DEF SupervisePulseEnds, FinishPulse, PressedInPulse, AfterTask
  <2> QED
    BY <1>1, <1>2, <1>3, <2>1 DEF OwnerInv, LoopInPlace, OneTransition
<1> QED
  BY <1>4, <1>5, <1>6 DEF SuperviseWakePulse

(* The handlers: each leaves the controller with the owner of its mode.    *)
LEMMA ModeKeepsOwner ==
    ASSUME OwnerInv,
           \/ SameMode \/ EnterHostUsbMode \/ EnterStandbyMode \/ EnterSilentMode
           \/ EnterWakePulse \/ OtherMode
    PROVE  OwnerInv'
<1>1. /\ pc = "mode" /\ loopState = state /\ OneTransition
      /\ state' = state /\ loopState' = loopState
  BY DEF SameMode, EnterHostUsbMode, EnterStandbyMode, EnterSilentMode, EnterWakePulse,
         OtherMode, AtMode, vars, OwnerInv, LoopInPlace
<1>2. CASE SameMode
  BY <1>1, <1>2 DEF SameMode, modeVars, OwnerInv, OneControllerOwner, LoopInPlace
<1>3. CASE EnterHostUsbMode
  BY <1>1, <1>3 DEF EnterHostUsbMode, HandlerDone, OwnerInv, OneControllerOwner, LoopInPlace
<1>4. CASE EnterStandbyMode
  BY <1>1, <1>4 DEF EnterStandbyMode, TakeController, HandlerDone,
       OwnerInv, OneControllerOwner, LoopInPlace
<1>5. CASE EnterSilentMode
  BY <1>1, <1>5 DEF EnterSilentMode, HandlerDone, OwnerInv, OneControllerOwner, LoopInPlace
<1>6. CASE EnterWakePulse
  BY <1>1, <1>6 DEF EnterWakePulse, HandlerDone, OneTransition,
       OwnerInv, OneControllerOwner, LoopInPlace
<1>7. CASE OtherMode
  BY <1>1, <1>7 DEF OtherMode, SilentStates, HandlerDone, OneTransition, modeVars,
       OwnerInv, OneControllerOwner, LoopInPlace
<1> QED
  BY <1>2, <1>3, <1>4, <1>5, <1>6, <1>7

LEMMA RestKeepsOwner ==
    ASSUME OwnerInv,
           \/ ConfigureReturns(TRUE) \/ ConfigureReturns(FALSE)
           \/ ServiceHost \/ ServiceStandby \/ ServiceOther
           \/ Keyboard \/ LoopCloses
           \/ MatchingPacket \/ DebugCommand \/ FTick \/ Pins
           \/ UNCHANGED firmware
    PROVE  OwnerInv'
<1> USE DEF OwnerInv, OneControllerOwner, LoopInPlace
<1>1. ASSUME UNCHANGED <<state, loopVars>>
      PROVE  OwnerInv'
  BY <1>1 DEF loopVars, modeVars, OneTransition
<1>2. CASE ConfigureReturns(TRUE) \/ ConfigureReturns(FALSE)
  BY <1>2 DEF ConfigureReturns, HandlerDone, vars
<1>3. CASE ServiceHost \/ ServiceStandby \/ ServiceOther
  <2>1. /\ pc = "service" /\ loopState = state /\ lastState = state
        /\ state' = state /\ loopState' = loopState /\ lastState' = lastState
    BY <1>3 DEF ServiceHost, ServiceStandby, ServiceOther, AtService, vars
  <2>2. CASE ServiceHost \/ ServiceOther
    BY <2>1, <2>2 DEF ServiceHost, ServiceOther, modeVars
  <2>3. CASE ServiceStandby /\ RetryDue
    BY <2>1, <2>3 DEF ServiceStandby, TakeController, RetryDue
  <2>4. CASE ServiceStandby /\ ~RetryDue
    BY <2>1, <2>4 DEF ServiceStandby, modeVars
  <2> QED
    BY <1>3, <2>2, <2>3, <2>4
<1>4. CASE Keyboard \/ LoopCloses
  BY <1>4 DEF Keyboard, LoopCloses, modeVars, vars
<1>5. CASE MatchingPacket \/ DebugCommand \/ FTick \/ Pins \/ UNCHANGED firmware
  <2>1. UNCHANGED <<state, loopVars>>
    BY <1>5 DEF MatchingPacket, DebugCommand, FTick, Pins, firmware, vars, RequestWake,
         DebugForceStandby, DebugReleaseStandby, Tick, PwrPinChange, VbusPinChange
  <2> QED
    BY <1>1, <2>1
<1> QED
  BY <1>2, <1>3, <1>4, <1>5

LEMMA OwnerStep == OwnerInv /\ PressedInPulse /\ [FNext]_firmware => OwnerInv'
BY SuperviseKeepsOwner, ModeKeepsOwner, RestKeepsOwner DEF FNext, Loop

(* The bridge and the standby scanner never own the controller together:   *)
(* from the first configuration command to the end of standby the bridge   *)
(* is off, and a configuration is not believed in afterwards.              *)
THEOREM ControllerHasOneOwner == FSpec => []OneControllerOwner
<1>1. FSpec => []SupervisorInv
  BY FirmwareImplementsSupervisor, SupervisorInvariant
<1>2. SupervisorInv => PressedInPulse
  BY DEF SupervisorInv
<1>3. OwnerInv => OneControllerOwner
  BY DEF OwnerInv
<1> QED
  BY <1>1, <1>2, <1>3, OwnerInit, OwnerStep, PTL DEF FSpec
-----------------------------------------------------------------------------
(* Types. *)
LoopTypeOK ==
    /\ HidTypeOK
    /\ pc \in LoopStep
    /\ loopState \in PowerState
    /\ lastState \in PowerState \cup {"UNKNOWN"}
    /\ standbyConfigured \in BOOLEAN
    /\ bridgeEnabled \in BOOLEAN
    /\ usbConnected \in BOOLEAN
    /\ sessionSince \in BOOLEAN

LEMMA LoopTypeInit == FInit => LoopTypeOK
<1> SUFFICES ASSUME FInit PROVE LoopTypeOK
  OBVIOUS
<1>1. state \in PowerState
  BY DEF FInit, Init, PowerState
<1>2. 0 \in 0..KeyTicks
  BY KeyDuration
<1>3. standbyMode \in BOOLEAN /\ usbConnected \in BOOLEAN
  BY KeyboardOption DEF FInit
<1>4. HidTypeOK
  BY <1>2, <1>3 DEF FInit, HidInit, HidTypeOK, BusState
<1> QED
  BY <1>1, <1>3, <1>4 DEF FInit, LoopTypeOK, LoopStep

LEMMA KeyType ==
    ASSUME HidTypeOK, HidTask
    PROVE  HidTypeOK'
<1>1. bus' \in BusState /\ standbyMode' = standbyMode
  BY DEF HidTask, TudTask
<1>2. CASE SendKey
  <2>1. KeyTicks \in 0..KeyTicks
    BY KeyDuration
  <2> QED
    BY <1>1, <1>2, <2>1 DEF HidTypeOK, SendKey
<1>3. CASE ReleaseKey
  BY <1>1, <1>3 DEF HidTypeOK, ReleaseKey
<1>4. CASE KeyWaits
  BY <1>1, <1>4 DEF HidTypeOK, KeyWaits, keyVars
<1> QED
  BY <1>2, <1>3, <1>4 DEF HidTask

LEMMA LoopTypeStep ==
    TypeOK /\ TypeOK' /\ LoopTypeOK /\ [FNext]_firmware => LoopTypeOK'
<1> SUFFICES ASSUME TypeOK, TypeOK', LoopTypeOK, [FNext]_firmware PROVE LoopTypeOK'
  OBVIOUS
<1> USE DEF LoopTypeOK
<1>1. state \in PowerState /\ state' \in PowerState /\ pressed' \in BOOLEAN
  BY DEF TypeOK
<1>2. CASE SuperviseQuietly \/ SupervisePulseEnds
  BY <1>1, <1>2 DEF SuperviseQuietly, SupervisePulseEnds, AfterTask, SessionBegins, LoopStep,
       modeVars, hidVars, keyVars, HidTypeOK
<1>3. CASE SuperviseWakePulse
  BY <1>1, <1>3, KeyboardOption DEF SuperviseWakePulse, AfterTask, RequestKeypress, LoopStep,
       modeVars, HidTypeOK
<1>4. CASE \/ SameMode \/ EnterHostUsbMode \/ EnterStandbyMode \/ EnterSilentMode
           \/ EnterWakePulse \/ OtherMode
  <2>1. AtMode /\ loopState' = loopState /\ pc' \in LoopStep
    BY <1>4 DEF SameMode, EnterHostUsbMode, EnterStandbyMode, EnterSilentMode, EnterWakePulse,
         OtherMode, AtMode, HandlerDone, LoopStep
  <2>2. lastState' \in PowerState \cup {"UNKNOWN"}
    BY <1>4, <2>1 DEF SameMode, EnterHostUsbMode, EnterStandbyMode, EnterSilentMode,
         EnterWakePulse, OtherMode, HandlerDone
  <2>3. /\ standbyMode' \in BOOLEAN /\ standbyConfigured' \in BOOLEAN
        /\ bridgeEnabled' \in BOOLEAN /\ usbConnected' \in BOOLEAN
    BY <1>4, KeyboardOption DEF SameMode, EnterHostUsbMode, EnterStandbyMode, EnterSilentMode,
         EnterWakePulse, OtherMode, TakeController, SetStandby, modeVars, HidTypeOK
  <2> QED
    BY <2>1, <2>2, <2>3 DEF AtMode, keyVars, HidTypeOK
<1>5. CASE ConfigureReturns(TRUE) \/ ConfigureReturns(FALSE)
  BY <1>5 DEF ConfigureReturns, HandlerDone, LoopStep, hidVars, keyVars, HidTypeOK
<1>6. CASE ServiceHost \/ ServiceStandby \/ ServiceOther
  BY <1>6, KeyboardOption DEF ServiceHost, ServiceStandby, ServiceOther, AtService, TakeController,
       SetStandby, TudTask, LoopStep, modeVars, keyVars, HidTypeOK
<1>7. CASE Keyboard
  <2>1. HidTypeOK'
    BY <1>7, KeyType DEF Keyboard, hidVars, keyVars, HidTypeOK
  <2> QED
    BY <1>7, <2>1 DEF Keyboard, LoopStep, modeVars
<1>8. CASE LoopCloses
  BY <1>8 DEF LoopCloses, LoopStep, modeVars, hidVars, keyVars, HidTypeOK
<1>9. CASE FTick
  <2>1. releaseTimer' \in 0..KeyTicks
    BY <1>9, KeyDuration DEF FTick, Down, HidTypeOK
  <2> QED
    BY <1>9, <2>1 DEF FTick, loopVars, modeVars, HidTypeOK
<1>10. CASE MatchingPacket \/ DebugCommand \/ Pins \/ UNCHANGED firmware
  BY <1>10 DEF MatchingPacket, DebugCommand, Pins, firmware, loopVars, modeVars, hidVars,
       keyVars, HidTypeOK
<1> QED
  BY <1>2, <1>3, <1>4, <1>5, <1>6, <1>7, <1>8, <1>9, <1>10 DEF FNext, Loop

(* Every variable of the composed firmware keeps its type, for all build   *)
(* options and durations.                                                  *)
THEOREM FirmwareTypeCorrect == FSpec => []FTypeOK
<1>1. FSpec => []TypeOK
  BY FirmwareImplementsSupervisor, TypeCorrect
<1>2. TypeOK /\ LoopTypeOK => FTypeOK
  BY DEF LoopTypeOK, FTypeOK
<1> QED
  BY <1>1, <1>2, LoopTypeInit, LoopTypeStep, PTL DEF FSpec
=============================================================================
