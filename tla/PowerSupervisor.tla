--------------------------- MODULE PowerSupervisor ---------------------------
(***************************************************************************)
(* The power supervisor, src/src/power_supervisor.c: the state machine that *)
(* watches the host's power sense and USB VBUS inputs, decides when the     *)
(* dongle is a USB adapter, a standby scanner or silent, and wakes the host *)
(* by pulsing its power button.                                             *)
(*                                                                          *)
(* Time is discrete.  A deadline of the code (an absolute_time_t) is a      *)
(* countdown of ticks: make_timeout_time_ms(d) stores d, Tick subtracts     *)
(* one, time_reached is "equals zero", and nil_time, which is time zero and *)
(* so always reached, is zero as well.                                      *)
(*                                                                          *)
(* power_supervisor_task() is called from the main loop; each state of its  *)
(* switch is one action, which first samples the inputs as the task does.   *)
(* Any time may pass between two calls.  The only wait inside the task is   *)
(* the button pulse's sleep_ms, so the pulse is a start and a finish.       *)
(***************************************************************************)
EXTENDS Platform, BuildOptions

CONSTANTS
    PwrSenseWired,       \* PIN_PWR_OK_SENSE >= 0
    VbusSenseWired,      \* PIN_USB_VBUS_SENSE >= 0
    ButtonWired,         \* PIN_PWR_BUTTON_OUT >= 0
    PowerButtonWake,     \* ENABLE_POWER_BUTTON_WAKE
    DebugConsole,        \* ENABLE_CDC_DEBUG: the commands "standby" and "host"
    DebounceTicks,       \* POWER_SENSE_DEBOUNCE_MS
    ArmDelayTicks,       \* STANDBY_WAKE_ARM_DELAY_MS
    PulseTicks,          \* POWER_BUTTON_PULSE_MS
    SettleTicks,         \* POST_WAKE_SENSE_SETTLE_MS
    BootTicks,           \* the 120 s given to the host to boot
    ShutdownTicks        \* the 1.5 s of HOST_SHUTTING_DOWN

ASSUME BuildFlags ==
    /\ PwrSenseWired \in BOOLEAN
    /\ VbusSenseWired \in BOOLEAN
    /\ ButtonWired \in BOOLEAN
    /\ PowerButtonWake \in BOOLEAN
    /\ DebugConsole \in BOOLEAN

ASSUME Durations ==
    /\ DebounceTicks \in Nat
    /\ ArmDelayTicks \in Nat
    /\ PulseTicks \in Nat
    /\ SettleTicks \in Nat
    /\ BootTicks \in Nat
    /\ ShutdownTicks \in Nat

VARIABLES
    pwrPin,         \* the level of the host's power LED, as wired to the pin
    vbusPin,        \* the level of the host's VBUS
    pwr,            \* pwr_ok_last_raw, pwr_ok_filtered, pwr_ok_changed_at
    vbus,           \* the same three for VBUS
    state,          \* the power_state_t
    stateTimer,     \* state_deadline
    cooldown,       \* cooldown_until
    armTimer,       \* standby_armed_at
    wakeRequested,  \* wake_requested
    debugForce,     \* debug_force_standby
    pressed,        \* the button pin is driven low
    pulseTimer      \* what is left of the pulse's sleep_ms

pins   == <<pwrPin, vbusPin>>
inputs == <<pwr, vbus>>
timers == <<stateTimer, cooldown>>
button == <<pressed, pulseTimer>>
vars   == <<pins, inputs, state, timers, armTimer, wakeRequested, debugForce, button>>

(* power_state_t without UNKNOWN, which init overwrites before the first   *)
(* task, and FAULT, which nothing ever assigns.                            *)
PowerState == {"HOST_OFF", "STANDBY_HCI_HOST", "WAKE_PULSE", "WAIT_WAKE_SENSE_SETTLE",
               "WAIT_HOST_BOOT", "HOST_ON_USB_HCI", "HOST_SHUTTING_DOWN"}

WakeOutputs == PowerButtonWake \/ StandbyHidKeyboard

Larger(a, b) == IF a >= b THEN a ELSE b

-----------------------------------------------------------------------------
(* Inputs.  An input whose pin is not wired reads as present. *)
PwrNow  == PwrSenseWired => pwrPin
VbusNow == VbusSenseWired => vbusPin

Settled(level) == [lastRaw |-> level, filtered |-> level, timer |-> 0]

(* A faulty variant: the timer restarts at every sample that differs from  *)
(* the filtered level.                                                     *)
FaultyDebounce(input, raw) ==
    LET left == IF raw # input.filtered THEN DebounceTicks ELSE input.timer
    IN  [lastRaw  |-> raw,
         filtered |-> IF left = 0 THEN raw ELSE input.filtered,
         timer    |-> left]

(* debounce_bool: a change of the raw level restarts the timer, and the    *)
(* filtered level follows the raw one once the timer has run out.          *)
Debounce(input, raw) ==
    LET left == IF raw # input.lastRaw THEN DebounceTicks ELSE input.timer
    IN  [lastRaw  |-> raw,
         filtered |-> IF left = 0 THEN raw ELSE input.filtered,
         timer    |-> left]

(* While standby is forced both inputs read low and their timers keep      *)
(* the deadline they had.                                                  *)
ForcedLow(input) == [input EXCEPT !.lastRaw = FALSE, !.filtered = FALSE]

UpdatePowerInputs ==
    IF debugForce
    THEN pwr' = ForcedLow(pwr) /\ vbus' = ForcedLow(vbus)
    ELSE pwr' = Debounce(pwr, PwrNow) /\ vbus' = Debounce(vbus, VbusNow)

HostUp == pwr.filtered /\ vbus.filtered

-----------------------------------------------------------------------------
(* Arming and entering a state. *)
(* A faulty variant: the delay is applied to forced standby instead. *)
FaultyArmDeadline == IF debugForce THEN ArmDelayTicks ELSE 0

ArmDeadline == IF debugForce THEN 0 ELSE ArmDelayTicks
WakeArmed   == armTimer = 0

(* set_state, for a next state that differs from the present one; request  *)
(* is what the caller leaves in wake_requested.                            *)
EnterState(next, request) ==
    /\ state' = next
    /\ armTimer' = CASE next = "HOST_OFF"         -> ArmDeadline
                     [] next = "STANDBY_HCI_HOST" -> armTimer
                     [] OTHER                     -> 0
    /\ wakeRequested' = (next # "HOST_OFF" /\ request)

StayInState == UNCHANGED <<state, armTimer, wakeRequested>>

(* A faulty variant: the cooldown is not looked at. *)
FaultyWakeAllowed ==
    /\ state \in {"STANDBY_HCI_HOST", "HOST_OFF"}
    /\ WakeArmed

(* power_supervisor_request_wake drops a request unless it may start a     *)
(* pulse now.                                                              *)
WakeAllowed ==
    /\ state \in {"STANDBY_HCI_HOST", "HOST_OFF"}
    /\ cooldown = 0
    /\ WakeArmed

Init ==
    /\ pwrPin \in BOOLEAN /\ (~PwrSenseWired => pwrPin)
    /\ vbusPin \in BOOLEAN /\ (~VbusSenseWired => vbusPin)
    /\ pwr = Settled(PwrNow)
    /\ vbus = Settled(VbusNow)
    /\ state = IF PwrNow /\ VbusNow THEN "HOST_ON_USB_HCI" ELSE "HOST_OFF"
    /\ stateTimer = 0
    /\ cooldown = 0
    /\ armTimer = IF state = "HOST_OFF" THEN ArmDelayTicks ELSE 0
    /\ wakeRequested = FALSE
    /\ debugForce = FALSE
    /\ pressed = FALSE
    /\ pulseTimer = 0

-----------------------------------------------------------------------------
(* The task, one action per state. *)
TaskIn(s) == ~pressed /\ state = s /\ UpdatePowerInputs

TaskHostOff ==
    /\ TaskIn("HOST_OFF")
    /\ \/ HostUp' /\ EnterState("HOST_ON_USB_HCI", wakeRequested)
       \/ ~HostUp' /\ WakeArmed /\ EnterState("STANDBY_HCI_HOST", wakeRequested)
       \/ ~HostUp' /\ ~WakeArmed /\ StayInState
    /\ UNCHANGED <<pins, timers, debugForce, button>>

ConsumeWake ==
    IF WakeOutputs
    THEN EnterState("WAKE_PULSE", FALSE)
    ELSE wakeRequested' = FALSE /\ UNCHANGED <<state, armTimer>>

TaskStandby ==
    /\ TaskIn("STANDBY_HCI_HOST")
    /\ \/ HostUp' /\ EnterState("HOST_ON_USB_HCI", wakeRequested)
       \/ ~HostUp' /\ wakeRequested /\ ConsumeWake
       \/ ~HostUp' /\ ~wakeRequested /\ StayInState
    /\ UNCHANGED <<pins, timers, debugForce, button>>

(* A faulty variant: the power sense is not looked at. *)
FaultyPressDue == PowerButtonWake /\ ButtonWired

(* The button is pressed only while the filtered power sense is low. *)
PressDue == PowerButtonWake /\ ButtonWired /\ ~pwr.filtered

(* A faulty variant: the cooldown is given the boot deadline. *)
FaultyStartSettling ==
    /\ cooldown' = BootTicks
    /\ stateTimer' = SettleTicks
    /\ EnterState("WAIT_WAKE_SENSE_SETTLE", wakeRequested)

StartSettling ==
    /\ cooldown' = SettleTicks
    /\ stateTimer' = SettleTicks
    /\ EnterState("WAIT_WAKE_SENSE_SETTLE", wakeRequested)

(* WAKE_PULSE: the keypress request is an output the composition adds. *)
StartPulse ==
    /\ TaskIn("WAKE_PULSE")
    /\ PressDue'
    /\ pressed' = TRUE
    /\ pulseTimer' = PulseTicks
    /\ UNCHANGED <<pins, state, timers, armTimer, wakeRequested, debugForce>>

(* The sleep is over: release the button and go on with the same task. *)
FinishPulse ==
    /\ pressed /\ pulseTimer = 0
    /\ pressed' = FALSE
    /\ StartSettling
    /\ UNCHANGED <<pins, inputs, debugForce, pulseTimer>>

SkipPulse ==
    /\ TaskIn("WAKE_PULSE")
    /\ ~PressDue'
    /\ StartSettling
    /\ UNCHANGED <<pins, debugForce, button>>

TaskSettle ==
    /\ TaskIn("WAIT_WAKE_SENSE_SETTLE")
    /\ \/ /\ HostUp'
          /\ EnterState("HOST_ON_USB_HCI", wakeRequested)
          /\ UNCHANGED stateTimer
       \/ /\ ~HostUp' /\ stateTimer = 0
          /\ EnterState("WAIT_HOST_BOOT", wakeRequested)
          /\ stateTimer' = BootTicks
       \/ /\ ~HostUp' /\ stateTimer > 0
          /\ StayInState
          /\ UNCHANGED stateTimer
    /\ UNCHANGED <<pins, cooldown, debugForce, button>>

TaskWaitHostBoot ==
    /\ TaskIn("WAIT_HOST_BOOT")
    /\ \/ HostUp' /\ EnterState("HOST_ON_USB_HCI", wakeRequested)
       \/ ~HostUp' /\ stateTimer = 0 /\ EnterState("HOST_OFF", wakeRequested)
       \/ ~HostUp' /\ stateTimer > 0 /\ StayInState
    /\ UNCHANGED <<pins, timers, debugForce, button>>

(* A faulty variant: a session ends only when VBUS is gone too. *)
FaultySessionOver == ~pwr.filtered /\ ~vbus.filtered

(* Only the power sense ends a host session, VBUS does not. *)
SessionOver == ~pwr.filtered

TaskHostOn ==
    /\ TaskIn("HOST_ON_USB_HCI")
    /\ \/ /\ SessionOver'
          /\ EnterState("HOST_SHUTTING_DOWN", FALSE)
          /\ stateTimer' = ShutdownTicks
       \/ /\ ~SessionOver'
          /\ StayInState
          /\ UNCHANGED stateTimer
    /\ UNCHANGED <<pins, cooldown, debugForce, button>>

TaskShuttingDown ==
    /\ TaskIn("HOST_SHUTTING_DOWN")
    /\ \/ stateTimer = 0 /\ EnterState("HOST_OFF", wakeRequested)
       \/ stateTimer > 0 /\ StayInState
    /\ UNCHANGED <<pins, timers, debugForce, button>>

Task == TaskHostOff \/ TaskStandby \/ StartPulse \/ SkipPulse \/ TaskSettle
            \/ TaskWaitHostBoot \/ TaskHostOn \/ TaskShuttingDown

-----------------------------------------------------------------------------
(* The calls of the other components, between two tasks. *)
RequestWake ==
    /\ ~pressed
    /\ WakeAllowed
    /\ wakeRequested' = TRUE
    /\ UNCHANGED <<pins, inputs, state, timers, armTimer, debugForce, button>>

(* The debug command "standby". *)
DebugForceStandby ==
    /\ DebugConsole /\ ~pressed
    /\ debugForce' = TRUE
    /\ pwr' = ForcedLow(pwr) /\ vbus' = ForcedLow(vbus)
    /\ armTimer' = 0
    /\ wakeRequested' = FALSE
    /\ UNCHANGED <<pins, state, timers, button>>

(* The debug command "host": the inputs are re-read at once, undebounced,  *)
(* and the arming deadline is not restored.                                *)
DebugReleaseStandby ==
    /\ DebugConsole /\ ~pressed
    /\ debugForce' = FALSE
    /\ pwr' = [pwr EXCEPT !.lastRaw = PwrNow, !.filtered = PwrNow]
    /\ vbus' = [vbus EXCEPT !.lastRaw = VbusNow, !.filtered = VbusNow]
    /\ UNCHANGED <<pins, state, timers, armTimer, wakeRequested, button>>

(* The world: the host changes a level, or a tick passes. *)
PwrPinChange ==
    /\ PwrSenseWired
    /\ pwrPin' = ~pwrPin
    /\ UNCHANGED <<vbusPin, inputs, state, timers, armTimer, wakeRequested, debugForce, button>>

VbusPinChange ==
    /\ VbusSenseWired
    /\ vbusPin' = ~vbusPin
    /\ UNCHANGED <<pwrPin, inputs, state, timers, armTimer, wakeRequested, debugForce, button>>

Tick ==
    /\ pwr' = [pwr EXCEPT !.timer = Down(@)]
    /\ vbus' = [vbus EXCEPT !.timer = Down(@)]
    /\ stateTimer' = Down(stateTimer)
    /\ cooldown' = Down(cooldown)
    /\ armTimer' = Down(armTimer)
    /\ pulseTimer' = Down(pulseTimer)
    /\ UNCHANGED <<pins, state, wakeRequested, debugForce, pressed>>

Next ==
    \/ Task \/ FinishPulse
    \/ RequestWake \/ DebugForceStandby \/ DebugReleaseStandby
    \/ PwrPinChange \/ VbusPinChange \/ Tick

Spec == Init /\ [][Next]_vars

-----------------------------------------------------------------------------
DebouncedInput == [lastRaw : BOOLEAN, filtered : BOOLEAN, timer : 0..DebounceTicks]

(* The type invariant. *)
TypeOK ==
    /\ pwrPin \in BOOLEAN
    /\ vbusPin \in BOOLEAN
    /\ pwr \in DebouncedInput
    /\ vbus \in DebouncedInput
    /\ state \in PowerState
    /\ stateTimer \in 0..Larger(SettleTicks, Larger(BootTicks, ShutdownTicks))
    /\ cooldown \in 0..SettleTicks
    /\ armTimer \in 0..ArmDelayTicks
    /\ wakeRequested \in BOOLEAN
    /\ debugForce \in BOOLEAN
    /\ pressed \in BOOLEAN
    /\ pulseTimer \in 0..PulseTicks

(* A wake that has been asked for, or that is being carried out, never     *)
(* falls into the cooldown of an earlier pulse: request_wake's check is    *)
(* made long before the pulse it allows, and the debug commands can move   *)
(* the machine to standby while the cooldown still runs.                   *)
NoWakeInCooldown ==
    wakeRequested \/ state = "WAKE_PULSE" => cooldown = 0

(* Its inductive strengthening: a request is alive only where it can still *)
(* be granted, or where the end of the session is going to clear it, and   *)
(* the button is down only inside the pulse.                               *)
RequestsInPlace ==
    wakeRequested => state \in {"HOST_OFF", "STANDBY_HCI_HOST", "HOST_ON_USB_HCI"}

PressedInPulse == pressed => state = "WAKE_PULSE"

SupervisorInv == TypeOK /\ NoWakeInCooldown /\ RequestsInPlace /\ PressedInPulse

(* The machine never sticks: whatever state it is left in, once the host   *)
(* stays on (both inputs high, standby not forced) the dongle becomes the  *)
(* host's USB adapter and stays so.                                        *)
HostStaysOn == PwrNow /\ VbusNow /\ ~debugForce
BridgeFollowsHost == <>[]HostStaysOn => <>[](state = "HOST_ON_USB_HCI")

(* And once the host's power stays off, the dongle leaves host mode for    *)
(* good and keeps coming back to standby scanning, however many wake       *)
(* pulses fail: no waiting state is a trap.                                *)
StandbyFollowsOff ==
    <>[]~PwrNow => /\ <>[](state # "HOST_ON_USB_HCI")
                   /\ []<>(state = "STANDBY_HCI_HOST")
=============================================================================
