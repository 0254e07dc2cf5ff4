------------------------------ MODULE Firmware ------------------------------
(***************************************************************************)
(* The main loop, src/src/main.c, composed with the power supervisor and    *)
(* the standby keyboard.  One turn of the loop is five steps: supervise     *)
(* (power_supervisor_task), mode (the handlers of a state change), service  *)
(* (USB or the controller), hid (tud_task and the keyboard) and rest (the   *)
(* other tasks, of which the debug console acts on the supervisor).         *)
(* Configuring the controller for standby is a step of its own, configure,  *)
(* because it blocks for up to a second per HCI command while controller    *)
(* packets keep arriving through backend_rx.                                *)
(*                                                                          *)
(* loopState is the loop's local copy of the power state, and lastState is  *)
(* the one whose handler ran last.                                          *)
(***************************************************************************)
EXTENDS PowerSupervisor, UsbHidWake

VARIABLES
    pc,                 \* where the main loop is
    loopState,          \* the loop's local variable state
    lastState,          \* last_state
    standbyConfigured,  \* standby_configured
    bridgeEnabled,      \* bridge_enabled of usb_bth_bridge.c
    usbConnected,       \* the pull-up set by tud_connect() and tud_disconnect()
    sessionSince        \* history: a host session began after the last key request

modeVars == <<standbyConfigured, bridgeEnabled, usbConnected>>
loopVars == <<pc, loopState, lastState, modeVars, sessionSince>>
firmware == <<vars, hidVars, bus, loopVars>>

LoopStep == {"supervise", "mode", "configure", "service", "hid", "rest"}

FInit ==
    /\ Init
    /\ HidInit
    /\ pc = "supervise"
    /\ loopState = state
    /\ lastState = "UNKNOWN"
    /\ standbyConfigured = FALSE
    /\ bridgeEnabled = FALSE
    /\ standbyMode = (StandbyHidKeyboard /\ state # "HOST_ON_USB_HCI")
    /\ usbConnected = (StandbyHidKeyboard \/ state = "HOST_ON_USB_HCI")
    /\ sessionSince = FALSE

-----------------------------------------------------------------------------
(* supervise *)
AfterTask ==
    /\ pc' = IF pressed' THEN "supervise" ELSE "mode"
    /\ loopState' = state'
    /\ UNCHANGED <<lastState, modeVars, bus>>

SessionBegins == sessionSince' = (sessionSince \/ state' = "HOST_ON_USB_HCI")

SuperviseQuietly ==
    /\ pc = "supervise"
    /\ \/ TaskHostOff \/ TaskStandby \/ TaskSettle \/ TaskWaitHostBoot
       \/ TaskHostOn \/ TaskShuttingDown
    /\ SessionBegins
    /\ AfterTask
    /\ UNCHANGED hidVars

SuperviseWakePulse ==
    /\ pc = "supervise"
    /\ StartPulse \/ SkipPulse
    /\ RequestKeypress
    /\ sessionSince' = FALSE
    /\ AfterTask

SupervisePulseEnds ==
    /\ pc = "supervise"
    /\ FinishPulse
    /\ AfterTask
    /\ UNCHANGED <<hidVars, sessionSince>>

-----------------------------------------------------------------------------
(* mode: the handlers of a state change. *)
AtMode == pc = "mode" /\ UNCHANGED <<vars, keyVars, bus, loopState, sessionSince>>

HandlerDone == lastState' = loopState /\ pc' = "service"

SameMode ==
    /\ AtMode
    /\ loopState = lastState
    /\ pc' = "service"
    /\ UNCHANGED <<lastState, modeVars, standbyMode>>

EnterHostUsbMode ==
    /\ AtMode
    /\ loopState # lastState /\ loopState = "HOST_ON_USB_HCI"
    /\ standbyConfigured' = FALSE
    /\ SetStandby(FALSE)
    /\ bridgeEnabled' = TRUE
    /\ usbConnected' = TRUE
    /\ HandlerDone

(* enter_standby_mode, up to the configuration of the controller. *)
TakeController ==
    /\ SetStandby(TRUE)
    /\ bridgeEnabled' = FALSE
    /\ usbConnected' = StandbyHidKeyboard
    /\ UNCHANGED standbyConfigured

EnterStandbyMode ==
    /\ AtMode
    /\ loopState # lastState /\ loopState = "STANDBY_HCI_HOST"
    /\ TakeController
    /\ \/ standbyConfigured /\ HandlerDone
       \/ ~standbyConfigured /\ pc' = "configure" /\ UNCHANGED lastState

(* A faulty variant: the handler of a shutdown is missing. *)
FaultySilentStates == {"HOST_OFF", "WAIT_WAKE_SENSE_SETTLE"}

(* The states in which neither the host nor the scanner runs. *)
SilentStates == {"HOST_SHUTTING_DOWN", "HOST_OFF", "WAIT_WAKE_SENSE_SETTLE"}

EnterSilentMode ==
    /\ AtMode
    /\ loopState # lastState /\ loopState \in SilentStates
    /\ SetStandby(TRUE)
    /\ bridgeEnabled' = FALSE
    /\ usbConnected' = StandbyHidKeyboard
    /\ standbyConfigured' = FALSE
    /\ HandlerDone

EnterWakePulse ==
    /\ AtMode
    /\ loopState # lastState /\ loopState = "WAKE_PULSE"
    /\ standbyConfigured' = FALSE
    /\ HandlerDone
    /\ UNCHANGED <<bridgeEnabled, usbConnected, standbyMode>>

OtherMode ==
    /\ AtMode
    /\ loopState # lastState
    /\ loopState \notin SilentStates \cup {"HOST_ON_USB_HCI", "STANDBY_HCI_HOST", "WAKE_PULSE"}
    /\ HandlerDone
    /\ UNCHANGED <<modeVars, standbyMode>>

-----------------------------------------------------------------------------
(* configure: hci_host_configure_standby_wake() returns.  It was called    *)
(* either by the mode handler or by the service step's retry.              *)
ConfigureReturns(ok) ==
    /\ pc = "configure"
    /\ standbyConfigured' = ok
    /\ IF loopState # lastState
       THEN HandlerDone
       ELSE pc' = "hid" /\ UNCHANGED lastState
    /\ UNCHANGED <<vars, hidVars, bus, loopState, bridgeEnabled, usbConnected, sessionSince>>

(* service *)
AtService == pc = "service" /\ UNCHANGED <<vars, keyVars, loopState, lastState, sessionSince>>

ServiceHost ==
    /\ AtService
    /\ loopState = "HOST_ON_USB_HCI"
    /\ TudTask
    /\ pc' = "rest"
    /\ UNCHANGED <<modeVars, standbyMode>>

(* A faulty variant: a failed configuration is not tried again. *)
FaultyRetryDue == FALSE

RetryDue == ~standbyConfigured

ServiceStandby ==
    /\ AtService
    /\ loopState = "STANDBY_HCI_HOST"
    /\ \/ RetryDue /\ TakeController /\ pc' = "configure"
       \/ ~RetryDue /\ pc' = "hid" /\ UNCHANGED <<modeVars, standbyMode>>
    /\ UNCHANGED bus

ServiceOther ==
    /\ AtService
    /\ loopState \notin {"HOST_ON_USB_HCI", "STANDBY_HCI_HOST"}
    /\ pc' = "hid"
    /\ UNCHANGED <<modeVars, standbyMode, bus>>

(* backend_rx: a controller packet that matches the wake policy.  Packets  *)
(* arrive from transport->task(), in the service step and inside the       *)
(* configuration's waits, and are looked at only in standby.               *)
MatchingPacket ==
    /\ pc \in {"service", "configure"}
    /\ state = "STANDBY_HCI_HOST"
    /\ RequestWake
    /\ UNCHANGED <<hidVars, bus, loopVars>>

(* hid: skipped when the keyboard is not built in. *)
Keyboard ==
    /\ pc = "hid"
    /\ IF StandbyHidKeyboard THEN HidTask ELSE UNCHANGED <<hidVars, bus>>
    /\ pc' = "rest"
    /\ UNCHANGED <<vars, loopState, lastState, modeVars, sessionSince>>

(* rest: debug commands, any number of them, then the loop closes. *)
DebugCommand ==
    /\ pc = "rest" /\ DebugConsole
    /\ DebugForceStandby \/ DebugReleaseStandby \/ RequestWake
    /\ UNCHANGED <<hidVars, bus, loopVars>>

LoopCloses ==
    /\ pc = "rest"
    /\ pc' = "supervise"
    /\ UNCHANGED <<vars, hidVars, bus, loopState, lastState, modeVars, sessionSince>>

-----------------------------------------------------------------------------
(* Any amount of time may pass anywhere in the loop. *)
FTick ==
    /\ Tick
    /\ releaseTimer' = Down(releaseTimer)
    /\ UNCHANGED <<standbyMode, keyPending, keyDown, bus, loopVars>>

Pins == (PwrPinChange \/ VbusPinChange) /\ UNCHANGED <<hidVars, bus, loopVars>>

Loop ==
    \/ SuperviseQuietly \/ SuperviseWakePulse \/ SupervisePulseEnds
    \/ SameMode \/ EnterHostUsbMode \/ EnterStandbyMode \/ EnterSilentMode
    \/ EnterWakePulse \/ OtherMode
    \/ ConfigureReturns(TRUE) \/ ConfigureReturns(FALSE)
    \/ ServiceHost \/ ServiceStandby \/ ServiceOther
    \/ Keyboard \/ LoopCloses

FNext == Loop \/ MatchingPacket \/ DebugCommand \/ FTick \/ Pins

FSpec == FInit /\ [][FNext]_firmware

(* The loop and time go on.  A controller that is asked again and again    *)
(* sometimes accepts the configuration, and a host that is offered a        *)
(* report again and again sometimes polls for it.                           *)
HostPolls == Keyboard /\ bus' = "ready"
FFairSpec ==
    /\ FSpec
    /\ WF_firmware(Loop) /\ WF_firmware(FTick)
    /\ SF_firmware(ConfigureReturns(TRUE))
    /\ SF_firmware(HostPolls)

-----------------------------------------------------------------------------
FTypeOK ==
    /\ TypeOK /\ HidTypeOK
    /\ pc \in LoopStep
    /\ loopState \in PowerState
    /\ lastState \in PowerState \cup {"UNKNOWN"}
    /\ standbyConfigured \in BOOLEAN
    /\ bridgeEnabled \in BOOLEAN
    /\ usbConnected \in BOOLEAN
    /\ sessionSince \in BOOLEAN

(* README.md, Wake Behavior: "The Bluetooth bridge is disabled while the   *)
(* Pico owns the controller for standby scanning".  From the first         *)
(* configuration command to the end of standby the bridge is off; the      *)
(* bridge runs only on a connected bus; and a configuration is never       *)
(* believed in after the controller went back to the host.                 *)
OneControllerOwner ==
    /\ pc = "configure" \/ standbyConfigured => ~bridgeEnabled
    /\ bridgeEnabled => usbConnected /\ lastState = "HOST_ON_USB_HCI"
    /\ standbyConfigured => lastState = "STANDBY_HCI_HOST"

(* A wake that was accepted is not lost: the key goes out, unless the host  *)
(* comes up by itself or standby is forced on the console, which drops it. *)
WakeDelivered ==
    wakeRequested ~> (keyDown \/ state = "HOST_ON_USB_HCI" \/ debugForce)

(* A failed standby configuration is repaired: if the machine stays in     *)
(* standby, the controller is in the end configured for good.              *)
StandbyConfigurationRetried ==
    <>[](state = "STANDBY_HCI_HOST") => <>[]standbyConfigured

(* Outside a host session the wake key does not stay down.                 *)
WakeKeyReleasedInStandby == keyDown ~> (~keyDown \/ state = "HOST_ON_USB_HCI")

(* usb_hid_wake.c holds the wake key for HID_WAKE_KEYPRESS_MS: a key that   *)
(* was pressed is released.                                                *)
WakeKeyReleased == keyDown ~> ~keyDown

(* README.md, Wake Behavior: a key press answers "a matching wake event",   *)
(* and after the PC is found off no wake is sent before the arming delay:  *)
(* no key is pressed for a wake that an earlier host session has answered. *)
WakeKeyIsFresh == [][~keyDown /\ keyDown' => ~sessionSince]_firmware
=============================================================================
