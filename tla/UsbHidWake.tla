----------------------------- MODULE UsbHidWake -----------------------------
(***************************************************************************)
(* The standby keyboard, src/src/usb_hid_wake.c: one F13 key press per wake, *)
(* held for HID_WAKE_KEYPRESS_MS, sent when the host polls the endpoint.    *)
(* The host's side of the bus is external; TinyUSB reports it to the code   *)
(* as tud_mounted(), tud_suspended() and tud_hid_ready(), and only          *)
(* tud_task() lets it change.                                               *)
(***************************************************************************)
EXTENDS Platform, BuildOptions

CONSTANT KeyTicks  \* HID_WAKE_KEYPRESS_MS

ASSUME KeyDuration == KeyTicks \in Nat

VARIABLES
    standbyMode,  \* standby_mode
    keyPending,   \* key_pending
    keyDown,      \* key_down, and the host's view of the key
    releaseTimer, \* release_at
    bus           \* the host's side: no configuration, suspended, not polling, polling

keyVars == <<keyPending, keyDown, releaseTimer>>
hidVars == <<standbyMode, keyVars>>

BusState == {"unmounted", "suspended", "busy", "ready"}

(* usb_hid_wake_init; main() then sets standbyMode. *)
HidInit ==
    /\ keyPending = FALSE
    /\ keyDown = FALSE
    /\ releaseTimer = 0
    /\ bus = "unmounted"

(* tud_task() delivers what happened on the bus. *)
TudTask == bus' \in BusState

SetStandby(standby) == standbyMode' = standby

(* A faulty variant: the key is left to the remote wake-up alone. *)
FaultyRequestKeypress ==
    /\ keyPending' = (keyPending \/ (StandbyHidKeyboard /\ bus = "suspended"))
    /\ UNCHANGED <<standbyMode, keyDown, releaseTimer>>

(* usb_hid_wake_request_keypress; the remote wake-up it asks for on a      *)
(* suspended bus changes nothing in the firmware, its answer is only logged. *)
RequestKeypress ==
    /\ keyPending' = (keyPending \/ StandbyHidKeyboard)
    /\ UNCHANGED <<standbyMode, keyDown, releaseTimer>>

(* A faulty variant: the hold is one tick too long. *)
FaultySendKey ==
    /\ ~keyDown /\ keyPending
    /\ bus' = "ready"
    /\ keyPending' = FALSE
    /\ keyDown' = TRUE
    /\ releaseTimer' = KeyTicks + 1

SendKey ==
    /\ ~keyDown /\ keyPending
    /\ bus' = "ready"
    /\ keyPending' = FALSE
    /\ keyDown' = TRUE
    /\ releaseTimer' = KeyTicks

ReleaseKey ==
    /\ keyDown /\ releaseTimer = 0
    /\ bus' = "ready"
    /\ keyDown' = FALSE
    /\ UNCHANGED <<keyPending, releaseTimer>>

KeyWaits ==
    /\ \/ ~keyDown /\ ~keyPending
       \/ keyDown /\ releaseTimer > 0
       \/ bus' # "ready"
    /\ UNCHANGED keyVars

(* A faulty variant: the release of the key is forgotten. *)
FaultyHidTask ==
    /\ TudTask
    /\ SendKey \/ UNCHANGED keyVars
    /\ UNCHANGED standbyMode

(* usb_hid_wake_task, after the tud_task() the main loop calls before it. *)
HidTask ==
    /\ TudTask
    /\ SendKey \/ ReleaseKey \/ KeyWaits
    /\ UNCHANGED standbyMode

HidTypeOK ==
    /\ standbyMode \in BOOLEAN
    /\ keyPending \in BOOLEAN
    /\ keyDown \in BOOLEAN
    /\ releaseTimer \in 0..KeyTicks
    /\ bus \in BusState
=============================================================================
