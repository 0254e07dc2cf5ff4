---------------------------- MODULE BuildOptions ----------------------------
(***************************************************************************)
(* The build option that two components read.                               *)
(***************************************************************************)
CONSTANT StandbyHidKeyboard  \* ENABLE_STANDBY_HID_KEYBOARD

ASSUME KeyboardOption == StandbyHidKeyboard \in BOOLEAN
=============================================================================
