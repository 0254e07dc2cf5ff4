------------------------ MODULE PowerSupervisorTiming ------------------------
(***************************************************************************)
(* The power supervisor with the history its timing promises speak of: how  *)
(* long ago the button was released, how long the host has been considered  *)
(* off, how long its power sense has been high.  The history variables only *)
(* watch: every step is a step of PowerSupervisor.                          *)
(*                                                                          *)
(* One assumption about the rest of the main loop is added: at most         *)
(* MaxLoopGap ticks pass between two calls of power_supervisor_task().      *)
(* Without a bound on the loop nothing can be said about the moment of the  *)
(* press, because the sense inputs are only polled.                         *)
(***************************************************************************)
EXTENDS PowerSupervisor

CONSTANT MaxLoopGap

ASSUME LoopGap == MaxLoopGap \in Nat /\ MaxLoopGap >= PulseTicks /\ MaxLoopGap > 0

VARIABLES
    sinceTask,     \* ticks since the task was last called
    sinceRelease,  \* ticks since the button was last released
    offFor,        \* ticks since the supervisor last left the host session
    forcedOff,     \* standby was forced since the last arming of the delay
    highFor        \* ticks the power pin has been high

history    == <<sinceTask, sinceRelease, offFor, forcedOff, highFor>>
timingVars == <<vars, history>>

(* Each count stops at the largest value a property compares it with. *)
LatestNotice == DebounceTicks + 2 * MaxLoopGap + 1
CountUp(n, limit) == IF n < limit THEN n + 1 ELSE n

TInit ==
    /\ Init
    /\ sinceTask = 0
    /\ sinceRelease = SettleTicks
    /\ offFor = 0
    /\ forcedOff = FALSE
    /\ highFor = IF pwrPin THEN LatestNotice ELSE 0

LeavesSession == state = "HOST_ON_USB_HCI" /\ state' # "HOST_ON_USB_HCI"
Arms          == state # "HOST_OFF" /\ state' = "HOST_OFF"

TTask ==
    /\ Task
    /\ sinceTask' = 0
    /\ offFor' = IF LeavesSession THEN 0 ELSE offFor
    /\ forcedOff' = IF Arms THEN debugForce ELSE forcedOff
    /\ UNCHANGED <<sinceRelease, highFor>>

TFinishPulse ==
    /\ FinishPulse
    /\ sinceRelease' = 0
    /\ UNCHANGED <<sinceTask, offFor, forcedOff, highFor>>

TForce ==
    /\ DebugForceStandby
    /\ forcedOff' = TRUE
    /\ UNCHANGED <<sinceTask, sinceRelease, offFor, highFor>>

TCalls ==
    /\ RequestWake \/ DebugReleaseStandby \/ VbusPinChange
    /\ UNCHANGED history

TPwrPinChange ==
    /\ PwrPinChange
    /\ highFor' = 0
    /\ UNCHANGED <<sinceTask, sinceRelease, offFor, forcedOff>>

TTick ==
    /\ Tick
    /\ sinceTask < MaxLoopGap
    /\ sinceTask' = sinceTask + 1
    /\ sinceRelease' = CountUp(sinceRelease, SettleTicks)
    /\ offFor' = CountUp(offFor, ArmDelayTicks)
    /\ highFor' = IF pwrPin THEN CountUp(highFor, LatestNotice) ELSE 0
    /\ UNCHANGED forcedOff

TNext == TTask \/ TFinishPulse \/ TForce \/ TCalls \/ TPwrPinChange \/ TTick

TSpec == TInit /\ [][TNext]_timingVars

(* The main loop never stops calling the task and time never stops. *)
TFairSpec == TSpec /\ WF_timingVars(TTask \/ TFinishPulse) /\ WF_timingVars(TTick)

-----------------------------------------------------------------------------
TTypeOK ==
    /\ sinceTask \in 0..MaxLoopGap
    /\ sinceRelease \in 0..SettleTicks
    /\ offFor \in 0..ArmDelayTicks
    /\ forcedOff \in BOOLEAN
    /\ highFor \in 0..LatestNotice

(* README.md, Wake Behavior: two presses of the power button are at least  *)
(* the post-wake settle time apart, counted from the release of the first, *)
(* whatever happens in between: a session that starts and ends at once, a  *)
(* forced standby, an arming delay of zero.                                *)
PulsesSpaced ==
    [][~pressed /\ pressed' => sinceRelease >= SettleTicks]_timingVars

(* README.md, Wake Behavior: once a host session is over (or at power up   *)
(* with the host off) neither standby scanning nor a pulse starts before   *)
(* the arming delay has passed, unless the debug console forces standby.   *)
(* The deadline is set on one path, consumed on another and dropped by     *)
(* every other state change.                                               *)
ArmDelayHonoured ==
    state \in {"STANDBY_HCI_HOST", "WAKE_PULSE"} /\ ~forcedOff => offFor >= ArmDelayTicks

(* A press never turns off a host that is on: when the button goes down    *)
(* outside forced standby, the power sense has been high for less than one *)
(* debounce period and one turn of the main loop.                          *)
NoPressOnRunningHost ==
    [][~pressed /\ pressed' /\ ~debugForce =>
          ~pwrPin \/ highFor < DebounceTicks + MaxLoopGap]_timingVars

(* README.md, Wake Behavior: after pressing the button the firmware "waits *)
(* 10 seconds before trusting the power LED/sense input again", so the host *)
(* mode is not entered on the word of that input before they have passed.  *)
SenseNotTrustedWhileSettling ==
    [][state # "HOST_ON_USB_HCI" /\ state' = "HOST_ON_USB_HCI"
          => sinceRelease >= SettleTicks]_timingVars

-----------------------------------------------------------------------------
(* The inductive strengthenings of the three. *)

CooldownCounts == sinceRelease + cooldown >= SettleTicks

(* What the arming deadline still owes is what offFor lacks. *)
ArmingCounts ==
    ~forcedOff =>
        /\ state = "HOST_OFF" => offFor + armTimer >= ArmDelayTicks
        /\ state \in {"STANDBY_HCI_HOST", "WAKE_PULSE"} => offFor >= ArmDelayTicks

(* How far the debounced power sense can lag behind a pin that stays high. *)
SenseLag ==
    ~debugForce /\ pwrPin =>
        /\ ~pwr.lastRaw => highFor <= sinceTask
        /\ pwr.lastRaw /\ ~pwr.filtered =>
              /\ pwr.timer > 0 => highFor + pwr.timer <= DebounceTicks + MaxLoopGap
              /\ pwr.timer = 0 => highFor <= DebounceTicks + MaxLoopGap + sinceTask

(* The conjunction the proofs induct over. *)
TimingInv ==
    /\ TTypeOK
    /\ SupervisorInv
    /\ CooldownCounts
    /\ ArmingCounts
    /\ SenseLag
=============================================================================
