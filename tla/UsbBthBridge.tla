---------------------------- MODULE UsbBthBridge ----------------------------
(***************************************************************************)
(* The host-mode bridge, src/src/usb_bth_bridge.c, in its CYW43 build:      *)
(* host commands and ACL packets go through usb_queue to the controller,    *)
(* controller events and ACL packets through backend_queue to TinyUSB.      *)
(* Four host commands are answered by the bridge itself, because the CYW43  *)
(* answers them late or never ("quirk"), and a fifth is not even sent       *)
(* ("extfeat").                                                             *)
(*                                                                          *)
(* backend_queue is the ring of the code, slots and indices, because        *)
(* TinyUSB is given a pointer into the slot and reads it while the transfer *)
(* lasts; usb_queue, whose slots are read only inside the call that sends   *)
(* them, is a sequence.  One of the four answered commands is modelled: its *)
(* counter is its own.  The standby host sends two of them as well, and an  *)
(* answer does not say whose command it is for.  TinyUSB and the host behind it, the controller and *)
(* the transport are external.                                              *)
(*                                                                          *)
(* Everything runs in the main loop.  usb_bth_bridge_task() is three steps, *)
(* begin, the sending loop and the transmission, between which only time    *)
(* passes.                                                                  *)
(***************************************************************************)
EXTENDS Platform, Sequences

CONSTANTS
    Depth,           \* USB_QUEUE_DEPTH
    TxTicks,         \* the second a transmission to the host may take
    SuppressMax,     \* UINT8_MAX
    OutstandingMax,  \* model bound: late answers the controller still owes
    StandbyMax       \* model bound: those of them it owes the standby host; 0 for
                     \* a command that the standby host does not send

ASSUME BridgeBounds ==
    /\ Depth \in Nat /\ Depth >= 2
    /\ TxTicks \in Nat
    /\ SuppressMax \in Nat
    /\ OutstandingMax \in Nat /\ OutstandingMax <= SuppressMax
    /\ StandbyMax \in Nat

VARIABLES
    enabled,      \* bridge_enabled
    usbReady,     \* tud_ready(): configured and not suspended
    usbQueue,     \* usb_queue
    slots,        \* backend_queue
    head, tail,   \* backend_head, backend_tail
    inFlight,     \* backend_tx_in_flight
    txTimer,      \* what is left of the second since backend_tx_started_ms
    suppress,     \* the suppress_..._complete counter of the quirk command
    phase,        \* where usb_bth_bridge_task is
    transfer,     \* external: what TinyUSB is sending on each IN endpoint
    outstanding,  \* external: quirk commands the controller has yet to answer
    standbyOwed,  \* external: those of the standby host that it has yet to answer
    taken,        \* history: counts used up by answers to the standby host's commands,
                  \* as far as they are missed by an answer still to come
    given         \* history: the packet last given to TinyUSB

ring    == <<slots, head, tail>>
tx      == <<inFlight, txTimer>>
owed    == <<outstanding, standbyOwed, taken>>
outside == <<transfer, owed>>
bridgeVars == <<enabled, usbReady, usbQueue, ring, tx, suppress, phase, outside, given>>

(* Commands and ACL packets that the bridge does not look at, and the      *)
(* commands it answers itself.                                             *)
HostPacket == {"plain", "quirk"}
Packet     == {"event", "acl"}
Empty      == "empty"

Slot     == 0..(Depth - 1)
(* What the controller sends: "complete" is the Command Complete event of   *)
(* the quirk command, to whomever.                                          *)
FromController == Packet \cup {"complete"}
Kind(p) == IF p = "complete" THEN "event" ELSE p

Endpoint == {"interrupt", "bulk"}
Idle     == [slot |-> 0, packet |-> Empty]
EndpointOf(p) == IF p = "acl" THEN "bulk" ELSE "interrupt"

-----------------------------------------------------------------------------
(* The ring. *)
Succ(i) == IF i = Depth - 1 THEN 0 ELSE i + 1
Count   == IF head >= tail THEN head - tail ELSE head + Depth - tail

Full == Succ(head) = tail

(* queue_push of a packet on backend_queue; a full queue drops it. *)
Push(p) ==
    IF Full
    THEN UNCHANGED <<slots, head>>
    ELSE slots' = [slots EXCEPT ![head] = p] /\ head' = Succ(head)

(* The packets queued, oldest first. *)
Queued == [i \in 1..Count |-> slots[IF tail + i > Depth THEN tail + i - 1 - Depth ELSE tail + i - 1]]

Init ==
    /\ enabled = FALSE /\ usbReady = FALSE
    /\ usbQueue = <<>>
    /\ slots = [i \in Slot |-> Empty]
    /\ head = 0 /\ tail = 0
    /\ inFlight = FALSE /\ txTimer = 0
    /\ suppress = 0
    /\ phase = "idle"
    /\ transfer = [e \in Endpoint |-> Idle]
    /\ outstanding = 0 /\ standbyOwed = 0 /\ taken = 0
    /\ given = Empty

-----------------------------------------------------------------------------
(* usb_bth_bridge_set_enabled. *)
Enable ==
    /\ phase = "idle" /\ ~enabled
    /\ enabled' = TRUE
    /\ UNCHANGED <<usbReady, usbQueue, ring, tx, suppress, phase, outside, given>>

(* Faulty variants: the packet in flight is not forgotten, or the counters *)
(* are reset too.                                                          *)
FaultyDisableInFlight ==
    /\ phase = "idle" /\ enabled
    /\ enabled' = FALSE
    /\ usbQueue' = <<>>
    /\ head' = 0 /\ tail' = 0
    /\ UNCHANGED <<usbReady, slots, tx, suppress, phase, outside, given>>

FaultyDisableCounters ==
    /\ phase = "idle" /\ enabled
    /\ enabled' = FALSE
    /\ usbQueue' = <<>>
    /\ head' = 0 /\ tail' = 0
    /\ inFlight' = FALSE /\ txTimer' = 0
    /\ suppress' = 0
    /\ UNCHANGED <<usbReady, slots, phase, outside, given>>

(* Disabling resets everything but the suppress counters; the slots keep   *)
(* their bytes.                                                            *)
Disable ==
    /\ phase = "idle" /\ enabled
    /\ enabled' = FALSE
    /\ usbQueue' = <<>>
    /\ head' = 0 /\ tail' = 0
    /\ inFlight' = FALSE /\ txTimer' = 0
    /\ UNCHANGED <<usbReady, slots, suppress, phase, outside, given>>

(* The host's packets, as TinyUSB's callbacks deliver them. *)
HostSends(p) ==
    /\ phase = "idle" /\ enabled /\ usbReady
    /\ usbQueue' = IF Len(usbQueue) < Depth - 1 THEN Append(usbQueue, p) ELSE usbQueue
    /\ UNCHANGED <<enabled, usbReady, ring, tx, suppress, phase, outside, given>>

(* Read Local Extended Features is answered before it is queued. *)
HostAsksExtendedFeatures ==
    /\ phase = "idle" /\ enabled /\ usbReady
    /\ Push("event")
    /\ UNCHANGED <<enabled, usbReady, usbQueue, tail, tx, suppress, phase, outside, given>>

(* usb_bth_bridge_should_drop_delayed_quirk_complete: any answer to the     *)
(* quirk command, as long as the counter says that one is due.              *)
DropsDelayed(p) == p = "complete" /\ suppress > 0

PassesOn(p) == enabled /\ ~DropsDelayed(p)

(* usb_bth_bridge_backend_packet.  Large vendor events are dropped, which   *)
(* is no step.                                                              *)
BackendPacket(p) ==
    /\ phase = "idle"
    /\ \/ PassesOn(p) /\ Push(Kind(p)) /\ UNCHANGED suppress
       \/ enabled /\ DropsDelayed(p) /\ suppress' = suppress - 1 /\ UNCHANGED <<slots, head>>
       \/ ~enabled /\ UNCHANGED <<slots, head, suppress>>
    /\ UNCHANGED <<enabled, usbReady, usbQueue, tail, tx, phase, transfer, given>>

(* Packets that have nothing to do with the quirk command. *)
ControllerPacket(p) == BackendPacket(p) /\ UNCHANGED owed

(* The answers come late, in any session and in any order, or never.        *)
AtMost(n, bound) == IF n <= bound THEN n ELSE bound

AnswersHost ==
    /\ outstanding > 0
    /\ outstanding' = outstanding - 1
    /\ BackendPacket("complete")
    /\ taken' = AtMost(IF PassesOn("complete") THEN Down(taken) ELSE taken, outstanding')
    /\ UNCHANGED standbyOwed

AnswersStandby ==
    /\ standbyOwed > 0
    /\ standbyOwed' = standbyOwed - 1
    /\ BackendPacket("complete")
    /\ taken' = AtMost(IF enabled /\ DropsDelayed("complete") THEN taken + 1 ELSE taken, outstanding)
    /\ UNCHANGED outstanding

NeverAnswers ==
    /\ phase = "idle"
    /\ \/ outstanding > 0 /\ outstanding' = outstanding - 1 /\ UNCHANGED standbyOwed
       \/ standbyOwed > 0 /\ standbyOwed' = standbyOwed - 1 /\ UNCHANGED outstanding
    /\ taken' = AtMost(taken, outstanding')
    /\ UNCHANGED <<enabled, usbReady, usbQueue, ring, tx, suppress, phase, transfer, given>>

(* The standby host sends its own command, while the bridge is disabled; it *)
(* waits a second for the answer.                                           *)
StandbySends ==
    /\ phase = "idle" /\ ~enabled
    /\ standbyOwed < StandbyMax /\ outstanding + standbyOwed < OutstandingMax
    /\ standbyOwed' = standbyOwed + 1
    /\ UNCHANGED <<enabled, usbReady, usbQueue, ring, tx, suppress, phase, transfer,
                   outstanding, taken, given>>

-----------------------------------------------------------------------------
(* usb_bth_bridge_task. *)

(* A faulty variant: a transmission never times out. *)
FaultyTimedOut == FALSE

TimedOut == inFlight /\ txTimer = 0

TaskBegins ==
    /\ phase = "idle" /\ enabled /\ usbReady
    /\ IF TimedOut
       THEN /\ tail' = IF tail # head THEN Succ(tail) ELSE tail
            /\ inFlight' = FALSE
       ELSE UNCHANGED <<tail, inFlight>>
    /\ phase' = "send"
    /\ UNCHANGED <<enabled, usbReady, usbQueue, slots, head, txTimer, suppress, outside, given>>

(* Faulty variants: the counter wraps past its maximum, or counts only the *)
(* commands whose synthesized answer found room.                           *)
FaultyCountWraps == suppress' = suppress + 1

FaultyCountIfQueued ==
    suppress' = IF suppress < SuppressMax /\ ~Full THEN suppress + 1 ELSE suppress

CountAnswerDue == suppress' = IF suppress < SuppressMax THEN suppress + 1 ELSE suppress

(* The transport takes the oldest host packet; a quirk command is answered *)
(* at once and its real answer will be suppressed.                         *)
SendOne ==
    /\ phase = "send"
    /\ usbQueue # <<>>
    /\ usbQueue' = Tail(usbQueue)
    /\ \/ /\ Head(usbQueue) = "quirk"
          /\ outstanding + standbyOwed < OutstandingMax
          /\ outstanding' = outstanding + 1
          /\ Push("event")
          /\ CountAnswerDue
       \/ /\ Head(usbQueue) # "quirk"
          /\ UNCHANGED <<outstanding, slots, head, suppress>>
    /\ UNCHANGED <<enabled, usbReady, tail, tx, phase, transfer, standbyOwed, taken, given>>

(* The queue is empty or the transport refuses. *)
SendStops ==
    /\ phase = "send"
    /\ phase' = "tx"
    /\ UNCHANGED <<enabled, usbReady, usbQueue, ring, tx, suppress, outside, given>>

(* tud_bt_event_send and tud_bt_acl_data_send refuse a busy endpoint. *)
CanTransmit ==
    /\ ~inFlight /\ tail # head
    /\ transfer[EndpointOf(slots[tail])] = Idle

Transmit ==
    /\ phase = "tx" /\ CanTransmit
    /\ transfer' = [transfer EXCEPT ![EndpointOf(slots[tail])] =
                       [slot |-> tail, packet |-> slots[tail]]]
    /\ given' = slots[tail]
    /\ inFlight' = TRUE
    /\ txTimer' = TxTicks
    /\ phase' = "idle"
    /\ UNCHANGED <<enabled, usbReady, usbQueue, ring, suppress, owed>>

TransmitNothing ==
    /\ phase = "tx" /\ ~CanTransmit
    /\ phase' = "idle"
    /\ UNCHANGED <<enabled, usbReady, usbQueue, ring, tx, suppress, outside, given>>

-----------------------------------------------------------------------------
(* A faulty variant: a callback drops the oldest packet, given or not. *)
FaultySentCallback ==
    /\ tail' = IF tail # head THEN Succ(tail) ELSE tail
    /\ inFlight' = FALSE
    /\ txTimer' = 0

(* tud_bt_event_sent_cb and tud_bt_acl_data_sent_cb do the same: neither    *)
(* asks which packet was sent.                                              *)
SentCallback ==
    /\ tail' = IF inFlight /\ tail # head THEN Succ(tail) ELSE tail
    /\ inFlight' = FALSE
    /\ txTimer' = 0

(* The host has read a packet from the endpoint. *)
HostReads(e) ==
    /\ phase = "idle" /\ usbReady
    /\ transfer[e] # Idle
    /\ transfer' = [transfer EXCEPT ![e] = Idle]
    /\ SentCallback
    /\ UNCHANGED <<enabled, usbReady, usbQueue, slots, head, suppress, phase, owed, given>>

(* The bus: a reset aborts the transfers without a callback, a suspended   *)
(* bus keeps them.                                                         *)
BusReset ==
    /\ phase = "idle"
    /\ transfer' = [e \in Endpoint |-> Idle]
    /\ usbReady' = FALSE
    /\ UNCHANGED <<enabled, usbQueue, ring, tx, suppress, phase, owed, given>>

BusReadiness(ready) ==
    /\ phase = "idle"
    /\ usbReady' = ready
    /\ UNCHANGED <<enabled, usbQueue, ring, tx, suppress, phase, outside, given>>

BridgeTick ==
    /\ txTimer' = Down(txTimer)
    /\ UNCHANGED <<enabled, usbReady, usbQueue, ring, inFlight, suppress, phase, outside, given>>

BridgeTask == TaskBegins \/ SendOne \/ SendStops \/ Transmit \/ TransmitNothing

Next ==
    \/ Enable \/ Disable
    \/ \E p \in HostPacket : HostSends(p)
    \/ HostAsksExtendedFeatures
    \/ \E p \in Packet : ControllerPacket(p)
    \/ AnswersHost \/ AnswersStandby \/ NeverAnswers \/ StandbySends
    \/ BridgeTask
    \/ \E e \in Endpoint : HostReads(e)
    \/ BusReset \/ BusReadiness(TRUE) \/ BusReadiness(FALSE)
    \/ BridgeTick

Spec == Init /\ [][Next]_bridgeVars

(* The main loop keeps calling the task, time passes, and a host that is   *)
(* offered a packet again and again reads it some time.                    *)
FairSpec ==
    /\ Spec
    /\ SF_bridgeVars(TaskBegins) /\ WF_bridgeVars(SendStops)
    /\ WF_bridgeVars(Transmit \/ TransmitNothing)
    /\ WF_bridgeVars(BridgeTick)
    /\ \A e \in Endpoint : SF_bridgeVars(HostReads(e))

-----------------------------------------------------------------------------
TypeOK ==
    /\ enabled \in BOOLEAN /\ usbReady \in BOOLEAN
    /\ usbQueue \in Seq(HostPacket) /\ Len(usbQueue) <= Depth - 1
    /\ slots \in [Slot -> Packet \cup {Empty}]
    /\ head \in Slot /\ tail \in Slot
    /\ inFlight \in BOOLEAN /\ txTimer \in 0..TxTicks
    /\ suppress \in 0..SuppressMax
    /\ phase \in {"idle", "send", "tx"}
    /\ transfer \in [Endpoint -> [slot : Slot, packet : Packet \cup {Empty}]]
    /\ outstanding \in 0..OutstandingMax
    /\ standbyOwed \in 0..StandbyMax /\ taken \in 0..OutstandingMax
    /\ given \in Packet \cup {Empty}

(* The packets TinyUSB has not been given yet. *)
Pending == IF inFlight THEN Tail(Queued) ELSE Queued

(* The packets towards the host form a bounded first-in first-out channel:  *)
(* the one in flight has been given, the others are pending.  Timeouts,     *)
(* resets and callbacks of the wrong endpoint neither lose a packet that    *)
(* was not given, nor give one twice, nor swap two.                         *)
ToHost == INSTANCE PacketChannel WITH
    Packet   <- Packet,
    Capacity <- Depth - 1,
    NoPacket <- Empty,
    pending  <- Pending,
    open     <- enabled
ImplementsChannel == ToHost!ChannelSpec

(* What makes it so: in flight means that the oldest queued packet is the  *)
(* one that was given last.                                                *)
InFlightIsOldest == inFlight => tail # head /\ slots[tail] = given

(* A host command is answered once: when the controller's own answer comes *)
(* after the synthesized one, in whatever session, it is not passed on.     *)
(* (usb_bth_bridge.c:262: "CYW43 quirk: drop delayed LE Set Scan Parameters *)
(* complete".)  It is so for the commands that only the host sends.         *)
NoSecondAnswer == [][outstanding' < outstanding => UNCHANGED <<slots, head>>]_bridgeVars

(* For those that the standby host sends too: a second answer is passed on  *)
(* only when a late answer of the standby host was dropped in its place,    *)
(* and at most once for each of them.                                       *)
SecondAnswerForTaken ==
    [][outstanding' < outstanding /\ ~UNCHANGED <<slots, head>> => taken' < taken]_bridgeVars

(* The counter covers the host's answers still to come, but for the counts *)
(* that the standby host's answers have used up.                           *)
SuppressCovers == outstanding <= suppress + taken

(* The bridge never wedges: while it is enabled, the bus is ready and      *)
(* there are packets, the oldest one goes on leaving its slot, also when a *)
(* bus reset has swallowed the callback of the packet in flight.           *)
OldestMovesOn ==
    <>[](enabled /\ usbReady /\ tail # head) => []<><<tail' # tail>>_bridgeVars

(* docs/linux_hci_transport_reference.md: "The bridge must preserve packet *)
(* boundaries."  A slot that TinyUSB is still sending from is not filled    *)
(* with another packet.                                                    *)
SlotStable ==
    \A e \in Endpoint :
        transfer[e] # Idle => slots[transfer[e].slot] = transfer[e].packet
=============================================================================
