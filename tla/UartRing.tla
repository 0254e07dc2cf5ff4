------------------------------- MODULE UartRing -------------------------------
(***************************************************************************)
(* The receive ring of src/src/backend_esp32_uart.c.  The receive interrupt *)
(* fills it between any two steps of the main loop, which empties it in     *)
(* esp32_task and clears it in esp32_reset_controller.  A byte that nobody   *)
(* may read any more is Gone from its slot, where the code leaves it.       *)
(***************************************************************************)
EXTENDS Integers, Sequences

CONSTANTS
    RingSize,  \* UART_RX_RING_SIZE
    RingByte,  \* what the UART receives
    Gone

ASSUME RingBounds == RingSize \in Nat /\ RingSize >= 2 /\ Gone \notin RingByte

VARIABLES
    rxRing, rxHead, rxTail,
    rxStep,  \* where the main loop is in esp32_task or esp32_reset_controller
    taken    \* esp32_task: byte

ringVars == <<rxRing, rxHead, rxTail, rxStep, taken>>

RingSlot == 0..(RingSize - 1)

RingInit ==
    /\ rxRing = [i \in RingSlot |-> Gone]
    /\ rxHead = 0 /\ rxTail = 0
    /\ rxStep = "idle"
    /\ taken = Gone

After(i) == IF i = RingSize - 1 THEN 0 ELSE i + 1

(* A faulty variant: the head is not kept behind the tail. *)
FaultyOverflow == FALSE

Overflow == After(rxHead) = rxTail

(* esp32_uart_irq, for a byte received without error; one that arrives     *)
(* when the ring is full is counted and lost.                              *)
Irq(b) ==
    /\ IF Overflow
       THEN UNCHANGED <<rxRing, rxHead>>
       ELSE rxRing' = [rxRing EXCEPT ![rxHead] = b] /\ rxHead' = After(rxHead)
    /\ UNCHANGED <<rxTail, rxStep, taken>>

(* esp32_task: read the slot, give it back, feed the parser. *)
TakeByte ==
    /\ rxStep = "idle"
    /\ rxTail # rxHead
    /\ taken' = rxRing[rxTail]
    /\ rxStep' = "took"
    /\ UNCHANGED <<rxRing, rxHead, rxTail>>

AdvanceTail ==
    /\ rxStep = "took"
    /\ rxTail' = After(rxTail)
    /\ rxRing' = [rxRing EXCEPT ![rxTail] = Gone]
    /\ rxStep' = "feed"
    /\ UNCHANGED <<rxHead, taken>>

ByteFed ==
    /\ rxStep = "feed"
    /\ rxStep' = "idle"
    /\ UNCHANGED <<rxRing, rxHead, rxTail, taken>>

(* esp32_reset_controller: rx_head = rx_tail = 0 stores the tail first.    *)
ClearTail ==
    /\ rxStep = "idle"
    /\ rxTail' = 0
    /\ rxStep' = "clearing"
    /\ UNCHANGED <<rxRing, rxHead, taken>>

ClearHead ==
    /\ rxStep = "clearing"
    /\ rxHead' = 0
    /\ rxRing' = [i \in RingSlot |-> Gone]
    /\ rxStep' = "idle"
    /\ UNCHANGED <<rxTail, taken>>

-----------------------------------------------------------------------------
(* The bytes in the slots from i up to the head, oldest first. *)
Filled(i) == IF rxHead >= i THEN rxHead - i ELSE rxHead + RingSize - i
From(i) ==
    [k \in 1..Filled(i) |->
        rxRing[IF i + k > RingSize THEN i + k - 1 - RingSize ELSE i + k - 1]]

(* The bytes received and not yet taken.  A ring that is being cleared has *)
(* none, and keeps none that comes now.                                    *)
Untaken ==
    CASE rxStep = "clearing" -> <<>>
      [] rxStep = "took"     -> From(After(rxTail))
      [] OTHER               -> From(rxTail)

(* With the one that is taken but not yet fed to the parser. *)
Unfed == IF rxStep \in {"took", "feed"} THEN <<taken>> \o Untaken ELSE Untaken

RingTypeOK ==
    /\ rxRing \in [RingSlot -> RingByte \cup {Gone}]
    /\ rxHead \in RingSlot /\ rxTail \in RingSlot
    /\ rxStep \in {"idle", "took", "feed", "clearing"}
    /\ taken \in RingByte \cup {Gone}
=============================================================================
