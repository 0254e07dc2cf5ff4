------------------------------ MODULE Esp32Uart ------------------------------
(***************************************************************************)
(* The receive path of the ESP32 backend: controller, wire, interrupt,      *)
(* ring, esp32_task, parser, callback.  The loop may be away from the       *)
(* transport for seconds, so the ring overflows; bytes received with an     *)
(* error are dropped; a reset of the controller falls anywhere.             *)
(***************************************************************************)
EXTENDS UartRing, H4Parser

CONSTANTS
    Packets,   \* the packets the controller sends
    MaxOnWay   \* model bound: packets sent and not yet delivered

ASSUME ControllerPackets ==
    /\ RingByte = Byte
    /\ MaxOnWay \in Nat \ {0}
    /\ \A p \in Packets : WellFormed(p) /\ Len(p.bytes) <= Capacity

VARIABLES
    wire,      \* external: bytes of a packet still to be received
    inStep,    \* history: no byte was lost since all was last at rest
    expected   \* history: the packets sent and not delivered, while in step

uartVars == <<ringVars, parserVars, delivered, wire, inStep, expected>>

Encoding(p) == <<p.type>> \o p.bytes

UInit ==
    /\ RingInit /\ ParserInit
    /\ wire = <<>> /\ inStep = TRUE /\ expected = <<>>

AtRest == Unfed = <<>> /\ rxStep = "idle" /\ state = "WAIT_TYPE"

(* After a loss the next packet is in step again if all else was at rest.  *)
SendPacket(p) ==
    /\ wire = <<>>
    /\ Len(expected) < MaxOnWay
    /\ wire' = Encoding(p)
    /\ inStep' = (inStep \/ AtRest)
    /\ expected' = IF inStep' THEN Append(expected, p) ELSE <<>>
    /\ UNCHANGED <<ringVars, parserVars, delivered>>

OutOfStep == inStep' = FALSE /\ expected' = <<>>

ByteArrives ==
    /\ wire # <<>>
    /\ Irq(Head(wire))
    /\ wire' = Tail(wire)
    /\ IF Overflow \/ rxStep = "clearing" THEN OutOfStep ELSE UNCHANGED <<inStep, expected>>
    /\ UNCHANGED <<parserVars, delivered>>

(* The interrupt drops a byte with a framing, parity, break or overrun     *)
(* error.                                                                  *)
ByteDamaged ==
    /\ wire # <<>>
    /\ wire' = Tail(wire)
    /\ OutOfStep
    /\ UNCHANGED <<ringVars, parserVars, delivered>>

FeedParser ==
    /\ ByteFed
    /\ FeedByte(taken)
    /\ expected' = IF inStep /\ state # "WAIT_TYPE" /\ state' = "WAIT_TYPE"
                   THEN Tail(expected) ELSE expected
    /\ UNCHANGED <<wire, inStep>>

RingOnly == UNCHANGED <<parserVars, delivered, wire, inStep, expected>>

Task == (TakeByte \/ AdvanceTail) /\ RingOnly

(* esp32_reset_controller resets the parser, then clears the ring.  With   *)
(* PIN_ESP32_RESET wired the controller stops in the middle of a packet.    *)
ResetBegins ==
    /\ ClearTail
    /\ Discard
    /\ wire' \in {wire, <<>>}
    /\ IF AtRest /\ wire = <<>> THEN UNCHANGED <<inStep, expected>> ELSE OutOfStep

UNext ==
    \/ \E p \in Packets : SendPacket(p)
    \/ ByteArrives \/ ByteDamaged
    \/ FeedParser
    \/ Task
    \/ ResetBegins
    \/ ClearHead /\ RingOnly

USpec == UInit /\ [][UNext]_uartVars

(* The loop does not stop in the middle of the task or of a reset. *)
FairSpec ==
    /\ USpec
    /\ WF_uartVars(Task)
    /\ WF_uartVars(FeedParser)

-----------------------------------------------------------------------------
UTypeOK ==
    /\ RingTypeOK /\ ParserTypeOK
    /\ wire \in Seq(Byte)
    /\ inStep \in BOOLEAN
    /\ expected \in Seq(Packets) /\ Len(expected) <= MaxOnWay

(* Between interrupt and parser no byte is lost, repeated or swapped: one   *)
(* is lost on arrival, or all are by a reset, whenever the interrupt comes.  *)
Bytes == INSTANCE PacketChannel WITH
    Packet   <- Byte,
    Capacity <- RingSize - 1,
    NoPacket <- Gone,
    pending  <- Untaken,
    given    <- taken,
    open     <- rxStep # "clearing"
ImplementsByteChannel == Bytes!ChannelSpec

Stream == Held \o Unfed \o wire

(* The bytes s are the packets ps, one after the other, which end in "end". *)
Begin(end, i) == IF i = 1 THEN 0 ELSE end[i - 1]

Whole(s, ps, end) ==
    /\ Begin(end, Len(ps) + 1) = Len(s)
    /\ \A i, j \in DOMAIN ps : i < j => end[i] < end[j]
    /\ \A i \in DOMAIN ps :
          /\ end[i] = Begin(end, i) + Len(Encoding(ps[i]))
          /\ \A k \in DOMAIN Encoding(ps[i]) : s[Begin(end, i) + k] = Encoding(ps[i])[k]

(* Until a byte is lost, what the parser holds, the ring and the wire are   *)
(* together exactly the packets that are due.                              *)
StreamWhole ==
    inStep => \E end \in [DOMAIN expected -> 1..Len(Stream)] : Whole(Stream, expected, end)

(* So the packet boundaries of the controller are kept: a packet that ends  *)
(* in the parser is given, as it was sent and in its turn.                  *)
DeliveredAsSent ==
    [][inStep /\ inStep' /\ Len(expected') < Len(expected)
         => delivered' = Head(expected)]_uartVars

(* Out of step the parser may misread lengths, but while bytes keep coming  *)
(* it always gets back to looking for a packet.                             *)
AlwaysBack == []<><<FeedParser>>_uartVars => []<>(state = "WAIT_TYPE")
=============================================================================
