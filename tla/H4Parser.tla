------------------------------- MODULE H4Parser -------------------------------
(***************************************************************************)
(* The byte-driven parser of src/src/h4_parser.c, which cuts the byte       *)
(* stream of a UART controller into packets: a type byte, a header whose    *)
(* length the type says, a payload whose length the header says.            *)
(*                                                                          *)
(* A packet is its type and its bytes, header included.  The lengths are    *)
(* numbers to the base Base, 256 in the code, so the 16-bit packet length   *)
(* wraps at Base^2.  The three header states of the code differ only in     *)
(* what type already says, and so do the three payload states.              *)
(***************************************************************************)
EXTENDS Integers, Sequences

CONSTANTS
    Base,      \* the number of values of a byte
    Capacity   \* packet_capacity

COMMAND == 1  \* hci_packet_type_t
ACL     == 2
SCO     == 3
EVENT   == 4

Byte       == 0..(Base - 1)
ParsedType == {EVENT, ACL, SCO}

(* The storage holds every header, which is copied before its payload.     *)
ASSUME ParserBounds ==
    /\ Base \in Nat /\ Base > EVENT
    /\ Capacity \in Nat /\ Capacity >= 4 /\ Capacity < Base * Base

VARIABLES
    state,      \* parser->state
    type,       \* parser->type
    header,     \* the header_pos first bytes of parser->header
    packet,     \* the packet_pos first bytes of the packet storage
    packetLen,  \* parser->packet_len
    delivered   \* history: the packet the last byte completed, or None

parserVars == <<state, type, header, packet, packetLen>>

None == [type |-> COMMAND, bytes |-> <<>>]

HeaderLen(t) == CASE t = EVENT -> 2 [] t = SCO -> 3 [] t = ACL -> 4

(* What the header says, in full. *)
PayloadLen(t, h) ==
    CASE t = EVENT -> h[2]
      [] t = SCO   -> h[3]
      [] t = ACL   -> h[3] + Base * h[4]

(* A packet as long as its own header says. *)
WellFormed(p) ==
    /\ p \in [type : ParsedType, bytes : Seq(Byte)]
    /\ Len(p.bytes) >= HeaderLen(p.type)
    /\ Len(p.bytes) = HeaderLen(p.type) + PayloadLen(p.type, p.bytes)

ParserInit ==
    /\ state = "WAIT_TYPE"
    /\ type = COMMAND
    /\ header = <<>> /\ packet = <<>> /\ packetLen = 0
    /\ delivered = None

-----------------------------------------------------------------------------
(* h4_parser_reset keeps the type. *)
ResetParser ==
    /\ state' = "WAIT_TYPE"
    /\ header' = <<>> /\ packet' = <<>> /\ packetLen' = 0
    /\ UNCHANGED type

Callback(p) == delivered' = [type |-> type, bytes |-> p] /\ ResetParser

GiveNothing == delivered' = None

Discard == ResetParser /\ GiveNothing

(* h4_start_header *)
StartHeader(b) ==
    /\ type' = b
    /\ state' = "READ_HEADER"
    /\ header' = <<>> /\ packet' = <<>> /\ packetLen' = 0

WaitType(b) ==
    /\ state = "WAIT_TYPE"
    /\ \/ b \in ParsedType /\ StartHeader(b)
       \/ b \notin ParsedType /\ state' = "ERROR_RECOVERY"
                              /\ UNCHANGED <<type, header, packet, packetLen>>
    /\ GiveNothing

(* A faulty variant: a packet that just fits is refused. *)
FaultyFits(n) == n < Capacity

Fits(n) == n <= Capacity

(* A faulty variant: a packet without payload is not given. *)
FaultyNoPayload(h) == Discard

NoPayload(h) == Callback(h)

(* h4_begin_payload *)
BeginPayload(h) ==
    LET payloadLen == PayloadLen(type, h)
        n == (Len(h) + payloadLen) % (Base * Base)
    IN  \/ ~Fits(n) /\ Discard
        \/ Fits(n) /\ payloadLen = 0 /\ NoPayload(h)
        \/ /\ Fits(n) /\ payloadLen # 0
           /\ state' = "READ_PAYLOAD"
           /\ header' = h /\ packet' = h /\ packetLen' = n
           /\ UNCHANGED type /\ GiveNothing

ReadHeader(b) ==
    /\ state = "READ_HEADER"
    /\ LET h == Append(header, b)
       IN  \/ /\ Len(h) < HeaderLen(type)
              /\ header' = h
              /\ UNCHANGED <<state, type, packet, packetLen>> /\ GiveNothing
           \/ Len(h) = HeaderLen(type) /\ BeginPayload(h)

(* Faulty variants: the end of a packet is "at least" its length, or the    *)
(* storage is taken to be one byte longer.                                 *)
FaultyComplete(p) == Len(p) >= packetLen
FaultyStorageFull == Len(packet) > Capacity

Complete(p) == Len(p) = packetLen
StorageFull == Len(packet) >= Capacity

(* A packet_len that has wrapped below the header length is never met: the *)
(* end of the storage ends the packet.                                     *)
ReadPayload(b) ==
    /\ state = "READ_PAYLOAD"
    /\ \/ StorageFull /\ Discard
       \/ LET p == Append(packet, b)
          IN  /\ ~StorageFull
              /\ \/ Complete(p) /\ Callback(p)
                 \/ /\ ~Complete(p)
                    /\ packet' = p
                    /\ UNCHANGED <<state, type, header, packetLen>> /\ GiveNothing

(* A faulty variant: the byte after a bad type is not the last one lost. *)
FaultyRecover == state = "ERROR_RECOVERY" /\ UNCHANGED parserVars /\ GiveNothing

(* The byte is consumed, whatever it is. *)
Recover == state = "ERROR_RECOVERY" /\ Discard

(* h4_parser_feed_byte *)
FeedByte(b) == WaitType(b) \/ ReadHeader(b) \/ ReadPayload(b) \/ Recover

-----------------------------------------------------------------------------
(* The bytes taken for the packet that is being read. *)
Held ==
    CASE state = "READ_HEADER"  -> <<type>> \o header
      [] state = "READ_PAYLOAD" -> <<type>> \o packet
      [] OTHER -> <<>>

ParserTypeOK ==
    /\ state \in {"WAIT_TYPE", "READ_HEADER", "READ_PAYLOAD", "ERROR_RECOVERY"}
    /\ type \in ParsedType \cup {COMMAND}
    /\ header \in Seq(Byte) /\ packet \in Seq(Byte)
    /\ packetLen \in 0..Capacity
    /\ state # "WAIT_TYPE" /\ state # "ERROR_RECOVERY" => type \in ParsedType
    /\ state = "READ_HEADER" => Len(header) < HeaderLen(type) /\ packet = <<>>
    /\ state = "READ_PAYLOAD" =>
          Len(header) = HeaderLen(type) /\ Len(packet) \in Len(header)..Capacity
    /\ state \in {"WAIT_TYPE", "ERROR_RECOVERY"} => header = <<>> /\ packet = <<>>

(* The callback is given only packets as long as their header says, also   *)
(* when the bytes are out of step and the 16-bit length has wrapped.       *)
LengthsHonest == delivered # None => WellFormed(delivered)
=============================================================================
