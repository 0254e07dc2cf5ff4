---------------------------- MODULE AclReassembly ----------------------------
(***************************************************************************)
(* The ACL packets of the PC, src/src/usb_bth_bridge.c: TinyUSB delivers    *)
(* them in fragments of at most an endpoint's size, and the bridge puts     *)
(* them together by the length in their header before it queues them for    *)
(* the controller (HostSends of UsbBthBridge).                              *)
(*                                                                          *)
(* The PC sends packets that fit the buffer.  What breaks the stream is the *)
(* bus, reset in the middle of a packet, and the bridge being switched in   *)
(* the middle of one.  Each turn of the fragment loop is a step, with       *)
(* nothing else in between.                                                 *)
(***************************************************************************)
EXTENDS Naturals, Sequences

CONSTANTS
    Base,       \* the number of values of a byte
    BufferLen,  \* HCI_ACL_MAX_LEN
    EndpointLen \* CFG_TUD_BTH_DATA_EPSIZE

HeaderLen == 4

ASSUME ReassemblyBounds ==
    /\ Base \in Nat /\ Base >= 2
    /\ BufferLen \in Nat /\ BufferLen >= HeaderLen /\ BufferLen < Base * Base
    /\ EndpointLen \in Nat /\ EndpointLen >= HeaderLen

VARIABLES
    enabled,   \* bridge_enabled
    held,      \* the usb_acl_len first bytes of usb_acl_buf
    expected,  \* usb_acl_expected_len
    fragment,  \* what is left of the fragment in hand
    rest,      \* external: what the PC has still to send of its packet
    due,       \* history: that packet
    inStep,    \* history: no fragment of it was lost or left over
    completed  \* history: the packet the last step completed, or <<>>

reassembly == <<held, expected>>
aclVars == <<enabled, reassembly, fragment, rest, due, inStep, completed>>

Byte == 0..(Base - 1)

(* The length in the header, as it is meant. *)
TrueLen(p) == HeaderLen + p[3] + Base * p[4]

(* The packets a PC sends. *)
Packet ==
    {p \in UNION {[1..n -> Byte] : n \in HeaderLen..BufferLen} :
        TrueLen(p) = Len(p) /\ p[1] = 0 /\ p[2] = 0}

Take(s, n) == SubSeq(s, 1, n)
Drop(s, n) == SubSeq(s, n + 1, Len(s))
Least(m, n) == IF m < n THEN m ELSE n

Init ==
    /\ enabled = FALSE
    /\ held = <<>> /\ expected = 0
    /\ fragment = <<>> /\ rest = <<>> /\ due = <<>>
    /\ inStep = TRUE
    /\ completed = <<>>

Waiting == fragment = <<>> /\ completed' = <<>>

-----------------------------------------------------------------------------
(* The PC begins a packet, and the next of its fragments arrives; a bridge  *)
(* that is disabled ignores it.                                             *)
BeginPacket(p) ==
    /\ Waiting /\ rest = <<>>
    /\ rest' = p /\ due' = p
    /\ UNCHANGED <<enabled, reassembly, fragment, inStep>>

FragmentArrives ==
    /\ Waiting /\ rest # <<>>
    /\ LET len == Least(Len(rest), EndpointLen) IN
       /\ rest' = Drop(rest, len)
       /\ fragment' = IF enabled THEN Take(rest, len) ELSE <<>>
    /\ inStep' = (inStep /\ enabled)
    /\ UNCHANGED <<enabled, reassembly, due>>

(* The bus is reset; the PC gives its packet up, the bridge is not told. *)
BusReset ==
    /\ Waiting
    /\ rest' = <<>>
    /\ inStep' = (inStep /\ held = <<>>)
    /\ UNCHANGED <<enabled, reassembly, fragment, due>>

(* usb_bth_bridge_set_enabled.  The PC may be in the middle of a packet. *)
Enable ==
    /\ Waiting /\ ~enabled
    /\ enabled' = TRUE
    /\ inStep' = (rest \in {due, <<>>})
    /\ UNCHANGED <<reassembly, fragment, rest, due>>

(* A faulty variant: what was gathered is kept. *)
FaultyDisable ==
    /\ Waiting /\ enabled
    /\ enabled' = FALSE
    /\ inStep' = (inStep /\ rest \in {due, <<>>})
    /\ UNCHANGED <<reassembly, fragment, rest, due>>

Disable ==
    /\ Waiting /\ enabled
    /\ enabled' = FALSE
    /\ held' = <<>> /\ expected' = 0
    /\ inStep' = (inStep /\ rest \in {due, <<>>})
    /\ UNCHANGED <<fragment, rest, due>>

-----------------------------------------------------------------------------
(* usb_bth_bridge_acl_out_fragment.                                         *)

(* A faulty variant: only the low byte of the length counts. *)
FaultyTotalLen(f) == HeaderLen + f[3]

(* acl_packet_total_len, in 16 bits. *)
TotalLen(f) == TrueLen(f) % (Base * Base)

(* Faulty variants: a length that wrapped is not noticed, or one that does  *)
(* not fit.                                                                 *)
FaultyNoticesLong(len)    == len > BufferLen
FaultyNoticesWrapped(len) == len < HeaderLen

Bad(len) == len < HeaderLen \/ len > BufferLen

InHand == fragment # <<>> /\ UNCHANGED <<enabled, rest, due, inStep>>

(* Too short for a header, or a header with a bad length: the rest of the   *)
(* fragment is dropped.                                                     *)
DropFragment ==
    /\ InHand /\ held = <<>>
    /\ Len(fragment) >= HeaderLen => Bad(TotalLen(fragment))
    /\ fragment' = <<>> /\ expected' = IF Len(fragment) < HeaderLen THEN expected ELSE 0
    /\ completed' = <<>>
    /\ UNCHANGED held

Gather(total) ==
    LET len == Least(Len(fragment), total - Len(held))
        all == held \o Take(fragment, len)
    IN /\ fragment' = Drop(fragment, len)
       /\ IF Len(all) = total
          THEN completed' = all /\ held' = <<>> /\ expected' = 0
          ELSE completed' = <<>> /\ held' = all /\ expected' = total

GatherFirst ==
    /\ InHand /\ held = <<>>
    /\ Len(fragment) >= HeaderLen /\ ~Bad(TotalLen(fragment))
    /\ Gather(TotalLen(fragment))

GatherMore == InHand /\ held # <<>> /\ Gather(expected)

Next ==
    \/ \E p \in Packet : BeginPacket(p)
    \/ FragmentArrives
    \/ BusReset
    \/ Enable \/ Disable
    \/ DropFragment \/ GatherFirst \/ GatherMore

Spec == Init /\ [][Next]_aclVars

-----------------------------------------------------------------------------
(* usb_acl_buf is never written past its end, also by what is not a header. *)
TypeOK ==
    /\ enabled \in BOOLEAN /\ inStep \in BOOLEAN
    /\ held \in Seq(Byte) /\ Len(held) <= BufferLen
    /\ expected \in 0..BufferLen /\ (held # <<>> => Len(held) < expected)
    /\ fragment \in Seq(Byte) /\ Len(fragment) <= EndpointLen
    /\ rest \in Seq(Byte) /\ due \in Packet \cup {<<>>}
    /\ completed \in Seq(Byte)

(* docs/linux_hci_transport_reference.md: "The bridge must preserve packet *)
(* boundaries."  It does, until the bus is reset or the bridge switched     *)
(* within a packet: what is gathered, in hand and still to come is the      *)
(* packet the PC is sending, nothing of an earlier one is left over, and    *)
(* what is queued is that packet.  A session in whose beginning the PC is   *)
(* between packets is in step again.                                        *)
AclStreamWhole ==
    inStep => /\ enabled => held \o fragment \o rest \in {due, <<>>}
              /\ completed \in {due, <<>>}

(* Out of step the bridge takes payload for headers; even then what it      *)
(* queues is as long as its own header says, also where 16 bits wrap.       *)
AclLengthsHonest ==
    completed # <<>> =>
        Len(completed) >= HeaderLen /\ Len(completed) = TrueLen(completed)
=============================================================================
