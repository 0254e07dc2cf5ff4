----------------------------- MODULE MCEsp32Uart -----------------------------
(***************************************************************************)
(* Bytes 0 to 4 stand for all values: the packet types and one that is none. *)
(* Packets without payload, one that just fits the storage, and bytes that, *)
(* read out of step, are a header whose length wraps.                       *)
(***************************************************************************)
EXTENDS Esp32Uart

EmptyEvent == [type |-> EVENT, bytes |-> <<0, 0>>]
LongAcl    == [type |-> ACL, bytes |-> <<0, 2, 2, 0, 4, 4>>]

MCByte    == 0..4
MCPackets == {EmptyEvent, LongAcl}
=============================================================================
