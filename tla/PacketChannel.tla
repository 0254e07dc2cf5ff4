---------------------------- MODULE PacketChannel ----------------------------
(***************************************************************************)
(* What a queue promises for the packets, or bytes, it passes on in one     *)
(* direction: a bounded first-in first-out channel.  What was accepted is   *)
(* given to the receiver at most once and in order, and between Accept and  *)
(* Give it is lost only with the whole channel, when that is closed.        *)
(***************************************************************************)
EXTENDS Naturals, Sequences

CONSTANTS Packet, Capacity, NoPacket

VARIABLES
    pending,  \* accepted, not yet given
    given,    \* the packet given last
    open      \* set from outside: the channel is open

ChannelInit == pending = <<>> /\ given = NoPacket

Accept(p) ==
    /\ Len(pending) < Capacity
    /\ pending' = Append(pending, p)
    /\ UNCHANGED given

Give ==
    /\ pending # <<>>
    /\ given' = Head(pending)
    /\ pending' = Tail(pending)

Clear == ~open' /\ pending' = <<>> /\ UNCHANGED given

ChannelNext == (\E p \in Packet : Accept(p)) \/ Give \/ Clear

ChannelSpec == ChannelInit /\ [][ChannelNext]_<<pending, given>>
=============================================================================
