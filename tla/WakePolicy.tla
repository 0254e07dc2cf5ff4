------------------------------ MODULE WakePolicy ------------------------------
(***************************************************************************)
(* The wake policy as the main loop runs it: packets of the PC's sessions   *)
(* and of standby teach peers to the table of WakePeers, and BOOTSEL, held  *)
(* down, clears it (src/src/bootsel_button.c).  The button is read by a     *)
(* poll; one that flash_safe_execute refuses counts as released.            *)
(***************************************************************************)
EXTENDS WakePeers, AdvertisingReference

CONSTANTS
    WakeOptions,  \* the WAKE_ON_... options built in
    PollTicks,    \* BOOTSEL_POLL_MS
    HoldPolls     \* BOOTSEL_CLEAR_HOLD_MS, in polls

ASSUME PolicyBounds ==
    /\ WakeOptions \subseteq WakeOption /\ "known" \in WakeOptions
    /\ PollTicks \in Nat \ {0} /\ HoldPolls \in Nat \ {0}

VARIABLES
    pollAge,    \* now - last_poll_ms, up to PollTicks
    pressed,    \* pressed_ms, in polls
    holdFired,  \* hold_fired
    holdTime    \* history: ticks since the first of the present pressed reads

buttonVars == <<pollAge, pressed, holdFired, holdTime>>
policyVars == <<peerVars, buttonVars>>

(* Not held; held, and cleared the list; the longest time told apart. *)
NotHeld  == -1
Spent    == -2
HoldTicks == (HoldPolls - 1) * PollTicks

Released == pressed = 0 /\ holdFired = FALSE /\ holdTime = NotHeld

PolicyInit == Init /\ Released /\ pollAge = 0

-----------------------------------------------------------------------------
(* Packets of a session, and of standby: connections that succeed or fail,  *)
(* and advertisements of a Stadia controller behind another device.         *)
Address == [type : {0, 1}, cell : {1, 2}]

Connection(subevent, status, a) ==
    <<62, 19, subevent, status, 64, 0, 0, a.type, a.cell, 0, 0, 0, 0, 0, 24>>

HostPackets ==
    {Connection(subevent, status, a) : subevent \in {1, 10}, status \in {0, 2}, a \in Address}

Advertised(a) == <<[event |-> 3, type |-> 0, addr |-> 9, ads |-> <<>>, cut |-> 0],
                   [event |-> 4, type |-> a.type, addr |-> a.cell, ads |-> <<Stadia>>, cut |-> 0]>>

Advertisement(a) ==
    LET bytes == ReportsBytes(Legacy, Advertised(a)) IN PacketOf(Legacy, bytes, 2, Len(bytes))

(* What they teach, those of standby with a table of known peers. *)
HostTeaches == UNION {LearnedByHost(packet) : packet \in HostPackets}
StandbyTeaches ==
    {<<known, PacketMatches(WakeOptions, known, Advertisement(a)).learn>> :
        known \in SUBSET Peer, a \in Address}

(* The devices of these packets are peers that the table is modelled for. *)
ASSUME AddressesArePeers == \A a \in Address : Peer16(a.type, a.cell) \in Peer

Known == {peers[i] : i \in InUse(peers)}

ObserveHostPacket ==
    /\ \E p \in HostTeaches : Remember(p)
    /\ UNCHANGED buttonVars

StandbyPacket ==
    /\ \E lesson \in StandbyTeaches :
           lesson[1] = Known /\ \E p \in lesson[2] : Remember(p)
    /\ UNCHANGED buttonVars

-----------------------------------------------------------------------------
(* bootsel_button_task. *)

(* A faulty variant: the button is read in every turn of the loop. *)
FaultyPollDue == saving = "no"

PollDue == saving = "no" /\ pollAge >= PollTicks

(* A faulty variant: the count stops a poll too early. *)
FaultyCounted == IF pressed + 1 < HoldPolls THEN pressed + 1 ELSE pressed

Counted == IF pressed < HoldPolls THEN pressed + 1 ELSE pressed

(* The time that the reads of this hold have spanned. *)
Spanned == IF holdTime = NotHeld THEN 0 ELSE holdTime

HoldDone == ~holdFired /\ Counted >= HoldPolls

ReadReleased ==
    /\ PollDue
    /\ pollAge' = 0
    /\ pressed' = 0 /\ holdFired' = FALSE /\ holdTime' = NotHeld
    /\ UNCHANGED peerVars

ReadPressed ==
    /\ PollDue /\ ~HoldDone
    /\ pollAge' = 0
    /\ pressed' = Counted
    /\ holdTime' = Spanned
    /\ UNCHANGED <<holdFired, peerVars>>

HoldFires ==
    /\ PollDue /\ HoldDone
    /\ pollAge' = 0
    /\ pressed' = Counted
    /\ holdFired' = TRUE /\ holdTime' = Spent
    /\ ClearKnownPeers

-----------------------------------------------------------------------------
SavePeers == SaveStep /\ UNCHANGED buttonVars

PowerFails == PowerCycle /\ pollAge' = 0 /\ pressed' = 0 /\ holdFired' = FALSE /\ holdTime' = NotHeld

PolicyTick ==
    /\ PeerTick
    /\ pollAge' = IF pollAge < PollTicks THEN pollAge + 1 ELSE pollAge
    /\ holdTime' = IF holdTime \in 0..(HoldTicks - 1) THEN holdTime + 1 ELSE holdTime
    /\ UNCHANGED <<pressed, holdFired>>

PolicyNext ==
    \/ ObserveHostPacket \/ StandbyPacket
    \/ ReadReleased \/ ReadPressed \/ HoldFires
    \/ SavePeers \/ PowerFails \/ PolicyTick

PolicySpec == PolicyInit /\ [][PolicyNext]_policyVars

(* The main loop calls both tasks in every turn, a flash operation ends,    *)
(* time passes.  A save, or a read of the button, may come between.         *)
PolicyFairSpec ==
    /\ PolicySpec
    /\ WF_policyVars(SavePeers) /\ WF_policyVars(PolicyTick)
    /\ SF_policyVars(ReadReleased \/ ReadPressed \/ HoldFires)

-----------------------------------------------------------------------------
PolicyTypeOK ==
    /\ TypeOK
    /\ pollAge \in 0..PollTicks
    /\ pressed \in 0..HoldPolls
    /\ holdFired \in BOOLEAN
    /\ holdTime \in 0..HoldTicks \cup {NotHeld, Spent}

(* For every table, whether the packets are read as they are meant. *)
Judgements ==
    {<<known, StructuresAgree /\ DirectedAgree /\ SequencesAgree(known)>> :
        known \in SUBSET Peer}

(* Whatever the table and the build, the report that decides about a packet, *)
(* and the peer that is learned, are those of the packet as it was meant:   *)
(* no structure or report is read from a wrong place, past its end or out   *)
(* of turn.                                                                 *)
ReportsAgree == <<Known, TRUE>> \in Judgements

(* README.md: "Hold the Pico BOOTSEL button for about 5 seconds to clear":  *)
(* the list is cleared only after reads that spanned the whole time and all *)
(* found the button down, however the loop was delayed between them, and    *)
(* once for each hold.                                                      *)
ClearsAfterHold == [][HoldFires => Spanned = HoldTicks]_policyVars

(* A button that stays down from some time on, and whose reads are not      *)
(* refused, clears the list in the end, whatever is learned and saved       *)
(* meanwhile.                                                               *)
HeldButtonClears ==
    <>[][~ReadReleased /\ ~PowerFails]_policyVars => <>[]holdFired
=============================================================================
