------------------------- MODULE UsbBthBridgeProofs -------------------------
(***************************************************************************)
(* Proofs about the bridge, for every depth of the rings, every timeout and *)
(* every maximum of the counter: the types, the invariants behind the order *)
(* of packets and behind the suppressed answers, that a late answer reaches *)
(* the host only in place of one of the standby host's, and never for a     *)
(* command that the standby host does not send.                             *)
(***************************************************************************)
EXTENDS UsbBthBridge, SequenceTheorems, TLAPS

(* A command that the standby host does not send uses up no counts. *)
OwnKeepsCounts == StandbyMax = 0 => taken = 0

BridgeInv == TypeOK /\ InFlightIsOldest /\ SuppressCovers /\ OwnKeepsCounts

-----------------------------------------------------------------------------
LEMMA SuccInSlot ==
    ASSUME NEW i \in Slot
    PROVE  Succ(i) \in Slot /\ Succ(i) # i
BY BridgeBounds DEF Slot, Succ

LEMMA IdleType == Idle \in [slot : Slot, packet : Packet \cup {Empty}]
BY BridgeBounds DEF Idle, Slot

(* A push fills the slot at head, and so never the oldest one.             *)
LEMMA PushKeeps ==
    ASSUME TypeOK, NEW p \in Packet, Push(p)
    PROVE  /\ slots' \in [Slot -> Packet \cup {Empty}]
           /\ head' \in Slot
           /\ tail # head => head' # tail /\ slots'[tail] = slots[tail]
<1>1. CASE Full
  BY <1>1 DEF Push, TypeOK
<1>2. CASE ~Full
  <2>1. slots' = [slots EXCEPT ![head] = p] /\ head' = Succ(head)
    BY <1>2 DEF Push
  <2>2. head \in Slot /\ tail \in Slot /\ Succ(head) \in Slot /\ Succ(head) # tail
    BY <1>2, SuccInSlot DEF TypeOK, Full
  <2> QED
    BY <2>1, <2>2 DEF TypeOK
<1> QED
  BY <1>1, <1>2

LEMMA BridgeInit == Init => BridgeInv
<1> SUFFICES ASSUME Init PROVE BridgeInv
  OBVIOUS
<1>1. 0 \in Slot /\ 0 \in 0..TxTicks /\ 0 \in 0..SuppressMax /\ 0 \in 0..OutstandingMax
      /\ 0 \in 0..StandbyMax
  BY BridgeBounds DEF Slot
<1>2. usbQueue \in Seq(HostPacket) /\ Len(usbQueue) <= Depth - 1
  BY BridgeBounds DEF Init
<1>3. TypeOK
  BY <1>1, <1>2, IdleType DEF Init, TypeOK
<1> QED
  BY <1>3 DEF Init, BridgeInv, InFlightIsOldest, SuppressCovers, OwnKeepsCounts

-----------------------------------------------------------------------------
(* Each part of the invariant is about a few variables. *)
LEMMA CountsStay ==
    ASSUME SuppressCovers, OwnKeepsCounts, UNCHANGED <<suppress, owed>>
    PROVE  SuppressCovers' /\ OwnKeepsCounts'
BY DEF SuppressCovers, OwnKeepsCounts, owed

(* The host's calls. *)
LEMMA CallsStep ==
    ASSUME BridgeInv,
           \/ Enable \/ Disable
           \/ \E p \in HostPacket : HostSends(p)
           \/ HostAsksExtendedFeatures
    PROVE  BridgeInv'
<1> USE DEF BridgeInv
<1>1. CASE Enable
  BY <1>1, CountsStay DEF Enable, TypeOK, InFlightIsOldest, ring, tx, outside, owed
<1>2. CASE Disable
  <2>1. 0 \in Slot /\ 0 \in 0..TxTicks /\ <<>> \in Seq(HostPacket) /\ Len(<<>>) <= Depth - 1
    BY BridgeBounds DEF Slot
  <2> QED
    BY <1>2, <2>1, CountsStay DEF Disable, TypeOK, InFlightIsOldest, outside, owed
<1>3. ASSUME NEW p \in HostPacket, HostSends(p)
      PROVE  BridgeInv'
  <2>1. usbQueue' \in Seq(HostPacket) /\ Len(usbQueue') <= Depth - 1
    BY <1>3, BridgeBounds DEF HostSends, TypeOK
  <2> QED
    BY <1>3, <2>1, CountsStay DEF HostSends, TypeOK, InFlightIsOldest, ring, tx, outside, owed
<1>4. CASE HostAsksExtendedFeatures
  <2>1. "event" \in Packet /\ Push("event")
    BY <1>4 DEF HostAsksExtendedFeatures, Packet
  <2> QED
    BY <1>4, <2>1, PushKeeps, CountsStay
       DEF HostAsksExtendedFeatures, TypeOK, InFlightIsOldest, tx, outside, owed
<1> QED
  BY <1>1, <1>2, <1>3, <1>4

-----------------------------------------------------------------------------
(* The controller.  A packet of it never disturbs the oldest of the ring.  *)
LEMMA BackendKeeps ==
    ASSUME TypeOK, InFlightIsOldest, NEW p \in FromController, BackendPacket(p),
           outstanding' \in 0..OutstandingMax, standbyOwed' \in 0..StandbyMax,
           taken' \in 0..OutstandingMax
    PROVE  TypeOK' /\ InFlightIsOldest'
<1>1. CASE PassesOn(p) /\ Push(Kind(p)) /\ UNCHANGED suppress
  <2>1. Kind(p) \in Packet
    BY DEF Kind, FromController, Packet
  <2> QED
    BY <1>1, <2>1, PushKeeps DEF BackendPacket, TypeOK, InFlightIsOldest, tx
<1>2. CASE DropsDelayed(p) /\ suppress' = suppress - 1 /\ UNCHANGED <<slots, head>>
  <2>1. suppress' \in 0..SuppressMax
    BY <1>2, BridgeBounds DEF DropsDelayed, TypeOK
  <2> QED
    BY <1>2, <2>1 DEF BackendPacket, TypeOK, InFlightIsOldest, tx
<1>3. CASE UNCHANGED <<slots, head, suppress>>
  BY <1>3 DEF BackendPacket, TypeOK, InFlightIsOldest, tx
<1> QED
  BY <1>1, <1>2, <1>3 DEF BackendPacket

(* What becomes of the counter. *)
LEMMA CompleteCounts ==
    ASSUME TypeOK, BackendPacket("complete")
    PROVE  \/ /\ PassesOn("complete") /\ ~DropsDelayed("complete")
              /\ suppress = 0 /\ suppress' = 0
           \/ /\ enabled /\ DropsDelayed("complete") /\ ~PassesOn("complete")
              /\ suppress > 0 /\ suppress' = suppress - 1 /\ UNCHANGED <<slots, head>>
           \/ /\ ~enabled /\ ~PassesOn("complete")
              /\ UNCHANGED <<slots, head, suppress>>
BY BridgeBounds DEF BackendPacket, PassesOn, DropsDelayed, TypeOK

LEMMA OthersStep ==
    ASSUME BridgeInv, NEW p \in Packet, ControllerPacket(p)
    PROVE  BridgeInv'
<1>1. p \in FromController /\ BackendPacket(p) /\ UNCHANGED <<suppress, owed>>
  BY DEF ControllerPacket, FromController, BackendPacket, DropsDelayed, PassesOn, Packet
<1> QED
  BY <1>1, BackendKeeps, CountsStay DEF BridgeInv, TypeOK, owed

LEMMA NumbersOwed ==
    ASSUME TypeOK
    PROVE  /\ outstanding \in Nat /\ outstanding <= OutstandingMax
           /\ standbyOwed \in Nat /\ standbyOwed <= StandbyMax
           /\ taken \in Nat /\ taken <= OutstandingMax
           /\ suppress \in Nat /\ OutstandingMax \in Nat /\ StandbyMax \in Nat
BY BridgeBounds DEF TypeOK

LEMMA AnswersHostStep ==
    ASSUME BridgeInv, AnswersHost
    PROVE  BridgeInv'
<1>1. outstanding > 0 /\ outstanding' = outstanding - 1 /\ standbyOwed' = standbyOwed
  BY DEF AnswersHost
<1>2. taken' = AtMost(IF PassesOn("complete") THEN Down(taken) ELSE taken, outstanding')
  BY DEF AnswersHost
<1>3. "complete" \in FromController /\ BackendPacket("complete")
  BY DEF AnswersHost, FromController
<1>4. TypeOK /\ InFlightIsOldest /\ SuppressCovers /\ OwnKeepsCounts
  BY DEF BridgeInv
<1>5. taken' \in 0..OutstandingMax /\ taken' <= taken
  BY <1>1, <1>2, <1>4, NumbersOwed DEF AtMost, Down
<1>6. TypeOK' /\ InFlightIsOldest'
  BY <1>1, <1>3, <1>4, <1>5, NumbersOwed, BackendKeeps
<1>7. SuppressCovers'
  BY <1>1, <1>2, <1>3, <1>4, NumbersOwed, CompleteCounts DEF AtMost, Down, SuppressCovers
<1>8. OwnKeepsCounts'
  BY <1>4, <1>5, NumbersOwed DEF OwnKeepsCounts
<1> QED
  BY <1>6, <1>7, <1>8 DEF BridgeInv

LEMMA AnswersStandbyStep ==
    ASSUME BridgeInv, AnswersStandby
    PROVE  BridgeInv'
<1>1. standbyOwed > 0 /\ standbyOwed' = standbyOwed - 1 /\ outstanding' = outstanding
  BY DEF AnswersStandby
<1>2. taken' = AtMost(IF enabled /\ DropsDelayed("complete") THEN taken + 1 ELSE taken, outstanding)
  BY DEF AnswersStandby
<1>3. "complete" \in FromController /\ BackendPacket("complete")
  BY DEF AnswersStandby, FromController
<1>4. TypeOK /\ InFlightIsOldest /\ SuppressCovers /\ OwnKeepsCounts
  BY DEF BridgeInv
<1>5. taken' \in 0..OutstandingMax
  BY <1>2, <1>4, NumbersOwed DEF AtMost
<1>6. TypeOK' /\ InFlightIsOldest'
  BY <1>1, <1>3, <1>4, <1>5, NumbersOwed, BackendKeeps
<1>7. SuppressCovers'
  BY <1>1, <1>2, <1>3, <1>4, NumbersOwed, CompleteCounts DEF AtMost, SuppressCovers
<1>8. OwnKeepsCounts'
  BY <1>1, <1>4, NumbersOwed DEF OwnKeepsCounts
<1> QED
  BY <1>6, <1>7, <1>8 DEF BridgeInv

(* A command without an answer, and one more of the standby host. *)
LEMMA OwedStep ==
    ASSUME BridgeInv, NeverAnswers \/ StandbySends
    PROVE  BridgeInv'
<1>1. UNCHANGED <<enabled, usbReady, usbQueue, ring, tx, suppress, phase, transfer, given>>
  BY DEF NeverAnswers, StandbySends
<1>2. TypeOK /\ InFlightIsOldest /\ SuppressCovers /\ OwnKeepsCounts
  BY DEF BridgeInv
<1>3. /\ outstanding' \in 0..OutstandingMax /\ standbyOwed' \in 0..StandbyMax
      /\ taken' \in 0..OutstandingMax /\ taken' <= taken
      /\ outstanding' <= suppress + taken'
  <2>1. CASE NeverAnswers
    BY <1>2, <2>1, NumbersOwed DEF NeverAnswers, AtMost, SuppressCovers
  <2>2. CASE StandbySends
    BY <1>2, <2>2, NumbersOwed DEF StandbySends, SuppressCovers
  <2> QED
    BY <2>1, <2>2
<1>4. TypeOK' /\ InFlightIsOldest'
  BY <1>1, <1>2, <1>3 DEF TypeOK, InFlightIsOldest, ring, tx
<1>5. SuppressCovers' /\ OwnKeepsCounts'
  BY <1>1, <1>2, <1>3, NumbersOwed DEF SuppressCovers, OwnKeepsCounts
<1> QED
  BY <1>4, <1>5 DEF BridgeInv

-----------------------------------------------------------------------------
(* The task. *)
LEMMA TaskStep ==
    ASSUME BridgeInv, BridgeTask
    PROVE  BridgeInv'
<1> USE DEF BridgeInv
<1>1. CASE TaskBegins
  <2>1. tail' \in Slot
    BY <1>1, SuccInSlot DEF TaskBegins, TypeOK
  <2>2. inFlight' \in BOOLEAN /\ (inFlight' => inFlight /\ tail' = tail)
    BY <1>1 DEF TaskBegins, TypeOK
  <2> QED
    BY <1>1, <2>1, <2>2 DEF TaskBegins, TypeOK, InFlightIsOldest, SuppressCovers, OwnKeepsCounts, outside, owed
<1>2. CASE SendOne
  <2>1. /\ usbQueue # <<>> /\ usbQueue' = Tail(usbQueue)
        /\ usbQueue \in Seq(HostPacket) /\ Len(usbQueue) <= Depth - 1
    BY <1>2 DEF SendOne, TypeOK
  <2>2. usbQueue' \in Seq(HostPacket) /\ Len(usbQueue') <= Depth - 1
    BY <2>1, BridgeBounds
  <2>3. CASE Head(usbQueue) = "quirk"
    <3>1. outstanding < OutstandingMax /\ outstanding' = outstanding + 1
      BY <1>2, <2>3, NumbersOwed DEF SendOne
    <3>2. Push("event") /\ CountAnswerDue
      BY <1>2, <2>3 DEF SendOne
    <3>3. suppress' \in 0..SuppressMax /\ outstanding' \in 0..OutstandingMax
      BY <3>1, <3>2, BridgeBounds DEF CountAnswerDue, TypeOK
    <3>4. outstanding' <= suppress' + taken /\ UNCHANGED <<standbyOwed, taken>>
      BY <1>2, <3>1, <3>2, NumbersOwed, BridgeBounds
         DEF SendOne, CountAnswerDue, TypeOK, SuppressCovers
    <3>5. "event" \in Packet
      BY DEF Packet
    <3> QED
      BY <1>2, <2>2, <3>2, <3>3, <3>4, <3>5, PushKeeps
         DEF SendOne, TypeOK, InFlightIsOldest, SuppressCovers, OwnKeepsCounts, tx, owed
  <2>4. CASE Head(usbQueue) # "quirk"
    BY <1>2, <2>2, <2>4 DEF SendOne, TypeOK, InFlightIsOldest, SuppressCovers, OwnKeepsCounts, tx, owed
  <2> QED
    BY <2>3, <2>4
<1>3. CASE SendStops
  BY <1>3 DEF SendStops, TypeOK, InFlightIsOldest, SuppressCovers, OwnKeepsCounts, ring, tx, outside, owed
<1>4. CASE Transmit
  <2>1. TxTicks \in 0..TxTicks
    BY BridgeBounds
  <2>2. slots[tail] \in Packet \cup {Empty} /\ EndpointOf(slots[tail]) \in Endpoint
    BY DEF TypeOK, EndpointOf, Endpoint
  <2>3. transfer' \in [Endpoint -> [slot : Slot, packet : Packet \cup {Empty}]]
    BY <1>4, <2>2 DEF Transmit, TypeOK
  <2> QED
    BY <1>4, <2>1, <2>2, <2>3
       DEF Transmit, CanTransmit, TypeOK, InFlightIsOldest, SuppressCovers, OwnKeepsCounts, ring, owed
<1>5. CASE TransmitNothing
  BY <1>5 DEF TransmitNothing, TypeOK, InFlightIsOldest, SuppressCovers, OwnKeepsCounts, ring, tx, outside, owed
<1> QED
  BY <1>1, <1>2, <1>3, <1>4, <1>5 DEF BridgeTask

(* The bus and time. *)
LEMMA WorldStep ==
    ASSUME BridgeInv,
           \/ \E e \in Endpoint : HostReads(e)
           \/ BusReset \/ BusReadiness(TRUE) \/ BusReadiness(FALSE) \/ BridgeTick
    PROVE  BridgeInv'
<1> USE DEF BridgeInv
<1>1. ASSUME NEW e \in Endpoint, HostReads(e)
      PROVE  BridgeInv'
  <2>1. tail' \in Slot /\ ~inFlight' /\ txTimer' \in 0..TxTicks
    BY <1>1, SuccInSlot, BridgeBounds DEF HostReads, SentCallback, TypeOK
  <2>2. transfer' \in [Endpoint -> [slot : Slot, packet : Packet \cup {Empty}]]
    BY <1>1, IdleType DEF HostReads, TypeOK
  <2> QED
    BY <1>1, <2>1, <2>2 DEF HostReads, SentCallback, TypeOK, InFlightIsOldest, SuppressCovers, OwnKeepsCounts, owed
<1>2. CASE BusReset
  BY <1>2, IdleType DEF BusReset, TypeOK, InFlightIsOldest, SuppressCovers, OwnKeepsCounts, ring, tx, owed
<1>3. CASE BusReadiness(TRUE) \/ BusReadiness(FALSE)
  <2>1. usbReady' \in BOOLEAN
    BY <1>3 DEF BusReadiness
  <2> QED
    BY <1>3, <2>1 DEF BusReadiness, TypeOK, InFlightIsOldest, SuppressCovers, OwnKeepsCounts, ring, tx, outside, owed
<1>4. CASE BridgeTick
  <2>1. txTimer' \in 0..TxTicks
    BY <1>4, BridgeBounds DEF BridgeTick, Down, TypeOK
  <2> QED
    BY <1>4, <2>1 DEF BridgeTick, TypeOK, InFlightIsOldest, SuppressCovers, OwnKeepsCounts, ring, outside, owed
<1> QED
  BY <1>1, <1>2, <1>3, <1>4

LEMMA BridgeStep == BridgeInv /\ [Next]_bridgeVars => BridgeInv'
<1> SUFFICES ASSUME BridgeInv, [Next]_bridgeVars PROVE BridgeInv'
  OBVIOUS
<1>1. CASE UNCHANGED bridgeVars
  BY <1>1 DEF BridgeInv, bridgeVars, ring, tx, outside, TypeOK, InFlightIsOldest, SuppressCovers, OwnKeepsCounts, owed
<1>2. CASE Next
  BY <1>2, CallsStep, OthersStep, AnswersHostStep, AnswersStandbyStep, OwedStep, TaskStep, WorldStep DEF Next
<1> QED
  BY <1>1, <1>2

-----------------------------------------------------------------------------
(* The type invariant, what makes the order of packets, and the counter of *)
(* answers to suppress hold together, for all values of the constants.     *)
THEOREM BridgeInvariant == Spec => []BridgeInv
BY BridgeInit, BridgeStep, PTL DEF Spec

(* Every variable keeps its type. *)
THEOREM BridgeTypeCorrect == Spec => []TypeOK
<1>1. BridgeInv => TypeOK
  BY DEF BridgeInv
<1> QED
  BY <1>1, BridgeInvariant, PTL

(* The packet in flight is always the oldest of the ring, so a callback or *)
(* a timeout removes the packet that was given and no other.               *)
THEOREM OldestInFlight == Spec => []InFlightIsOldest
<1>1. BridgeInv => InFlightIsOldest
  BY DEF BridgeInv
<1> QED
  BY <1>1, BridgeInvariant, PTL

(* The counter covers the answers that the controller still owes the PC,   *)
(* but for the counts that answers to the standby host have used up.       *)
THEOREM CounterCovers == Spec => []SuppressCovers
<1>1. BridgeInv => SuppressCovers
  BY DEF BridgeInv
<1> QED
  BY <1>1, BridgeInvariant, PTL

(* Only the answers to the host's commands are counted off outstanding.    *)
LEMMA AnswersCountedOff ==
    ASSUME TypeOK, [Next]_bridgeVars, outstanding' < outstanding, ~UNCHANGED <<slots, head>>
    PROVE  AnswersHost
<1>1. outstanding \in Nat
  BY NumbersOwed
<1>2. CASE SendOne
  BY <1>1, <1>2 DEF SendOne
<1>3. CASE NeverAnswers
  BY <1>3 DEF NeverAnswers, ring
<1>4. CASE Next /\ ~AnswersHost /\ ~SendOne /\ ~NeverAnswers
  <2>1. outstanding' = outstanding
    BY <1>4 DEF Next, BridgeTask, Enable, Disable, HostSends, HostAsksExtendedFeatures,
         ControllerPacket, AnswersStandby, StandbySends, TaskBegins, SendStops, Transmit,
         TransmitNothing, HostReads, BusReset, BusReadiness, BridgeTick, outside, owed
  <2> QED
    BY <1>1, <2>1
<1>5. CASE UNCHANGED bridgeVars
  BY <1>1, <1>5 DEF bridgeVars, outside, owed
<1> QED
  BY <1>2, <1>3, <1>4, <1>5

(* An answer to the host that is passed on finds the counter at zero, and   *)
(* so one of its counts taken.                                              *)
LEMMA PassedOnWasTaken ==
    ASSUME BridgeInv, AnswersHost, ~UNCHANGED <<slots, head>>
    PROVE  taken > 0 /\ taken' < taken
<1>1. TypeOK /\ SuppressCovers /\ outstanding > 0 /\ outstanding' = outstanding - 1
  BY DEF BridgeInv, AnswersHost
<1>2. PassesOn("complete") /\ suppress = 0
  BY <1>1, CompleteCounts DEF AnswersHost
<1>3. taken' = AtMost(Down(taken), outstanding')
  BY <1>2 DEF AnswersHost
<1> QED
  BY <1>1, <1>2, <1>3, NumbersOwed DEF SuppressCovers, AtMost, Down

(* A command that the standby host sends too: the controller's own answer  *)
(* to a command of the PC that the bridge has answered is passed on only   *)
(* in place of a late answer to the standby host, once for each.           *)
THEOREM SecondAnswerNeedsTaken == Spec => SecondAnswerForTaken
<1>1. ASSUME BridgeInv, [Next]_bridgeVars
      PROVE  [outstanding' < outstanding /\ ~UNCHANGED <<slots, head>> => taken' < taken]_bridgeVars
  BY <1>1, AnswersCountedOff, PassedOnWasTaken DEF BridgeInv
<1> QED
  BY <1>1, BridgeInvariant, PTL DEF Spec, SecondAnswerForTaken

(* A command that only the PC sends: the controller's own answer to one    *)
(* that the bridge has answered never enters the queue towards the host.   *)
THEOREM OwnCommandsAnsweredOnce ==
    ASSUME StandbyMax = 0
    PROVE  Spec => NoSecondAnswer
<1>1. ASSUME BridgeInv, [Next]_bridgeVars
      PROVE  [outstanding' < outstanding => UNCHANGED <<slots, head>>]_bridgeVars
  BY <1>1, AnswersCountedOff, PassedOnWasTaken DEF BridgeInv, OwnKeepsCounts
<1> QED
  BY <1>1, BridgeInvariant, PTL DEF Spec, NoSecondAnswer

-----------------------------------------------------------------------------
(* The ring as a queue.  Place(i) is the slot of the i-th oldest packet.   *)
Place(i) == IF tail + i > Depth THEN tail + i - 1 - Depth ELSE tail + i - 1

LEMMA PlaceInSlot ==
    ASSUME TypeOK, NEW i \in 1..Depth
    PROVE  Place(i) \in Slot
BY BridgeBounds DEF TypeOK, Slot, Place

LEMMA CountType ==
    ASSUME TypeOK
    PROVE  Count \in 0..(Depth - 1) /\ (Count = 0 <=> tail = head)
BY BridgeBounds DEF TypeOK, Slot, Count

QueueView ==
    /\ Queued \in Seq(Packet \cup {Empty})
    /\ Len(Queued) = Count
    /\ \A i \in 1..Count : Queued[i] = slots[Place(i)]

LEMMA QueuedType == TypeOK => QueueView
<1> SUFFICES ASSUME TypeOK PROVE QueueView
  OBVIOUS
<1>1. Queued = [i \in 1..Count |-> slots[Place(i)]]
  BY DEF Queued, Place
<1>2. \A i \in 1..Count : slots[Place(i)] \in Packet \cup {Empty}
  BY PlaceInSlot, CountType, BridgeBounds DEF TypeOK
<1> QED
  BY <1>1, <1>2, CountType DEF QueueView

LEMMA QueuedTypeNext == TypeOK' => QueueView'
BY QueuedType, PTL

(* Dropping the oldest packet. *)
LEMMA QueuedDrop ==
    ASSUME TypeOK, TypeOK', tail # head,
           tail' = Succ(tail), UNCHANGED <<slots, head>>
    PROVE  /\ Queued' = Tail(Queued)
           /\ Head(Queued) = slots[tail]
           /\ Queued # <<>>
<1>1. Count' = Count - 1 /\ Count \in 1..(Depth - 1)
  BY BridgeBounds DEF TypeOK, Slot, Succ, Count
<1>2. \A i \in 1..Count' : Place(i)' = Place(i + 1)
  BY <1>1, BridgeBounds DEF TypeOK, Slot, Succ, Place
<1>3. Place(1) = tail
  BY BridgeBounds DEF TypeOK, Slot, Place
<1>4. /\ Queued' \in Seq(Packet \cup {Empty})
      /\ Len(Queued') = Count'
      /\ \A i \in 1..Count' : Queued'[i] = slots'[Place(i)']
  BY QueuedTypeNext DEF QueueView
<1> DEFINE q == Queued
           r == Queued'
<1>5. \A i \in 1..Len(r) : r[i] = q[i + 1]
  BY <1>1, <1>2, <1>4, QueuedType DEF QueueView
<1>6. Len(r) = Len(q) - 1 /\ Len(q) >= 1
  BY <1>1, <1>4, QueuedType DEF QueueView
<1>7. q \in Seq(Packet \cup {Empty}) /\ r \in Seq(Packet \cup {Empty})
  BY <1>4, QueuedType DEF QueueView
<1> HIDE DEF q, r
<1>8. r = Tail(q) /\ Head(q) = q[1] /\ q # <<>>
  BY <1>5, <1>6, <1>7
<1> QED
  BY <1>1, <1>3, <1>8, QueuedType DEF q, r, QueueView

(* A push appends, or a full ring stays as it is. *)
LEMMA QueuedPush ==
    ASSUME TypeOK, TypeOK', NEW p \in Packet, Push(p), tail' = tail
    PROVE  \/ Queued' = Queued
           \/ Queued' = Append(Queued, p) /\ Len(Queued) < Depth - 1
<1>1. CASE Full
  BY <1>1 DEF Push, Queued, Count
<1>2. CASE ~Full
  <2>1. slots' = [slots EXCEPT ![head] = p] /\ head' = Succ(head)
    BY <1>2 DEF Push
  <2>2. Count' = Count + 1 /\ Count \in 0..(Depth - 2)
    BY <1>2, <2>1, BridgeBounds DEF TypeOK, Slot, Succ, Count, Full
  <2>3. (\A i \in 1..Count : Place(i) # head) /\ Place(Count + 1) = head
    <3>1. head \in 0..(Depth - 1) /\ tail \in 0..(Depth - 1) /\ Depth \in Nat
      BY BridgeBounds DEF TypeOK, Slot
    <3> QED
      BY ONLY <3>1, <2>2 DEF Count, Place
  <2>4. Place(Count + 1) = head
    BY <2>3
  <2>5. \A i \in 1..Count' : Place(i)' = Place(i)
    BY DEF Place
  <2>6. /\ Queued' \in Seq(Packet \cup {Empty})
        /\ Len(Queued') = Count'
        /\ \A i \in 1..Count' : Queued'[i] = slots'[Place(i)']
    BY QueuedTypeNext DEF QueueView
  <2> DEFINE q == Queued
             r == Queued'
  <2>7. /\ q \in Seq(Packet \cup {Empty}) /\ r \in Seq(Packet \cup {Empty})
        /\ Len(r) = Len(q) + 1
    BY <2>2, <2>6, QueuedType DEF QueueView
  <2>8. DOMAIN slots = Slot /\ head \in Slot
    BY DEF TypeOK
  <2>9. \A i \in 1..Len(q) : r[i] = q[i]
    <3>1. \A i \in 1..Count : Place(i) \in Slot
      BY <2>2, PlaceInSlot, BridgeBounds
    <3>2. Len(q) = Count /\ \A i \in 1..Count : q[i] = slots[Place(i)]
      BY QueuedType DEF QueueView
    <3>3. \A i \in 1..Count : i \in 1..Count'
      BY <2>2
    <3>4. \A i \in 1..Count : slots'[Place(i)] = slots[Place(i)]
      BY ONLY <3>1, <2>1, <2>3, <2>8
    <3> QED
      BY ONLY <3>2, <3>3, <3>4, <2>5, <2>6 DEF r
  <2>10. r[Len(q) + 1] = p
    <3>1. Len(q) + 1 = Count + 1 /\ Count + 1 \in 1..Count'
      BY <2>2, QueuedType DEF QueueView
    <3>2. slots'[head] = p
      BY <2>1, <2>8
    <3> QED
      BY ONLY <3>1, <3>2, <2>4, <2>5, <2>6 DEF r
  <2>11. Len(q) < Depth - 1
    BY <2>2, QueuedType, BridgeBounds DEF QueueView
  <2> HIDE DEF q, r
  <2>12. r = Append(q, p)
    BY <2>7, <2>9, <2>10
  <2> QED
    BY <2>11, <2>12 DEF q, r
<1> QED
  BY <1>1, <1>2

-----------------------------------------------------------------------------
(* The refinement. *)
LEMMA PendingType ==
    ASSUME BridgeInv
    PROVE  /\ Pending \in Seq(Packet \cup {Empty})
           /\ Len(Pending) <= Depth - 1
           /\ inFlight => Queued # <<>>
<1>1. inFlight => Queued # <<>>
  BY QueuedType, CountType DEF BridgeInv, InFlightIsOldest, QueueView
<1> QED
  BY <1>1, QueuedType, CountType, BridgeBounds DEF BridgeInv, Pending, QueueView

LEMMA PushAccepts ==
    ASSUME BridgeInv, BridgeInv', NEW p \in Packet, Push(p), UNCHANGED <<tail, inFlight, given>>
    PROVE  ToHost!Accept(p) \/ UNCHANGED <<Pending, given>>
<1>1. CASE Queued' = Queued
  BY <1>1 DEF Pending
<1>2. CASE Queued' = Append(Queued, p) /\ Len(Queued) < Depth - 1
  <2>1. Queued \in Seq(Packet \cup {Empty})
    BY QueuedType DEF BridgeInv, QueueView
  <2>2. inFlight => Queued # <<>>
    BY PendingType
  <2>3. Pending' = Append(Pending, p)
    BY <1>2, <2>1, <2>2 DEF Pending
  <2>4. Len(Pending) < Depth - 1
    BY <1>2, <2>1, <2>2, HeadTailProperties, BridgeBounds DEF Pending
  <2> QED
    BY <2>3, <2>4 DEF ToHost!Accept
<1> QED
  BY <1>1, <1>2, QueuedPush DEF BridgeInv

(* When a packet in flight is dropped, the channel does not notice. *)
LEMMA DropUnnoticed ==
    ASSUME BridgeInv, BridgeInv', UNCHANGED <<slots, head, given>>,
           ~inFlight', tail' = IF inFlight THEN Succ(tail) ELSE tail
    PROVE  UNCHANGED <<Pending, given>>
<1>1. CASE inFlight
  <2>1. tail # head
    BY <1>1 DEF BridgeInv, InFlightIsOldest
  <2>2. Queued' = Tail(Queued)
    BY <1>1, <2>1, QueuedDrop DEF BridgeInv
  <2> QED
    BY <1>1, <2>2 DEF Pending
<1>2. CASE ~inFlight
  BY <1>2 DEF Pending, Queued, Count
<1> QED
  BY <1>1, <1>2

LEMMA TransmitGives ==
    ASSUME BridgeInv, Transmit
    PROVE  ToHost!Give
<1>1. ~inFlight /\ tail # head /\ given' = slots[tail] /\ inFlight' /\ UNCHANGED ring
  BY DEF Transmit, CanTransmit
<1>2. Queued' = Queued
  BY <1>1 DEF Queued, Count, ring
<1>3. Queued # <<>> /\ Head(Queued) = slots[tail]
  <2>1. Place(1) = tail
    BY BridgeBounds DEF Place, BridgeInv, TypeOK, Slot
  <2>2. Count >= 1 /\ Count \in Nat
    BY <1>1, CountType, BridgeBounds DEF BridgeInv
  <2> QED
    BY <2>1, <2>2, QueuedType DEF BridgeInv, QueueView
<1> QED
  BY <1>1, <1>2, <1>3 DEF ToHost!Give, Pending

LEMMA DisableClears ==
    ASSUME Disable
    PROVE  ToHost!Clear
<1>1. head' = 0 /\ tail' = 0 /\ ~inFlight' /\ ~enabled' /\ UNCHANGED given
  BY DEF Disable
<1>2. Count' = 0
  BY <1>1 DEF Count
<1>3. Queued' = <<>>
  BY <1>2 DEF Queued
<1> QED
  BY <1>1, <1>3 DEF ToHost!Clear, Pending

LEMMA ChannelStep ==
    BridgeInv /\ BridgeInv' /\ [Next]_bridgeVars => [ToHost!ChannelNext]_<<Pending, given>>
<1> SUFFICES ASSUME BridgeInv, BridgeInv', [Next]_bridgeVars
             PROVE  ToHost!ChannelNext \/ UNCHANGED <<Pending, given>>
  OBVIOUS
<1> USE DEF ToHost!ChannelNext
<1>1. ASSUME UNCHANGED <<ring, inFlight, given>>
      PROVE  UNCHANGED <<Pending, given>>
  BY <1>1 DEF ring, Pending, Queued, Count
<1>2. CASE Disable
  BY <1>2, DisableClears
<1>3. ASSUME NEW p \in Packet, Push(p), UNCHANGED <<tail, inFlight, given>>
      PROVE  ToHost!ChannelNext \/ UNCHANGED <<Pending, given>>
  BY <1>3, PushAccepts
<1>4. CASE HostAsksExtendedFeatures
  BY <1>3, <1>4 DEF HostAsksExtendedFeatures, Packet, tx
<1>5. ASSUME NEW p \in FromController, BackendPacket(p)
      PROVE  ToHost!ChannelNext \/ UNCHANGED <<Pending, given>>
  <2>1. UNCHANGED <<tail, inFlight, given>>
    BY <1>5 DEF BackendPacket, tx
  <2>2. Kind(p) \in Packet
    BY DEF Kind, FromController, Packet
  <2>3. Push(Kind(p)) \/ UNCHANGED <<slots, head>>
    BY <1>5 DEF BackendPacket
  <2> QED
    BY <1>1, <1>3, <2>1, <2>2, <2>3 DEF ring
<1>6. CASE \/ AnswersHost \/ AnswersStandby \/ \E p \in Packet : ControllerPacket(p)
  BY <1>6, <1>5 DEF AnswersHost, AnswersStandby, ControllerPacket, FromController
<1>7. CASE SendOne
  BY <1>1, <1>3, <1>7 DEF SendOne, Packet, ring, tx
<1>8. CASE TaskBegins
  <2>1. CASE TimedOut
    BY <1>8, <2>1, DropUnnoticed DEF TaskBegins, TimedOut, BridgeInv, InFlightIsOldest, outside
  <2>2. CASE ~TimedOut
    BY <1>1, <1>8, <2>2 DEF TaskBegins, ring
  <2> QED
    BY <2>1, <2>2
<1>9. CASE Transmit
  BY <1>9, TransmitGives
<1>10. CASE \E e \in Endpoint : HostReads(e)
  BY <1>10, DropUnnoticed DEF HostReads, SentCallback, BridgeInv, InFlightIsOldest
<1>11. CASE \/ Enable \/ \E p \in HostPacket : HostSends(p)
            \/ SendStops \/ TransmitNothing \/ NeverAnswers \/ StandbySends
            \/ BusReset \/ BusReadiness(TRUE) \/ BusReadiness(FALSE) \/ BridgeTick
            \/ UNCHANGED bridgeVars
  BY <1>1, <1>11 DEF Enable, HostSends, SendStops, NeverAnswers, StandbySends, TransmitNothing, BusReset, BusReadiness,
       BridgeTick, bridgeVars, tx, ring, outside
<1> QED
  BY <1>2, <1>4, <1>6, <1>7, <1>8, <1>9, <1>10, <1>11 DEF Next, BridgeTask

LEMMA ChannelStart == Init => ToHost!ChannelInit
<1> SUFFICES ASSUME Init PROVE ToHost!ChannelInit
  OBVIOUS
<1>1. Count = 0 /\ ~inFlight
  BY DEF Init, Count
<1>2. Queued = <<>>
  BY <1>1 DEF Queued
<1> QED
  BY <1>1, <1>2 DEF Init, ToHost!ChannelInit, Pending

(* Towards the host the bridge implements the abstract channel: packets    *)
(* are given in order, once, and lost only with a disabled bridge, however *)
(* timeouts, resets and callbacks fall.                                    *)
THEOREM BridgeImplementsChannel == Spec => ImplementsChannel
<1>1. Init => ToHost!ChannelInit
  BY ChannelStart
<1>2. BridgeInv /\ BridgeInv' /\ [Next]_bridgeVars => [ToHost!ChannelNext]_<<Pending, given>>
  BY ChannelStep
<1> QED
  BY <1>1, <1>2, BridgeInvariant, PTL DEF Spec, ImplementsChannel, ToHost!ChannelSpec
=============================================================================
