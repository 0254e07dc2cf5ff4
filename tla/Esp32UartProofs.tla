--------------------------- MODULE Esp32UartProofs ---------------------------
(***************************************************************************)
(* Proofs about the receive path of the ESP32 backend, for every size of    *)
(* the ring, of the packet storage and of a byte, and for all packets: the  *)
(* types, that a packet that is given is as long as its header says, that   *)
(* the ring is a channel, and that the packets of the controller are given  *)
(* as they were sent until a byte is lost.                                  *)
(***************************************************************************)
EXTENDS Esp32Uart, SequenceTheorems, TLAPS

(* The numbers below Word are those of the 16-bit length. *)
Word == Base * Base

LEMMA WordIs ==
    /\ Base \in Nat /\ Base >= 5 /\ Word \in Nat /\ Word >= 5
    /\ Capacity \in Nat /\ Capacity >= 4 /\ Capacity < Word
<1>1. Base \in Nat /\ Base >= 5 /\ Capacity \in Nat /\ Capacity >= 4 /\ Capacity < Word
  BY ParserBounds DEF EVENT, Word
<1>2. Word \in Nat
  BY <1>1 DEF Word
<1> QED
  BY <1>1, <1>2

LEMMA Wraps ==
    ASSUME NEW w \in Nat, w >= 1, NEW n \in Nat, n < w + w
    PROVE  n % w = IF n < w THEN n ELSE n - w
OBVIOUS

(* The lengths that a header can say. *)
LEMMA LensOf ==
    ASSUME NEW t \in ParsedType, NEW h
    PROVE  \/ t = EVENT /\ HeaderLen(t) = 2 /\ PayloadLen(t, h) = h[2]
           \/ t = SCO /\ HeaderLen(t) = 3 /\ PayloadLen(t, h) = h[3]
           \/ t = ACL /\ HeaderLen(t) = 4 /\ PayloadLen(t, h) = h[3] + Base * h[4]
BY DEF ParsedType, HeaderLen, PayloadLen, EVENT, ACL, SCO

LEMMA HeaderLens ==
    ASSUME NEW t \in ParsedType
    PROVE  HeaderLen(t) \in 2..4
BY LensOf

LEMMA PayloadLens ==
    ASSUME NEW t \in ParsedType, NEW h \in Seq(Byte), Len(h) >= HeaderLen(t)
    PROVE  PayloadLen(t, h) \in 0..(Word - 1)
<1>1. Len(h) \in Nat /\ \A i \in 1..Len(h) : h[i] \in 0..(Base - 1)
  BY LenProperties, ElementOfSeq DEF Byte
<1>2. Base \in Nat /\ Base >= 5
  BY WordIs
<1>3. Base - 1 < Word
  BY <1>2 DEF Word
<1>4. CASE HeaderLen(t) = 2 /\ PayloadLen(t, h) = h[2]
  <2>1. h[2] \in 0..(Base - 1)
    BY <1>1, <1>4
  <2> QED
    BY <2>1, <1>2, <1>3, <1>4, WordIs
<1>5. CASE HeaderLen(t) = 3 /\ PayloadLen(t, h) = h[3]
  <2>1. h[3] \in 0..(Base - 1)
    BY <1>1, <1>5
  <2> QED
    BY <2>1, <1>2, <1>3, <1>5, WordIs
<1>6. CASE HeaderLen(t) = 4 /\ PayloadLen(t, h) = h[3] + Base * h[4]
  <2>1. h[3] \in 0..(Base - 1) /\ h[4] \in 0..(Base - 1)
    BY <1>1, <1>6
  <2>2. \A x, y \in 0..(Base - 1) : x + Base * y \in 0..(Base * Base - 1)
    <3> SUFFICES ASSUME NEW x \in 0..(Base - 1), NEW y \in 0..(Base - 1)
                 PROVE  x + Base * y \in 0..(Base * Base - 1)
      OBVIOUS
    <3>1. Base * y \in Nat /\ Base * (y + 1) = Base * y + Base
      BY <1>2
    <3>2. Base * (y + 1) <= Base * Base
      <4>1. (Base - 1) - y \in Nat /\ Base = (y + 1) + ((Base - 1) - y)
        BY <1>2
      <4>2. \A a, b, c \in Nat : c = a + b => Base * c = Base * a + Base * b /\ Base * b \in Nat /\ Base * a \in Nat
        BY <1>2
      <4>3. y + 1 \in Nat
        BY <1>2
      <4> QED
        BY <1>2, <4>1, <4>2, <4>3
    <3> QED
      BY <1>2, <3>1, <3>2
  <2> QED
    BY <1>6, <2>1, <2>2 DEF Word
<1> QED
  BY <1>4, <1>5, <1>6, LensOf

(* Only the header says how long the payload is. *)
LEMMA PayloadSame ==
    ASSUME NEW t \in ParsedType, NEW h, NEW p, \A i \in 1..HeaderLen(t) : h[i] = p[i]
    PROVE  PayloadLen(t, h) = PayloadLen(t, p)
<1>1. CASE HeaderLen(t) = 2 /\ PayloadLen(t, h) = h[2] /\ PayloadLen(t, p) = p[2]
  <2>1. 2 \in 1..HeaderLen(t)
    BY <1>1
  <2> QED
    BY <1>1, <2>1
<1>2. CASE HeaderLen(t) = 3 /\ PayloadLen(t, h) = h[3] /\ PayloadLen(t, p) = p[3]
  <2>1. 3 \in 1..HeaderLen(t)
    BY <1>2
  <2> QED
    BY <1>2, <2>1
<1>3. CASE /\ HeaderLen(t) = 4 /\ PayloadLen(t, h) = h[3] + Base * h[4]
           /\ PayloadLen(t, p) = p[3] + Base * p[4]
  <2>1. 3 \in 1..HeaderLen(t) /\ 4 \in 1..HeaderLen(t)
    BY <1>3
  <2>2. h[3] = p[3] /\ h[4] = p[4]
    BY <2>1
  <2> QED
    BY <1>3, <2>2
<1>4. EVENT # SCO /\ SCO # ACL /\ EVENT # ACL
  BY DEF EVENT, SCO, ACL
<1> QED
  BY <1>1, <1>2, <1>3, <1>4, LensOf

-----------------------------------------------------------------------------
(* The parser.  The length it reads a payload to is what the header says,   *)
(* up to the wrapping of 16 bits.                                           *)
SaidLen(t, h) == (HeaderLen(t) + PayloadLen(t, h)) % Word

PayloadHonest ==
    state = "READ_PAYLOAD" => packetLen = SaidLen(type, packet)

ParserInv == ParserTypeOK /\ PayloadHonest /\ LengthsHonest

(* A packet longer than its header and as long as that says up to wrapping  *)
(* is exactly that long.                                                    *)
LEMMA SaidIsMeant ==
    ASSUME NEW t \in ParsedType, NEW p \in Seq(Byte),
           Len(p) > HeaderLen(t) \/ (Len(p) = HeaderLen(t) /\ PayloadLen(t, p) = 0),
           Len(p) = SaidLen(t, p)
    PROVE  WellFormed([type |-> t, bytes |-> p])
<1> DEFINE h == HeaderLen(t)
           n == PayloadLen(t, p)
<1>1. h \in 2..4 /\ Len(p) \in Nat /\ Len(p) >= h
  BY HeaderLens, LenProperties
<1>2. n \in 0..(Word - 1)
  BY <1>1, PayloadLens
<1>3. Len(p) = (h + n) % Word
  BY DEF SaidLen
<1>4. Len(p) > h \/ n = 0
  OBVIOUS
<1> HIDE DEF h, n
<1>5. h + n \in Nat /\ h + n < Word + Word
  BY <1>1, <1>2, WordIs
<1>6. Len(p) = IF h + n < Word THEN h + n ELSE (h + n) - Word
  BY <1>3, <1>5, Wraps, WordIs
<1>7. Len(p) = h + n
  BY <1>1, <1>2, <1>4, <1>6, WordIs
<1> QED
  BY <1>1, <1>7 DEF WellFormed, h, n

LEMMA ParserTypes ==
    ASSUME ParserInv
    PROVE  /\ state \in {"WAIT_TYPE", "READ_HEADER", "READ_PAYLOAD", "ERROR_RECOVERY"}
           /\ type \in ParsedType \cup {COMMAND}
           /\ header \in Seq(Byte) /\ Len(header) \in Nat
           /\ packet \in Seq(Byte) /\ Len(packet) \in Nat
           /\ packetLen \in 0..Capacity
           /\ state \in {"READ_HEADER", "READ_PAYLOAD"} =>
                  type \in ParsedType /\ HeaderLen(type) \in 2..4
           /\ state = "READ_HEADER" => Len(header) < HeaderLen(type) /\ packet = <<>>
           /\ state = "READ_PAYLOAD" =>
                  /\ Len(header) = HeaderLen(type) /\ Len(packet) \in HeaderLen(type)..Capacity
                  /\ packetLen = SaidLen(type, packet)
           /\ state \in {"WAIT_TYPE", "ERROR_RECOVERY"} => header = <<>> /\ packet = <<>>
BY LenProperties, HeaderLens DEF ParserInv, ParserTypeOK, PayloadHonest

LEMMA ParserRests ==
    ASSUME ParserInv, ResetParser
    PROVE  ParserTypeOK' /\ PayloadHonest'
<1>1. /\ state' = "WAIT_TYPE" /\ type' = type
      /\ header' = <<>> /\ packet' = <<>> /\ packetLen' = 0
  BY DEF ResetParser
<1>2. packetLen' \in 0..Capacity /\ <<>> \in Seq(Byte)
  BY <1>1, WordIs
<1> QED
  BY <1>1, <1>2, ParserTypes DEF ParserTypeOK, PayloadHonest

LEMMA GivesNothing ==
    ASSUME GiveNothing
    PROVE  LengthsHonest'
BY DEF GiveNothing, LengthsHonest

LEMMA ParserDiscards ==
    ASSUME ParserInv, Discard
    PROVE  ParserInv'
BY ParserRests, GivesNothing DEF Discard, ParserInv

LEMMA ParserGives ==
    ASSUME ParserInv, NEW p, Callback(p), WellFormed([type |-> type, bytes |-> p])
    PROVE  ParserInv'
BY ParserRests DEF Callback, LengthsHonest, ParserInv

LEMMA WaitTypeStays ==
    ASSUME ParserInv, NEW b \in Byte, WaitType(b)
    PROVE  ParserInv'
<1>1. /\ LengthsHonest' /\ header = <<>> /\ packet = <<>>
  BY GivesNothing, ParserTypes DEF WaitType
<1>2. CASE b \in ParsedType /\ StartHeader(b)
  <2>1. /\ type' = b /\ state' = "READ_HEADER" /\ header' = <<>> /\ packet' = <<>> /\ packetLen' = 0
    BY <1>2 DEF StartHeader
  <2>2. packetLen' \in 0..Capacity /\ <<>> \in Seq(Byte) /\ Len(<<>>) = 0
    BY <2>1, WordIs
  <2>3. Len(<<>>) < HeaderLen(b)
    BY <1>2, <2>2, HeaderLens
  <2>4. ParserTypeOK' /\ PayloadHonest'
    BY <1>2, <2>1, <2>2, <2>3 DEF ParserTypeOK, PayloadHonest
  <2> QED
    BY <1>1, <2>4 DEF ParserInv
<1>3. CASE b \notin ParsedType /\ state' = "ERROR_RECOVERY"
                               /\ UNCHANGED <<type, header, packet, packetLen>>
  <2>1. ParserTypeOK' /\ PayloadHonest'
    BY <1>1, <1>3, ParserTypes DEF ParserTypeOK, PayloadHonest
  <2> QED
    BY <1>1, <2>1 DEF ParserInv
<1> QED
  BY <1>2, <1>3 DEF WaitType

LEMMA ReadHeaderStays ==
    ASSUME ParserInv, NEW b \in Byte, ReadHeader(b)
    PROVE  ParserInv'
<1> DEFINE h == Append(header, b)
<1>1. /\ state = "READ_HEADER" /\ type \in ParsedType /\ HeaderLen(type) \in 2..4
      /\ packet = <<>> /\ Len(header) \in Nat
  BY ParserTypes DEF ReadHeader
<1>2. h \in Seq(Byte) /\ Len(h) = Len(header) + 1
  BY ParserTypes, AppendProperties
<1>3. \/ /\ Len(h) < HeaderLen(type)
         /\ header' = h
         /\ UNCHANGED <<state, type, packet, packetLen>> /\ GiveNothing
      \/ Len(h) = HeaderLen(type) /\ BeginPayload(h)
  BY DEF ReadHeader
<1> HIDE DEF h
<1>4. CASE /\ Len(h) < HeaderLen(type)
           /\ header' = h
           /\ UNCHANGED <<state, type, packet, packetLen>> /\ GiveNothing
  <2>1. ParserTypeOK' /\ PayloadHonest'
    BY <1>1, <1>2, <1>4, ParserTypes DEF ParserTypeOK, PayloadHonest
  <2> QED
    BY <1>4, <2>1, GivesNothing DEF ParserInv
<1>5. CASE Len(h) = HeaderLen(type) /\ BeginPayload(h)
  <2> DEFINE said == PayloadLen(type, h)
             n == (Len(h) + said) % (Base * Base)
  <2>1. n = SaidLen(type, h)
    BY <1>5 DEF SaidLen, Word
  <2>2. \/ ~Fits(n) /\ Discard
        \/ Fits(n) /\ said = 0 /\ NoPayload(h)
        \/ /\ Fits(n) /\ said # 0
           /\ state' = "READ_PAYLOAD"
           /\ header' = h /\ packet' = h /\ packetLen' = n
           /\ UNCHANGED type /\ GiveNothing
    BY <1>5 DEF BeginPayload
  <2>3. said \in 0..(Word - 1)
    BY <1>1, <1>2, <1>5, PayloadLens
  <2> HIDE DEF n
  <2>4. said = 0 => n = Len(h)
    <3>1. ASSUME said = 0 PROVE n = Len(h)
      <4>1. HeaderLen(type) \in Nat /\ HeaderLen(type) < Word
        BY <1>1, WordIs
      <4>2. HeaderLen(type) % Word = HeaderLen(type)
        BY <4>1, Wraps, WordIs
      <4>3. HeaderLen(type) + PayloadLen(type, h) = HeaderLen(type)
        BY <3>1, <4>1
      <4>4. SaidLen(type, h) = HeaderLen(type) % Word
        BY <4>3 DEF SaidLen
      <4> QED
        BY <1>5, <2>1, <4>2, <4>4
    <3> QED
      BY <3>1
  <2>5. CASE Fits(n) /\ said = 0 /\ NoPayload(h)
    <3>1. WellFormed([type |-> type, bytes |-> h])
      BY <1>1, <1>2, <1>5, <2>1, <2>4, <2>5, SaidIsMeant
    <3> QED
      BY <2>5, <3>1, ParserGives DEF NoPayload
  <2>6. CASE /\ Fits(n) /\ said # 0
             /\ state' = "READ_PAYLOAD"
             /\ header' = h /\ packet' = h /\ packetLen' = n
             /\ UNCHANGED type /\ GiveNothing
    <3>1. n \in 0..Capacity
      <4>1. Len(h) + said \in Nat /\ Word \in Nat /\ Word >= 1
        BY <1>1, <1>5, <2>3, WordIs
      <4>2. \A a, w \in Nat : w >= 1 => a % w \in Nat
        OBVIOUS
      <4>3. n = (Len(h) + said) % Word
        BY DEF n, Word
      <4> QED
        BY <2>6, <4>1, <4>2, <4>3, WordIs DEF Fits
    <3>2. Len(h) \in Len(h)..Capacity
      BY <1>1, <1>5, WordIs
    <3>3. ParserTypeOK'
      BY <1>1, <1>2, <1>5, <2>6, <3>1, <3>2 DEF ParserTypeOK
    <3>4. PayloadHonest'
      BY <2>1, <2>6 DEF PayloadHonest
    <3> QED
      BY <2>6, <3>3, <3>4, GivesNothing DEF ParserInv
  <2> QED
    BY <2>2, <2>5, <2>6, ParserDiscards
<1> QED
  BY <1>3, <1>4, <1>5

LEMMA ReadPayloadStays ==
    ASSUME ParserInv, NEW b \in Byte, ReadPayload(b)
    PROVE  ParserInv'
<1> DEFINE p == Append(packet, b)
<1>1. /\ state = "READ_PAYLOAD" /\ type \in ParsedType /\ HeaderLen(type) \in 2..4
      /\ Len(header) = HeaderLen(type) /\ Len(packet) \in HeaderLen(type)..Capacity
      /\ packetLen = SaidLen(type, packet)
  BY ParserTypes DEF ReadPayload
<1>2. /\ p \in Seq(Byte) /\ Len(p) = Len(packet) + 1
      /\ \A i \in 1..Len(packet) : p[i] = packet[i]
  BY ParserTypes, AppendProperties
<1>3. \/ StorageFull /\ Discard
      \/ ~StorageFull /\ Complete(p) /\ Callback(p)
      \/ /\ ~StorageFull /\ packet' = p
         /\ UNCHANGED <<state, type, header, packetLen>> /\ GiveNothing
  BY DEF ReadPayload
<1> HIDE DEF p
<1>4. SaidLen(type, p) = SaidLen(type, packet)
  <2>1. \A i \in 1..HeaderLen(type) : p[i] = packet[i]
    BY <1>1, <1>2
  <2>2. PayloadLen(type, p) = PayloadLen(type, packet)
    BY <1>1, <2>1, PayloadSame
  <2> QED
    BY <2>2 DEF SaidLen
<1>5. CASE ~StorageFull /\ Complete(p) /\ Callback(p)
  <2>1. Len(p) = SaidLen(type, p) /\ Len(p) > HeaderLen(type)
    BY <1>1, <1>2, <1>4, <1>5 DEF Complete
  <2>2. WellFormed([type |-> type, bytes |-> p])
    BY <1>1, <1>2, <2>1, SaidIsMeant
  <2> QED
    BY <1>5, <2>2, ParserGives
<1>6. CASE /\ ~StorageFull /\ packet' = p
           /\ UNCHANGED <<state, type, header, packetLen>> /\ GiveNothing
  <2>1. Len(p) \in HeaderLen(type)..Capacity
    BY <1>1, <1>2, <1>6, WordIs DEF StorageFull
  <2>2. ParserTypeOK'
    BY <1>1, <1>2, <1>6, <2>1, ParserTypes DEF ParserTypeOK
  <2>3. PayloadHonest'
    BY <1>1, <1>4, <1>6 DEF PayloadHonest
  <2> QED
    BY <1>6, <2>2, <2>3, GivesNothing DEF ParserInv
<1> QED
  BY <1>3, <1>5, <1>6, ParserDiscards

(* Whatever byte comes, in step or not. *)
LEMMA ParserStep ==
    ASSUME ParserInv, NEW b \in Byte, FeedByte(b)
    PROVE  ParserInv'
BY WaitTypeStays, ReadHeaderStays, ReadPayloadStays, ParserDiscards DEF FeedByte, Recover

-----------------------------------------------------------------------------
(* The ring.  The bytes not yet taken are in Waiting slots from Start on. *)
SlotOf(i, k) == IF i + k > RingSize THEN i + k - 1 - RingSize ELSE i + k - 1

Start   == IF rxStep = "took" THEN After(rxTail) ELSE rxTail
Waiting == IF rxStep = "clearing" THEN 0 ELSE Filled(Start)

UntakenView ==
    /\ Untaken \in Seq(RingByte \cup {Gone})
    /\ Len(Untaken) = Waiting /\ Waiting \in 0..(RingSize - 1)
    /\ \A k \in 1..Waiting : Untaken[k] = rxRing[SlotOf(Start, k)]

(* What is waiting, and what is taken, was received. *)
RingInv ==
    /\ RingTypeOK
    /\ Untaken \in Seq(RingByte)
    /\ rxStep \in {"took", "feed"} => taken \in RingByte
    /\ rxStep = "took" => rxTail # rxHead
    /\ rxStep = "clearing" => rxTail = 0

LEMMA SizeIs == RingSize \in Nat /\ RingSize >= 2 /\ Gone \notin RingByte
BY RingBounds

LEMMA StartIs ==
    ASSUME RingTypeOK
    PROVE  /\ Start \in RingSlot /\ Waiting \in 0..(RingSize - 1)
           /\ \A k \in 1..RingSize : SlotOf(Start, k) \in RingSlot
<1>1. rxTail \in 0..(RingSize - 1) /\ rxHead \in 0..(RingSize - 1)
  BY DEF RingTypeOK, RingSlot
<1>2. Start \in 0..(RingSize - 1)
  BY <1>1, SizeIs DEF Start, After
<1>3. Waiting \in 0..(RingSize - 1)
  BY <1>1, <1>2, SizeIs DEF Waiting, Filled
<1>4. \A k \in 1..RingSize : SlotOf(Start, k) \in 0..(RingSize - 1)
  BY <1>2, SizeIs DEF SlotOf
<1> QED
  BY <1>2, <1>3, <1>4 DEF RingSlot

LEMMA ViewOfUntaken == RingTypeOK => UntakenView
<1> SUFFICES ASSUME RingTypeOK PROVE UntakenView
  OBVIOUS
<1>1. Waiting \in 0..(RingSize - 1) /\ \A k \in 1..RingSize : SlotOf(Start, k) \in RingSlot
  BY StartIs
<1>2. \A k \in 1..Waiting : rxRing[SlotOf(Start, k)] \in RingByte \cup {Gone}
  BY <1>1, SizeIs DEF RingTypeOK
<1>3. Untaken = [k \in 1..Waiting |-> rxRing[SlotOf(Start, k)]]
  <2>1. CASE rxStep = "clearing"
    BY <2>1 DEF Untaken, Waiting
  <2>2. CASE rxStep # "clearing"
    BY <2>2 DEF Untaken, Waiting, Start, From, SlotOf
  <2> QED
    BY <2>1, <2>2
<1> QED
  BY <1>1, <1>2, <1>3 DEF UntakenView

LEMMA ViewOfUntakenNext == RingTypeOK' => UntakenView'
BY ViewOfUntaken, PTL

(* A queue that stays. *)
LEMMA SameUntaken ==
    ASSUME RingTypeOK, RingTypeOK', Waiting' = Waiting,
           \A k \in 1..Waiting : rxRing'[SlotOf(Start', k)] = rxRing[SlotOf(Start, k)]
    PROVE  Untaken' = Untaken
<1> DEFINE q == Untaken
           r == Untaken'
<1>1. /\ q \in Seq(RingByte \cup {Gone}) /\ Len(q) = Waiting
      /\ \A k \in 1..Waiting : q[k] = rxRing[SlotOf(Start, k)]
  BY ViewOfUntaken DEF UntakenView
<1>2. /\ r \in Seq(RingByte \cup {Gone}) /\ Len(r) = Waiting'
      /\ \A k \in 1..Waiting' : r[k] = rxRing'[SlotOf(Start', k)]
  BY ViewOfUntakenNext DEF UntakenView, SlotOf
<1> HIDE DEF q, r
<1>3. \A k \in 1..Len(q) : q[k] = r[k]
  BY <1>1, <1>2
<1>4. q = r
  BY <1>1, <1>2, <1>3, SeqEqual
<1> QED
  BY <1>4 DEF q, r

LEMMA IrqTypes ==
    ASSUME RingTypeOK, NEW b \in RingByte, Irq(b)
    PROVE  RingTypeOK'
<1>1. rxHead \in RingSlot /\ After(rxHead) \in RingSlot
  BY SizeIs DEF RingTypeOK, RingSlot, After
<1> QED
  BY <1>1 DEF Irq, RingTypeOK

(* The interrupt, between any two steps of the loop. *)
LEMMA IrqAppends ==
    ASSUME RingInv, NEW b \in RingByte, Irq(b)
    PROVE  /\ RingInv'
           /\ Overflow \/ rxStep = "clearing" => Untaken' = Untaken
           /\ ~Overflow /\ rxStep # "clearing" =>
                  Untaken' = Append(Untaken, b) /\ Len(Untaken) < RingSize - 1
<1>1. RingTypeOK /\ RingTypeOK' /\ rxTail' = rxTail /\ rxStep' = rxStep /\ taken' = taken
  BY IrqTypes DEF RingInv, Irq
<1>2. CASE Overflow \/ rxStep = "clearing"
  <2>1. Untaken' = Untaken
    <3>1. CASE Overflow
      BY <1>1, <3>1 DEF Irq, Untaken, From, Filled, After
    <3>2. CASE rxStep = "clearing"
      BY <1>1, <3>2 DEF Untaken
    <3> QED
      BY <1>2, <3>1, <3>2
  <2>2. rxStep = "took" => rxHead' = rxHead
    BY <1>2 DEF Irq
  <2> QED
    BY <1>1, <1>2, <2>1, <2>2 DEF RingInv
<1>3. CASE ~Overflow /\ rxStep # "clearing"
  <2>1. rxRing' = [rxRing EXCEPT ![rxHead] = b] /\ rxHead' = After(rxHead)
    BY <1>3 DEF Irq
  <2>2. Start' = Start
    BY <1>1 DEF Start, After
  <2>3. /\ rxTail \in 0..(RingSize - 1) /\ rxHead \in 0..(RingSize - 1)
        /\ After(rxHead) # rxTail /\ (rxStep = "took" => rxTail # rxHead)
    BY <1>3 DEF RingInv, RingTypeOK, RingSlot, Overflow
  <2>4. /\ Waiting' = Waiting + 1 /\ Waiting < RingSize - 1
        /\ SlotOf(Start, Waiting + 1) = rxHead
        /\ \A k \in 1..Waiting : SlotOf(Start, k) # rxHead
        /\ rxStep = "took" => rxTail # After(rxHead)
    <3>1. CASE rxStep = "took"
      BY <1>1, <1>3, <2>1, <2>3, <3>1, SizeIs DEF Waiting, Start, Filled, After, SlotOf
    <3>2. CASE rxStep # "took"
      BY <1>1, <1>3, <2>1, <2>3, <3>2, SizeIs DEF Waiting, Start, Filled, After, SlotOf
    <3> QED
      BY <3>1, <3>2
  <2> DEFINE q == Untaken
             r == Untaken'
             n == Waiting
  <2>5. /\ q \in Seq(RingByte \cup {Gone}) /\ Len(q) = n /\ n \in Nat
        /\ \A k \in 1..n : q[k] = rxRing[SlotOf(Start, k)]
    BY <1>1, ViewOfUntaken DEF UntakenView
  <2>6. /\ r \in Seq(RingByte \cup {Gone}) /\ Len(r) = n + 1
        /\ \A k \in 1..n + 1 : r[k] = rxRing'[SlotOf(Start, k)]
    BY <1>1, <2>2, <2>4, ViewOfUntakenNext DEF UntakenView, SlotOf
  <2>7. \A k \in 1..n : SlotOf(Start, k) \in RingSlot /\ SlotOf(Start, k) # rxHead
    BY <1>1, <2>4, StartIs, SizeIs
  <2>8. rxRing \in [RingSlot -> RingByte \cup {Gone}] /\ rxHead \in RingSlot
    BY <1>1 DEF RingTypeOK
  <2>9. q \in Seq(RingByte)
    BY DEF RingInv
  <2>10. SlotOf(Start, n + 1) = rxHead /\ n < RingSize - 1
    BY <2>4
  <2> HIDE DEF q, r, n
  <2>11. \A k \in 1..n : r[k] = q[k]
    BY <2>1, <2>5, <2>6, <2>7, <2>8
  <2>12. r[n + 1] = b
    BY <2>1, <2>5, <2>6, <2>8, <2>10
  <2>13. r = Append(q, b)
    BY <2>5, <2>6, <2>11, <2>12
  <2>14. r \in Seq(RingByte) /\ Len(q) < RingSize - 1
    BY <2>5, <2>9, <2>10, <2>13
  <2>15. Untaken' = Append(Untaken, b) /\ Untaken' \in Seq(RingByte) /\ Len(Untaken) < RingSize - 1
    BY <2>13, <2>14 DEF q, r
  <2>16. RingInv'
    BY <1>1, <1>3, <2>1, <2>4, <2>15 DEF RingInv
  <2> QED
    BY <1>3, <2>15, <2>16
<1> QED
  BY <1>2, <1>3

(* The loop takes the oldest byte. *)
LEMMA TakeTakes ==
    ASSUME RingInv, TakeByte
    PROVE  /\ RingInv'
           /\ Untaken # <<>> /\ taken' = Head(Untaken) /\ Untaken' = Tail(Untaken)
           /\ rxStep = "idle" /\ rxStep' = "took"
<1>1. /\ rxStep = "idle" /\ rxStep' = "took" /\ rxTail # rxHead
      /\ taken' = rxRing[rxTail] /\ rxRing' = rxRing /\ rxHead' = rxHead /\ rxTail' = rxTail
  BY DEF TakeByte
<1>2. /\ rxTail \in 0..(RingSize - 1) /\ rxHead \in 0..(RingSize - 1)
      /\ rxRing \in [RingSlot -> RingByte \cup {Gone}] /\ rxTail \in RingSlot
  BY DEF RingInv, RingTypeOK, RingSlot
<1>3. RingTypeOK'
  BY <1>1, <1>2 DEF RingInv, RingTypeOK
<1>4. Start = rxTail /\ Start' = After(rxTail)
  BY <1>1 DEF Start, After
<1>5. /\ Waiting \in Nat /\ Waiting >= 1 /\ Waiting' = Waiting - 1
      /\ SlotOf(Start, 1) = rxTail
      /\ \A k \in 1..(Waiting - 1) : SlotOf(After(rxTail), k) = SlotOf(Start, k + 1)
  BY <1>1, <1>2, <1>4, SizeIs DEF Waiting, Filled, After, SlotOf
<1> DEFINE q == Untaken
           r == Untaken'
           n == Waiting
<1>6. /\ q \in Seq(RingByte) /\ Len(q) = n /\ n \in Nat
      /\ \A k \in 1..n : q[k] = rxRing[SlotOf(Start, k)]
  BY <1>5, ViewOfUntaken DEF UntakenView, RingInv
<1>7. /\ r \in Seq(RingByte \cup {Gone}) /\ Len(r) = n - 1
      /\ \A k \in 1..(n - 1) : r[k] = rxRing[SlotOf(After(rxTail), k)]
  <2>1. UntakenView'
    BY <1>3, ViewOfUntakenNext
  <2> QED
    BY <1>1, <1>4, <1>5, <2>1 DEF UntakenView, SlotOf
<1>8. n >= 1 /\ SlotOf(Start, 1) = rxTail /\ \A k \in 1..(n - 1) : SlotOf(After(rxTail), k) = SlotOf(Start, k + 1)
  BY <1>5
<1> HIDE DEF q, r, n
<1>9. q # <<>> /\ Head(q) = q[1] /\ q[1] = taken' /\ q[1] \in RingByte
  BY <1>1, <1>6, <1>8, EmptySeq, ElementOfSeq
<1>10. Tail(q) \in Seq(RingByte) /\ Len(Tail(q)) = n - 1 /\ \A k \in 1..(n - 1) : Tail(q)[k] = q[k + 1]
  BY <1>6, <1>9, HeadTailProperties
<1>11. \A k \in 1..(n - 1) : k + 1 \in 1..n
  BY <1>6
<1>12. \A k \in 1..(n - 1) : r[k] = Tail(q)[k]
  BY <1>6, <1>7, <1>8, <1>10, <1>11
<1>13. Tail(q) \in Seq(RingByte \cup {Gone})
  BY <1>10, SeqMonotonic, RingByte \subseteq RingByte \cup {Gone}
<1>14. r = Tail(q)
  BY <1>7, <1>10, <1>12, <1>13, SeqEqual
<1>15. /\ Untaken # <<>> /\ taken' = Head(Untaken) /\ Untaken' = Tail(Untaken)
       /\ taken' \in RingByte /\ Untaken' \in Seq(RingByte)
  BY <1>9, <1>10, <1>14 DEF q, r
<1> QED
  BY <1>1, <1>3, <1>15 DEF RingInv

LEMMA AdvanceKeeps ==
    ASSUME RingInv, AdvanceTail
    PROVE  RingInv' /\ Untaken' = Untaken /\ rxStep = "took" /\ rxStep' = "feed" /\ taken' = taken
<1>1. /\ rxStep = "took" /\ rxStep' = "feed" /\ taken' = taken /\ rxHead' = rxHead
      /\ rxTail' = After(rxTail) /\ rxRing' = [rxRing EXCEPT ![rxTail] = Gone]
  BY DEF AdvanceTail
<1>2. /\ rxTail \in 0..(RingSize - 1) /\ rxHead \in 0..(RingSize - 1) /\ rxTail # rxHead
      /\ rxRing \in [RingSlot -> RingByte \cup {Gone}] /\ rxTail \in RingSlot
  BY <1>1 DEF RingInv, RingTypeOK, RingSlot
<1>3. After(rxTail) \in RingSlot
  BY <1>2, SizeIs DEF After, RingSlot
<1>4. RingTypeOK /\ RingTypeOK'
  BY <1>1, <1>2, <1>3 DEF RingInv, RingTypeOK
<1>5. Start' = Start /\ Waiting' = Waiting
  BY <1>1 DEF Start, Waiting, Filled, After
<1>6. Waiting \in 0..(RingSize - 1) /\ \A k \in 1..Waiting : SlotOf(Start, k) # rxTail
  BY <1>1, <1>2, SizeIs DEF Waiting, Start, Filled, After, SlotOf
<1>7. \A k \in 1..Waiting : SlotOf(Start, k) \in RingSlot
  BY <1>4, <1>6, StartIs, SizeIs
<1>8. \A k \in 1..Waiting : rxRing'[SlotOf(Start', k)] = rxRing[SlotOf(Start, k)]
  BY <1>1, <1>2, <1>5, <1>6, <1>7
<1>9. Untaken' = Untaken
  BY <1>4, <1>5, <1>8, SameUntaken
<1> QED
  BY <1>1, <1>4, <1>9 DEF RingInv

LEMMA FedKeeps ==
    ASSUME RingInv, ByteFed
    PROVE  /\ RingInv' /\ Untaken' = Untaken /\ taken' = taken /\ taken \in RingByte
           /\ rxStep = "feed" /\ rxStep' = "idle"
<1>1. /\ rxStep = "feed" /\ rxStep' = "idle" /\ taken' = taken
      /\ rxHead' = rxHead /\ rxTail' = rxTail /\ rxRing' = rxRing
  BY DEF ByteFed
<1>2. Untaken' = Untaken
  BY <1>1 DEF Untaken, From, Filled
<1> QED
  BY <1>1, <1>2 DEF RingInv, RingTypeOK

LEMMA ClearEmpties ==
    ASSUME RingInv, ClearTail \/ ClearHead
    PROVE  /\ RingInv' /\ Untaken' = <<>> /\ taken' = taken
           /\ ClearTail => rxStep = "idle" /\ rxStep' = "clearing"
           /\ ClearHead => rxStep = "clearing" /\ rxStep' = "idle" /\ Untaken = <<>>
<1>1. /\ 0 \in RingSlot /\ <<>> \in Seq(RingByte)
      /\ rxRing \in [RingSlot -> RingByte \cup {Gone}]
  BY SizeIs DEF RingSlot, RingInv, RingTypeOK
<1>2. CASE ClearTail
  <2>1. /\ rxStep = "idle" /\ rxStep' = "clearing" /\ rxTail' = 0
        /\ rxRing' = rxRing /\ rxHead' = rxHead /\ taken' = taken
    BY <1>2 DEF ClearTail
  <2>2. Untaken' = <<>>
    BY <2>1 DEF Untaken
  <2>3. ~ClearHead
    BY <2>1 DEF ClearHead
  <2> QED
    BY <1>1, <2>1, <2>2, <2>3 DEF RingInv, RingTypeOK
<1>3. CASE ClearHead
  <2>1. /\ rxStep = "clearing" /\ rxStep' = "idle" /\ rxTail' = rxTail /\ rxHead' = 0
        /\ rxRing' = [i \in RingSlot |-> Gone] /\ taken' = taken
    BY <1>3 DEF ClearHead
  <2>2. rxTail = 0 /\ Untaken = <<>>
    BY <2>1 DEF RingInv, Untaken
  <2>3. RingTypeOK'
    BY <1>1, <2>1, <2>2 DEF RingInv, RingTypeOK
  <2>4. Untaken' \in Seq(RingByte \cup {Gone}) /\ Len(Untaken') = 0
    <3>1. UntakenView'
      BY <2>3, ViewOfUntakenNext
    <3>2. Waiting' = 0
      BY <2>1, <2>2 DEF Waiting, Start, Filled
    <3> QED
      BY <3>1, <3>2 DEF UntakenView
  <2>5. Untaken' = <<>>
    BY <2>4, EmptySeq
  <2>6. ~ClearTail
    BY <2>1 DEF ClearTail
  <2> QED
    BY <1>1, <2>1, <2>2, <2>3, <2>5, <2>6 DEF RingInv
<1> QED
  BY <1>2, <1>3

LEMMA RingStarts == RingInit => RingInv /\ Untaken = <<>> /\ Unfed = <<>>
<1> SUFFICES ASSUME RingInit PROVE RingInv /\ Untaken = <<>> /\ Unfed = <<>>
  OBVIOUS
<1>1. /\ rxRing = [i \in RingSlot |-> Gone] /\ rxHead = 0 /\ rxTail = 0 /\ rxStep = "idle"
      /\ taken = Gone /\ 0 \in RingSlot
  BY SizeIs DEF RingInit, RingSlot
<1>2. RingTypeOK
  BY <1>1 DEF RingTypeOK
<1>3. Waiting = 0
  BY <1>1 DEF Waiting, Start, Filled
<1>4. Untaken = <<>>
  BY <1>2, <1>3, ViewOfUntaken, EmptySeq DEF UntakenView
<1> QED
  BY <1>1, <1>2, <1>4, EmptySeq DEF RingInv, Unfed

-----------------------------------------------------------------------------
(* The bytes of packets, and moving a byte along the way. *)
LEMMA EncodingIs ==
    ASSUME NEW p \in Packets
    PROVE  /\ p \in [type : ParsedType, bytes : Seq(Byte)] /\ p.type \in ParsedType
           /\ p.bytes \in Seq(Byte) /\ Len(p.bytes) \in Nat
           /\ Len(p.bytes) = HeaderLen(p.type) + PayloadLen(p.type, p.bytes)
           /\ Len(p.bytes) >= HeaderLen(p.type) /\ Len(p.bytes) <= Capacity
           /\ Encoding(p) \in Seq(Byte) /\ Len(Encoding(p)) = Len(p.bytes) + 1
           /\ Encoding(p)[1] = p.type
           /\ \A k \in 1..Len(p.bytes) : Encoding(p)[k + 1] = p.bytes[k]
<1>1. /\ p \in [type : ParsedType, bytes : Seq(Byte)]
      /\ Len(p.bytes) = HeaderLen(p.type) + PayloadLen(p.type, p.bytes)
      /\ Len(p.bytes) >= HeaderLen(p.type) /\ Len(p.bytes) <= Capacity
  BY ControllerPackets DEF WellFormed
<1>2. p.type \in ParsedType /\ p.bytes \in Seq(Byte) /\ Len(p.bytes) \in Nat
  BY <1>1, LenProperties
<1>3. p.type \in Byte
  BY <1>2, WordIs DEF ParsedType, EVENT, ACL, SCO, Byte
<1>4. <<p.type>> \in Seq(Byte) /\ Len(<<p.type>>) = 1 /\ <<p.type>>[1] = p.type
  BY <1>3
<1>5. /\ Encoding(p) \in Seq(Byte) /\ Len(Encoding(p)) = 1 + Len(p.bytes)
      /\ \A i \in 1..(1 + Len(p.bytes)) :
             Encoding(p)[i] = IF i <= 1 THEN p.type ELSE p.bytes[i - 1]
  BY <1>2, <1>4, ConcatProperties DEF Encoding
<1>6. 1 \in 1..(1 + Len(p.bytes)) /\ \A k \in 1..Len(p.bytes) : k + 1 \in 1..(1 + Len(p.bytes)) /\ ~(k + 1 <= 1) /\ (k + 1) - 1 = k
  BY <1>2
<1>7. Encoding(p)[1] = p.type /\ \A k \in 1..Len(p.bytes) : Encoding(p)[k + 1] = p.bytes[k]
  BY <1>5, <1>6
<1> QED
  BY <1>1, <1>2, <1>5, <1>7

(* What is on the way to the parser, in three parts, and where each of them lies. *)
Joined(a, u, w) == (a \o u) \o w
Spans(s, a, u, w) ==
    /\ Len(s) = Len(a) + Len(u) + Len(w)
    /\ \A k \in 1..Len(a) : s[k] = a[k]
    /\ \A k \in 1..Len(u) : s[Len(a) + k] = u[k]
    /\ \A k \in 1..Len(w) : s[Len(a) + Len(u) + k] = w[k]

LEMMA OnWay ==
    ASSUME NEW S, NEW a \in Seq(S), NEW u \in Seq(S), NEW w \in Seq(S)
    PROVE  Joined(a, u, w) \in Seq(S) /\ Spans(Joined(a, u, w), a, u, w)
<1>1. Len(a) \in Nat /\ Len(u) \in Nat /\ Len(w) \in Nat
  BY LenProperties
<1>2. /\ a \o u \in Seq(S) /\ Len(a \o u) = Len(a) + Len(u)
      /\ \A i \in 1..(Len(a) + Len(u)) : (a \o u)[i] = IF i <= Len(a) THEN a[i] ELSE u[i - Len(a)]
  BY ConcatProperties
<1>3. /\ (a \o u) \o w \in Seq(S) /\ Len((a \o u) \o w) = Len(a \o u) + Len(w)
      /\ \A i \in 1..(Len(a \o u) + Len(w)) :
             ((a \o u) \o w)[i] = IF i <= Len(a \o u) THEN (a \o u)[i] ELSE w[i - Len(a \o u)]
  BY <1>2, ConcatProperties
<1>4. Spans((a \o u) \o w, a, u, w)
  BY <1>1, <1>2, <1>3 DEF Spans
<1> QED
  BY <1>3, <1>4 DEF Joined

(* The first of w becomes the last of u. *)
Moved(u, w, v, x) == w # <<>> /\ v = Append(u, Head(w)) /\ x = Tail(w)

LEMMA MovesIn ==
    ASSUME NEW S, NEW a \in Seq(S), NEW u \in Seq(S), NEW w \in Seq(S),
           NEW v, NEW x, Moved(u, w, v, x)
    PROVE  Joined(a, v, x) = Joined(a, u, w)
<1> USE DEF Moved
<1> DEFINE s == Joined(a, u, w)
           t == Joined(a, v, x)
<1>1. /\ Head(w) \in S /\ Head(w) = w[1] /\ x \in Seq(S) /\ Len(x) = Len(w) - 1
      /\ \A i \in 1..Len(x) : x[i] = w[i + 1]
  BY HeadTailProperties
<1>2. /\ v \in Seq(S) /\ Len(v) = Len(u) + 1 /\ v[Len(u) + 1] = w[1]
      /\ \A i \in 1..Len(u) : v[i] = u[i]
  BY <1>1, AppendProperties
<1>3. Len(a) \in Nat /\ Len(u) \in Nat /\ Len(w) \in Nat /\ Len(w) >= 1
  BY LenProperties, EmptySeq
<1>4. /\ s \in Seq(S) /\ Len(s) = Len(a) + Len(u) + Len(w)
      /\ \A k \in 1..Len(a) : s[k] = a[k]
      /\ \A k \in 1..Len(u) : s[Len(a) + k] = u[k]
      /\ \A k \in 1..Len(w) : s[Len(a) + Len(u) + k] = w[k]
  <2>1. s \in Seq(S) /\ Spans(s, a, u, w)
    BY OnWay
  <2> QED
    BY <2>1 DEF Spans
<1>5. /\ t \in Seq(S) /\ Len(t) = Len(a) + Len(v) + Len(x)
      /\ \A k \in 1..Len(a) : t[k] = a[k]
      /\ \A k \in 1..Len(v) : t[Len(a) + k] = v[k]
      /\ \A k \in 1..Len(x) : t[Len(a) + Len(v) + k] = x[k]
  <2>1. v \in Seq(S) /\ x \in Seq(S)
    BY <1>1, <1>2
  <2>2. t \in Seq(S) /\ Spans(t, a, v, x)
    BY <2>1, OnWay
  <2> QED
    BY <2>2 DEF Spans
<1> HIDE DEF s, t
<1>6. ASSUME NEW i \in 1..Len(t) PROVE t[i] = s[i]
  <2>1. CASE i \in 1..Len(a)
    BY <1>4, <1>5, <2>1
  <2>2. CASE i \in (Len(a) + 1)..(Len(a) + Len(u))
    <3>1. i - Len(a) \in 1..Len(u) /\ i - Len(a) \in 1..Len(v) /\ i = Len(a) + (i - Len(a))
      BY <1>2, <1>3, <2>2
    <3>2. t[i] = v[i - Len(a)] /\ s[i] = u[i - Len(a)]
      BY <1>4, <1>5, <3>1
    <3> QED
      BY <1>2, <3>1, <3>2
  <2>3. CASE i = Len(a) + Len(u) + 1
    <3>1. Len(u) + 1 \in 1..Len(v) /\ 1 \in 1..Len(w) /\ i = Len(a) + (Len(u) + 1)
      BY <1>2, <1>3, <2>3
    <3>2. t[i] = v[Len(u) + 1] /\ s[i] = w[1]
      BY <1>4, <1>5, <2>3, <3>1
    <3> QED
      BY <1>2, <3>2
  <2>4. CASE i \in (Len(a) + Len(u) + 2)..Len(t)
    <3> DEFINE k == i - (Len(a) + Len(v))
    <3>1. k \in 1..Len(x) /\ k + 1 \in 1..Len(w)
          /\ i = Len(a) + Len(v) + k /\ i = Len(a) + Len(u) + (k + 1)
      BY <1>1, <1>2, <1>3, <1>5, <2>4
    <3> HIDE DEF k
    <3>2. t[i] = x[k] /\ s[i] = w[k + 1]
      BY <1>4, <1>5, <3>1
    <3> QED
      BY <1>1, <3>1, <3>2
  <2>5. Len(t) \in Nat /\ i \in Nat /\ i >= 1
    BY <1>1, <1>2, <1>3, <1>5
  <2>6. \A p, q, l, k \in Nat : k >= 1 /\ k <= l =>
            \/ k \in 1..p \/ k \in (p + 1)..(p + q)
            \/ k = p + q + 1 \/ k \in (p + q + 2)..l
    OBVIOUS
  <2>7. \/ i \in 1..Len(a) \/ i \in (Len(a) + 1)..(Len(a) + Len(u))
        \/ i = Len(a) + Len(u) + 1 \/ i \in (Len(a) + Len(u) + 2)..Len(t)
    BY <1>3, <2>5, <2>6
  <2> QED
    BY <2>1, <2>2, <2>3, <2>4, <2>7
<1>7. Len(t) = Len(s)
  BY <1>1, <1>2, <1>3, <1>4, <1>5
<1>8. t = s
  BY <1>4, <1>5, <1>6, <1>7, SeqEqual
<1> QED
  BY <1>8 DEF s, t

LEMMA HeadFirst ==
    ASSUME NEW S, NEW w \in Seq(S), w # <<>>
    PROVE  w = <<Head(w)>> \o Tail(w) /\ Head(w) \in S /\ Tail(w) \in Seq(S)
<1>1. Head(w) \in S /\ Tail(w) \in Seq(S) /\ Len(Tail(w)) = Len(w) - 1 /\ Len(w) \in Nat /\ Head(w) = w[1]
      /\ \A i \in 1..Len(Tail(w)) : Tail(w)[i] = w[i + 1]
  BY HeadTailProperties, LenProperties
<1>2. <<Head(w)>> \in Seq(S) /\ Len(<<Head(w)>>) = 1 /\ <<Head(w)>>[1] = Head(w)
  BY <1>1
<1> DEFINE v == <<Head(w)>> \o Tail(w)
<1>3. /\ v \in Seq(S) /\ Len(v) = 1 + Len(Tail(w))
      /\ \A i \in 1..(1 + Len(Tail(w))) : v[i] = IF i <= 1 THEN Head(w) ELSE Tail(w)[i - 1]
  BY <1>1, <1>2, ConcatProperties
<1> HIDE DEF v
<1>4. Len(v) = Len(w) /\ \A i \in 1..Len(v) : v[i] = w[i]
  BY <1>1, <1>3
<1>5. v = w
  BY <1>3, <1>4, SeqEqual
<1> QED
  BY <1>1, <1>5 DEF v

(* The bytes s are the packets ps. *)
Packed(s, ps) == \E end \in [DOMAIN ps -> 1..Len(s)] : Whole(s, ps, end)

LEMMA NothingPacked == Packed(<<>>, <<>>)
<1>1. DOMAIN <<>> = {} /\ Len(<<>>) = 0
  OBVIOUS
<1> DEFINE e == [i \in {} |-> 1]
<1>2. e \in [DOMAIN <<>> -> 1..Len(<<>>)]
  BY <1>1
<1>3. Whole(<<>>, <<>>, e)
  BY <1>1 DEF Whole, Begin
<1> QED
  BY <1>2, <1>3 DEF Packed

LEMMA PackedFirst ==
    ASSUME NEW s \in Seq(Byte), NEW ps \in Seq(Packets), Packed(s, ps)
    PROVE  /\ ps = <<>> <=> s = <<>>
           /\ ps # <<>> =>
                  /\ ps[1] \in Packets /\ Len(s) >= Len(Encoding(ps[1]))
                  /\ \A k \in 1..Len(Encoding(ps[1])) : s[k] = Encoding(ps[1])[k]
<1>1. PICK end \in [DOMAIN ps -> 1..Len(s)] : Whole(s, ps, end)
  BY DEF Packed
<1>2. Len(ps) \in Nat /\ DOMAIN ps = 1..Len(ps) /\ Len(s) \in Nat
  BY LenProperties
<1>3. CASE ps = <<>>
  <2>1. Len(ps) = 0
    BY <1>3
  <2>2. Len(s) = 0
    BY <1>1, <2>1 DEF Whole, Begin
  <2> QED
    BY <1>3, <2>2, EmptySeq
<1>4. CASE ps # <<>>
  <2>1. Len(ps) >= 1 /\ 1 \in DOMAIN ps
    BY <1>2, <1>4, EmptySeq
  <2>2. ps[1] \in Packets
    BY <1>2, <2>1, ElementOfSeq
  <2>3. /\ Encoding(ps[1]) \in Seq(Byte) /\ Len(Encoding(ps[1])) \in Nat /\ Len(Encoding(ps[1])) >= 1
        /\ DOMAIN Encoding(ps[1]) = 1..Len(Encoding(ps[1]))
    BY <2>2, EncodingIs, LenProperties
  <2>4. end[1] = Len(Encoding(ps[1])) /\ \A k \in 1..Len(Encoding(ps[1])) : s[k] = Encoding(ps[1])[k]
    <3>1. Begin(end, 1) = 0
      BY DEF Begin
    <3>2. /\ end[1] = 0 + Len(Encoding(ps[1]))
          /\ \A k \in 1..Len(Encoding(ps[1])) : s[0 + k] = Encoding(ps[1])[k]
      BY <1>1, <2>1, <2>3, <3>1 DEF Whole
    <3> QED
      BY <2>3, <3>2
  <2>5. end[1] \in 1..Len(s)
    BY <2>1
  <2>6. Len(s) >= Len(Encoding(ps[1])) /\ s # <<>>
    BY <1>2, <2>3, <2>4, <2>5
  <2> QED
    BY <1>4, <2>2, <2>4, <2>6
<1> QED
  BY <1>3, <1>4

LEMMA PackedAppend ==
    ASSUME NEW s \in Seq(Byte), NEW ps \in Seq(Packets), NEW p \in Packets, Packed(s, ps)
    PROVE  Packed(s \o Encoding(p), Append(ps, p))
<1>1. PICK end \in [DOMAIN ps -> 1..Len(s)] : Whole(s, ps, end)
  BY DEF Packed
<1> DEFINE n == Len(ps)
           l == Len(s)
           e == Encoding(p)
           t == s \o e
           qs == Append(ps, p)
           fin == [i \in 1..(n + 1) |-> IF i <= n THEN end[i] ELSE l + Len(e)]
<1>2. n \in Nat /\ DOMAIN ps = 1..n /\ l \in Nat
  BY LenProperties
<1>3. e \in Seq(Byte) /\ Len(e) \in Nat /\ Len(e) >= 1 /\ DOMAIN e = 1..Len(e)
  BY EncodingIs, LenProperties
<1>4. /\ Len(t) = l + Len(e)
      /\ \A k \in 1..l : t[k] = s[k]
      /\ \A k \in 1..Len(e) : t[l + k] = e[k]
  <2>1. /\ Len(t) = l + Len(e)
        /\ \A i \in 1..(l + Len(e)) : t[i] = IF i <= l THEN s[i] ELSE e[i - l]
    BY <1>3, ConcatProperties
  <2> HIDE DEF t, l, e
  <2> QED
    BY <1>2, <1>3, <2>1
<1>5. /\ qs \in Seq(Packets) /\ Len(qs) = n + 1 /\ qs[n + 1] = p /\ DOMAIN qs = 1..(n + 1)
      /\ \A i \in 1..n : qs[i] = ps[i]
  BY AppendProperties, LenProperties
<1>6. /\ \A i \in 1..n : end[i] \in 1..l
      /\ Begin(end, n + 1) = l
      /\ \A i, j \in 1..n : i < j => end[i] < end[j]
  BY <1>1, <1>2 DEF Whole
<1>7. \A i \in 1..n : /\ end[i] = Begin(end, i) + Len(Encoding(ps[i]))
                      /\ \A k \in DOMAIN Encoding(ps[i]) :
                             s[Begin(end, i) + k] = Encoding(ps[i])[k]
  BY <1>1, <1>2 DEF Whole
<1>8. \A i \in 1..n : /\ Begin(end, i) \in Nat /\ DOMAIN Encoding(ps[i]) = 1..Len(Encoding(ps[i]))
                      /\ Len(Encoding(ps[i])) \in Nat
  <2> SUFFICES ASSUME NEW i \in 1..n
               PROVE  /\ Begin(end, i) \in Nat /\ DOMAIN Encoding(ps[i]) = 1..Len(Encoding(ps[i]))
                      /\ Len(Encoding(ps[i])) \in Nat
    OBVIOUS
  <2>1. ps[i] \in Packets
    BY ElementOfSeq
  <2>2. Encoding(ps[i]) \in Seq(Byte)
    BY <2>1, EncodingIs
  <2>3. Begin(end, i) \in Nat
    BY <1>2, <1>6 DEF Begin
  <2> QED
    BY <2>2, <2>3, LenProperties
<1> HIDE DEF n, l, e, t, qs
<1>9. \A i \in 1..(n + 1) : fin[i] = IF i <= n THEN end[i] ELSE l + Len(e)
  OBVIOUS
<1>10. fin \in [1..(n + 1) -> 1..Len(t)]
  BY <1>2, <1>3, <1>4, <1>6
<1> HIDE DEF fin
<1>11. \A i \in 1..(n + 1) : Begin(fin, i) = Begin(end, i)
  BY <1>2, <1>9 DEF Begin
<1>12. Begin(fin, n + 2) = Len(t)
  BY <1>2, <1>4, <1>9 DEF Begin
<1>13. \A i, j \in 1..(n + 1) : i < j => fin[i] < fin[j]
  <2> SUFFICES ASSUME NEW i \in 1..(n + 1), NEW j \in 1..(n + 1), i < j
               PROVE  fin[i] < fin[j]
    OBVIOUS
  <2>1. i \in 1..n /\ fin[i] = end[i] /\ end[i] \in 1..l
    BY <1>2, <1>6, <1>9
  <2>2. CASE j \in 1..n
    BY <1>2, <1>6, <1>9, <2>1, <2>2
  <2>3. CASE j = n + 1
    <3>1. fin[j] = l + Len(e)
      BY <1>2, <1>9, <2>3
    <3> QED
      BY <1>2, <1>3, <2>1, <3>1
  <2> QED
    BY <1>2, <2>2, <2>3
<1>14. ASSUME NEW i \in 1..(n + 1)
       PROVE  /\ fin[i] = Begin(fin, i) + Len(Encoding(qs[i]))
              /\ \A k \in DOMAIN Encoding(qs[i]) : t[Begin(fin, i) + k] = Encoding(qs[i])[k]
  <2>1. CASE i \in 1..n
    <3>1. qs[i] = ps[i] /\ fin[i] = end[i] /\ Begin(fin, i) = Begin(end, i)
      BY <1>2, <1>5, <1>9, <1>11, <2>1
    <3>2. \A k \in 1..Len(Encoding(ps[i])) : Begin(end, i) + k \in 1..l
      <4>1. end[i] \in 1..l
        BY <1>6, <2>1
      <4>2. end[i] = Begin(end, i) + Len(Encoding(ps[i]))
        BY <1>7, <2>1
      <4>3. Begin(end, i) \in Nat /\ Len(Encoding(ps[i])) \in Nat
        BY <1>8, <2>1
      <4> QED
        BY <1>2, <4>1, <4>2, <4>3
    <3> QED
      BY <1>4, <1>7, <1>8, <2>1, <3>1, <3>2
  <2>2. CASE i = n + 1
    <3>1. qs[i] = p /\ fin[i] = l + Len(e) /\ Begin(fin, i) = l /\ Encoding(qs[i]) = e
      BY <1>2, <1>5, <1>6, <1>9, <1>11, <2>2 DEF e
    <3> QED
      BY <1>3, <1>4, <3>1
  <2> QED
    BY <1>2, <2>1, <2>2
<1>15. Whole(t, qs, fin)
  <2>1. Begin(fin, Len(qs) + 1) = Len(t)
    BY <1>2, <1>5, <1>12
  <2> QED
    BY <1>5, <1>13, <1>14, <2>1 DEF Whole
<1>16. Packed(t, qs)
  BY <1>5, <1>10, <1>15 DEF Packed
<1> QED
  BY <1>16 DEF t, qs, e

LEMMA PackedDrop ==
    ASSUME NEW s \in Seq(Byte), NEW ps \in Seq(Packets), ps # <<>>, Packed(s, ps),
           NEW t \in Seq(Byte), Len(t) = Len(s) - Len(Encoding(ps[1])),
           \A k \in 1..Len(t) : t[k] = s[Len(Encoding(ps[1])) + k]
    PROVE  Packed(t, Tail(ps))
<1>1. PICK end \in [DOMAIN ps -> 1..Len(s)] : Whole(s, ps, end)
  BY DEF Packed
<1> DEFINE n == Len(ps)
           m == Len(Encoding(ps[1]))
           qs == Tail(ps)
           fin == [i \in 1..(n - 1) |-> end[i + 1] - m]
<1>2. n \in Nat /\ n >= 1 /\ DOMAIN ps = 1..n /\ Len(s) \in Nat
  BY LenProperties, EmptySeq
<1>3. \A i \in 1..n : /\ Encoding(ps[i]) \in Seq(Byte) /\ Len(Encoding(ps[i])) \in Nat
                      /\ Len(Encoding(ps[i])) >= 1
                      /\ DOMAIN Encoding(ps[i]) = 1..Len(Encoding(ps[i]))
  <2> SUFFICES ASSUME NEW i \in 1..n
               PROVE  /\ Encoding(ps[i]) \in Seq(Byte) /\ Len(Encoding(ps[i])) \in Nat
                      /\ Len(Encoding(ps[i])) >= 1
                      /\ DOMAIN Encoding(ps[i]) = 1..Len(Encoding(ps[i]))
    OBVIOUS
  <2>1. ps[i] \in Packets
    BY ElementOfSeq
  <2> QED
    BY <2>1, EncodingIs, LenProperties
<1>4. m \in Nat /\ m >= 1
  BY <1>2, <1>3
<1>5. /\ qs \in Seq(Packets) /\ Len(qs) = n - 1 /\ \A i \in 1..(n - 1) : qs[i] = ps[i + 1]
      /\ DOMAIN qs = 1..(n - 1)
  BY HeadTailProperties, LenProperties
<1>6. /\ \A i \in 1..n : end[i] \in 1..Len(s)
      /\ Begin(end, n + 1) = Len(s)
      /\ \A i, j \in 1..n : i < j => end[i] < end[j]
  BY <1>1, <1>2 DEF Whole
<1>7. \A i \in 1..n : /\ end[i] = Begin(end, i) + Len(Encoding(ps[i]))
                      /\ \A k \in DOMAIN Encoding(ps[i]) :
                             s[Begin(end, i) + k] = Encoding(ps[i])[k]
  BY <1>1, <1>2 DEF Whole
<1>8. end[1] = m
  BY <1>2, <1>4, <1>7 DEF Begin
<1>9. Len(t) = Len(s) - m /\ Len(t) \in Nat /\ \A k \in 1..Len(t) : t[k] = s[m + k]
  BY LenProperties
<1> HIDE DEF n, m, qs
<1>10. \A i \in 1..(n - 1) : fin[i] = end[i + 1] - m /\ i + 1 \in 1..n /\ 1 \in 1..n
  BY <1>2
<1>11. \A i \in 1..(n - 1) : end[i + 1] > m /\ end[i + 1] \in 1..Len(s)
  BY <1>2, <1>6, <1>8, <1>10
<1>12. fin \in [1..(n - 1) -> 1..Len(t)]
  BY <1>2, <1>4, <1>9, <1>11
<1> HIDE DEF fin
<1>13. \A i \in 1..n : Begin(fin, i) = Begin(end, i + 1) - m
  BY <1>2, <1>4, <1>8, <1>10 DEF Begin
<1>14. Begin(fin, n) = Len(t)
  <2>1. n \in 1..n
    BY <1>2
  <2>2. Begin(fin, n) = Begin(end, n + 1) - m
    BY <1>13, <2>1
  <2> QED
    BY <1>6, <1>9, <2>2
<1>15. \A i, j \in 1..(n - 1) : i < j => fin[i] < fin[j]
  BY <1>2, <1>4, <1>6, <1>10, <1>11
<1>16. ASSUME NEW i \in 1..(n - 1)
       PROVE  /\ fin[i] = Begin(fin, i) + Len(Encoding(qs[i]))
              /\ \A k \in DOMAIN Encoding(qs[i]) : t[Begin(fin, i) + k] = Encoding(qs[i])[k]
  <2>1. /\ qs[i] = ps[i + 1] /\ i + 1 \in 1..n /\ fin[i] = end[i + 1] - m
        /\ Begin(fin, i) = Begin(end, i + 1) - m
    BY <1>2, <1>5, <1>10, <1>13
  <2> DEFINE e == Encoding(ps[i + 1])
             c == Begin(end, i + 1)
  <2>2. c \in Nat /\ c >= m
    BY <1>2, <1>4, <1>6, <1>8, <2>1 DEF Begin
  <2>3. /\ end[i + 1] = c + Len(e) /\ Len(e) \in Nat /\ DOMAIN e = 1..Len(e)
        /\ \A k \in 1..Len(e) : s[c + k] = e[k]
    BY <1>3, <1>7, <2>1
  <2>4. end[i + 1] \in 1..Len(s)
    BY <1>6, <2>1
  <2> HIDE DEF e, c
  <2>5. \A k \in 1..Len(e) : (c - m) + k \in 1..Len(t) /\ m + ((c - m) + k) = c + k
    BY <1>2, <1>4, <1>9, <2>2, <2>3, <2>4
  <2>6. \A k \in 1..Len(e) : t[(c - m) + k] = e[k]
    BY <1>9, <2>3, <2>5
  <2>7. fin[i] = (c - m) + Len(e)
    BY <1>4, <2>1, <2>2, <2>3
  <2> QED
    BY <2>1, <2>3, <2>6, <2>7 DEF e, c
<1>17. Whole(t, qs, fin)
  <2>1. Begin(fin, Len(qs) + 1) = Len(t)
    BY <1>2, <1>5, <1>14
  <2> QED
    BY <1>5, <1>15, <1>16, <2>1 DEF Whole
<1>18. Packed(t, qs)
  BY <1>5, <1>12, <1>17 DEF Packed
<1> QED
  BY <1>18 DEF qs

-----------------------------------------------------------------------------
(* The whole way.  In step the parser has begun with the first packet that  *)
(* is due and not yet ended it.                                             *)
HeldIsPart ==
    inStep => /\ state # "ERROR_RECOVERY"
              /\ state # "WAIT_TYPE" => Len(Held) < Len(Encoding(expected[1]))

WayTypeOK ==
    /\ wire \in Seq(Byte) /\ inStep \in BOOLEAN
    /\ expected \in Seq(Packets) /\ Len(expected) <= MaxOnWay
    /\ ~inStep => expected = <<>>

UInv == RingInv /\ ParserInv /\ WayTypeOK /\ StreamWhole /\ HeldIsPart

LEMMA AppendBehind ==
    ASSUME NEW S, NEW x \in S, NEW u \in Seq(S), NEW b \in S
    PROVE  <<x>> \o Append(u, b) = Append(<<x>> \o u, b)
<1>1. <<x>> \in Seq(S) /\ <<b>> \in Seq(S) /\ <<x>> \o u \in Seq(S)
  BY ConcatProperties
<1>2. Append(u, b) = u \o <<b>> /\ Append(<<x>> \o u, b) = (<<x>> \o u) \o <<b>>
  BY <1>1, AppendIsConcat
<1>3. (<<x>> \o u) \o <<b>> = <<x>> \o (u \o <<b>>)
  BY <1>1, ConcatAssociative
<1> QED
  BY <1>2, <1>3

LEMMA TypesAreBytes == ParsedType \subseteq Byte /\ RingByte = Byte
BY WordIs, ControllerPackets DEF ParsedType, EVENT, ACL, SCO, Byte

LEMMA BehindType ==
    ASSUME NEW t \in Byte, NEW u \in Seq(Byte)
    PROVE  /\ <<t>> \o u \in Seq(Byte) /\ Len(<<t>> \o u) = Len(u) + 1
           /\ (<<t>> \o u)[1] = t
           /\ \A k \in 1..Len(u) : (<<t>> \o u)[k + 1] = u[k]
<1>1. <<t>> \in Seq(Byte) /\ Len(<<t>>) = 1 /\ <<t>>[1] = t /\ Len(u) \in Nat
  BY LenProperties
<1>2. /\ <<t>> \o u \in Seq(Byte) /\ Len(<<t>> \o u) = 1 + Len(u)
      /\ \A i \in 1..(1 + Len(u)) : (<<t>> \o u)[i] = IF i <= 1 THEN t ELSE u[i - 1]
  BY <1>1, ConcatProperties
<1>3. 1 \in 1..(1 + Len(u)) /\ \A k \in 1..Len(u) : k + 1 \in 1..(1 + Len(u)) /\ ~(k + 1 <= 1) /\ (k + 1) - 1 = k
  BY <1>1
<1> QED
  BY <1>1, <1>2, <1>3

LEMMA HeldIs ==
    ASSUME ParserInv
    PROVE  /\ Held \in Seq(Byte) /\ Len(Held) \in Nat
           /\ state \in {"WAIT_TYPE", "ERROR_RECOVERY"} => Held = <<>>
           /\ state = "READ_HEADER" =>
                  /\ Held = <<type>> \o header /\ Len(Held) = Len(header) + 1 /\ Held[1] = type
                  /\ \A k \in 1..Len(header) : Held[k + 1] = header[k]
           /\ state = "READ_PAYLOAD" =>
                  /\ Held = <<type>> \o packet /\ Len(Held) = Len(packet) + 1 /\ Held[1] = type
                  /\ \A k \in 1..Len(packet) : Held[k + 1] = packet[k]
<1>1. CASE state \in {"WAIT_TYPE", "ERROR_RECOVERY"}
  <2>1. Held = <<>>
    BY <1>1 DEF Held
  <2> QED
    BY <1>1, <2>1, EmptySeq
<1>2. CASE state = "READ_HEADER"
  <2>1. type \in Byte /\ header \in Seq(Byte) /\ Held = <<type>> \o header
    BY <1>2, ParserTypes, TypesAreBytes DEF Held
  <2> QED
    BY <1>2, <2>1, BehindType, LenProperties
<1>3. CASE state = "READ_PAYLOAD"
  <2>1. type \in Byte /\ packet \in Seq(Byte) /\ Held = <<type>> \o packet
    BY <1>3, ParserTypes, TypesAreBytes DEF Held
  <2> QED
    BY <1>3, <2>1, BehindType, LenProperties
<1> QED
  BY <1>1, <1>2, <1>3, ParserTypes

HeldAreBytes == Held \in Seq(Byte)

LEMMA HeldNow == ParserInv => HeldAreBytes
BY HeldIs DEF HeldAreBytes

LEMMA HeldNext == ParserInv' => HeldAreBytes'
BY HeldNow, PTL

LEMMA WayIs ==
    ASSUME UInv
    PROVE  /\ Held \in Seq(Byte) /\ Untaken \in Seq(Byte) /\ Unfed \in Seq(Byte) /\ wire \in Seq(Byte)
           /\ Stream = (Held \o Unfed) \o wire /\ Stream \in Seq(Byte)
           /\ inStep => Packed(Stream, expected)
           /\ rxStep \in {"took", "feed"} => taken \in Byte /\ Unfed = <<taken>> \o Untaken
           /\ rxStep \notin {"took", "feed"} => Unfed = Untaken
<1>1. Held \in Seq(Byte) /\ Untaken \in Seq(Byte) /\ wire \in Seq(Byte)
  BY HeldIs, TypesAreBytes DEF UInv, RingInv, WayTypeOK
<1>2. /\ rxStep \in {"took", "feed"} => taken \in Byte /\ Unfed = <<taken>> \o Untaken
      /\ rxStep \notin {"took", "feed"} => Unfed = Untaken
  BY TypesAreBytes DEF UInv, RingInv, Unfed
<1>3. Unfed \in Seq(Byte)
  BY <1>1, <1>2, BehindType
<1>4. Stream = (Held \o Unfed) \o wire
  BY DEF Stream
<1>5. Stream \in Seq(Byte)
  BY <1>1, <1>3, OnWay DEF Stream, Joined
<1>6. inStep => Packed(Stream, expected)
  BY DEF UInv, StreamWhole, Packed
<1> QED
  BY <1>1, <1>2, <1>3, <1>4, <1>5, <1>6

(* The next byte for the parser is the next one of the first packet due. *)
LEMMA NextIsDue ==
    ASSUME UInv, inStep, ByteFed
    PROVE  /\ expected # <<>> /\ expected[1] \in Packets /\ taken \in Byte
           /\ Len(Held) < Len(Encoding(expected[1]))
           /\ \A k \in 1..Len(Held) : Held[k] = Encoding(expected[1])[k]
           /\ taken = Encoding(expected[1])[Len(Held) + 1]
<1>1. rxStep = "feed" /\ Unfed = <<taken>> \o Untaken /\ taken \in Byte
  BY WayIs DEF ByteFed
<1>2. Len(Unfed) = Len(Untaken) + 1 /\ Unfed[1] = taken /\ Len(Untaken) \in Nat
  BY <1>1, WayIs, BehindType, LenProperties
<1>3. Len(Held) \in Nat /\ Len(wire) \in Nat
  BY WayIs, LenProperties
<1>4. /\ Len(Stream) = Len(Held) + Len(Unfed) + Len(wire)
      /\ \A k \in 1..Len(Held) : Stream[k] = Held[k]
      /\ \A k \in 1..Len(Unfed) : Stream[Len(Held) + k] = Unfed[k]
  <2>1. Held \in Seq(Byte) /\ Unfed \in Seq(Byte) /\ wire \in Seq(Byte)
    BY WayIs
  <2>2. Spans(Joined(Held, Unfed, wire), Held, Unfed, wire)
    BY <2>1, OnWay
  <2>3. Stream = Joined(Held, Unfed, wire)
    BY DEF Stream, Joined
  <2>4. Spans(Stream, Held, Unfed, wire)
    BY <2>2, <2>3
  <2> QED
    BY <2>4 DEF Spans
<1>5. Stream # <<>>
  BY <1>2, <1>3, <1>4
<1>6. expected \in Seq(Packets)
  BY DEF UInv, WayTypeOK
<1>7. /\ expected # <<>> /\ expected[1] \in Packets
      /\ Len(Stream) >= Len(Encoding(expected[1]))
      /\ \A k \in 1..Len(Encoding(expected[1])) : Stream[k] = Encoding(expected[1])[k]
  BY <1>5, <1>6, WayIs, PackedFirst
<1>8. Len(Encoding(expected[1])) \in Nat /\ Len(Encoding(expected[1])) >= 1
  BY <1>7, EncodingIs
<1>9. Len(Held) < Len(Encoding(expected[1]))
  <2>1. CASE state = "WAIT_TYPE"
    <3>1. Len(Held) = 0
      BY <2>1, HeldIs DEF UInv
    <3> QED
      BY <1>8, <3>1
  <2>2. CASE state # "WAIT_TYPE"
    BY <2>2 DEF UInv, HeldIsPart
  <2> QED
    BY <2>1, <2>2
<1>10. \A k \in 1..Len(Held) : Held[k] = Encoding(expected[1])[k]
  BY <1>3, <1>4, <1>7, <1>8, <1>9
<1>11. taken = Encoding(expected[1])[Len(Held) + 1]
  <2>1. 1 \in 1..Len(Unfed) /\ Len(Held) + 1 \in 1..Len(Encoding(expected[1]))
    BY <1>2, <1>3, <1>8, <1>9
  <2> QED
    BY <1>2, <1>4, <1>7, <2>1
<1> QED
  BY <1>1, <1>7, <1>9, <1>10, <1>11

(* In step the byte begins or continues the first packet due, or ends it,   *)
(* and then that packet is given.                                          *)
Continues(b, p) ==
    /\ state' \in {"READ_HEADER", "READ_PAYLOAD"}
    /\ Held' = Append(Held, b) /\ Len(Held) + 1 < Len(Encoding(p))

Ends(p) ==
    /\ state # "WAIT_TYPE" /\ state' = "WAIT_TYPE" /\ Held' = <<>>
    /\ Len(Held) + 1 = Len(Encoding(p)) /\ delivered' = p

LEMMA FeedFirst ==
    ASSUME ParserInv, NEW p \in Packets, NEW b \in Byte, WaitType(b), b = Encoding(p)[Len(Held) + 1]
    PROVE  Continues(b, p)
<1>1. state = "WAIT_TYPE" /\ Held = <<>> /\ Len(Held) = 0
  BY HeldIs DEF WaitType
<1>2. b \in ParsedType /\ Len(p.bytes) >= 1 /\ Len(p.bytes) \in Nat
  <2>1. HeaderLen(p.type) \in 2..4
    BY EncodingIs, HeaderLens
  <2> QED
    BY <1>1, <2>1, EncodingIs
<1>3. state' = "READ_HEADER" /\ type' = b /\ header' = <<>>
  BY <1>2 DEF WaitType, StartHeader
<1>4. Held' = <<b>> \o <<>>
  BY <1>3 DEF Held
<1>5. <<b>> \o <<>> = Append(<<>>, b)
  OBVIOUS
<1>6. Len(Encoding(p)) = Len(p.bytes) + 1
  BY EncodingIs
<1> QED
  BY <1>1, <1>2, <1>3, <1>4, <1>5, <1>6 DEF Continues

LEMMA GivesIt ==
    ASSUME NEW p \in Packets, NEW h \in Seq(Byte), type = p.type, Callback(h),
           Len(h) = Len(p.bytes), \A k \in 1..Len(h) : h[k] = p.bytes[k]
    PROVE  state' = "WAIT_TYPE" /\ Held' = <<>> /\ delivered' = p
<1>1. p \in [type : ParsedType, bytes : Seq(Byte)] /\ p.bytes \in Seq(Byte)
  BY EncodingIs
<1>2. h = p.bytes
  BY <1>1, SeqEqual
<1>3. delivered' = [type |-> type, bytes |-> h] /\ state' = "WAIT_TYPE"
  BY DEF Callback, ResetParser
<1>4. delivered' = p
  BY <1>1, <1>2, <1>3
<1>5. Held' = <<>>
  BY <1>3 DEF Held
<1> QED
  BY <1>3, <1>4, <1>5

LEMMA FeedHeader ==
    ASSUME ParserInv, NEW p \in Packets, NEW b \in Byte, ReadHeader(b),
           Len(Held) < Len(Encoding(p)),
           \A k \in 1..Len(Held) : Held[k] = Encoding(p)[k],
           b = Encoding(p)[Len(Held) + 1]
    PROVE  Continues(b, p) \/ Ends(p)
<1> DEFINE h == Append(header, b)
           t == type
<1>1. /\ state = "READ_HEADER" /\ t \in ParsedType /\ HeaderLen(t) \in 2..4
      /\ header \in Seq(Byte) /\ Len(header) \in Nat /\ Len(header) < HeaderLen(t)
  BY ParserTypes DEF ReadHeader
<1>2. /\ Held = <<t>> \o header /\ Len(Held) = Len(header) + 1 /\ Held[1] = t
      /\ \A k \in 1..Len(header) : Held[k + 1] = header[k]
  BY <1>1, HeldIs
<1>3. /\ h \in Seq(Byte) /\ Len(h) = Len(header) + 1 /\ h[Len(header) + 1] = b
      /\ \A k \in 1..Len(header) : h[k] = header[k]
  BY <1>1, AppendProperties
<1>4. /\ Len(Encoding(p)) = Len(p.bytes) + 1 /\ Len(p.bytes) \in Nat
      /\ Encoding(p)[1] = p.type /\ \A k \in 1..Len(p.bytes) : Encoding(p)[k + 1] = p.bytes[k]
      /\ Len(p.bytes) = HeaderLen(p.type) + PayloadLen(p.type, p.bytes)
      /\ Len(p.bytes) >= HeaderLen(p.type) /\ Len(p.bytes) <= Capacity
  BY EncodingIs
<1>5. \/ /\ Len(h) < HeaderLen(type)
         /\ header' = h
         /\ UNCHANGED <<state, type, packet, packetLen>> /\ GiveNothing
      \/ Len(h) = HeaderLen(type) /\ BeginPayload(h)
  BY DEF ReadHeader
<1>6. <<t>> \o h = Append(Held, b)
  <2>1. t \in Byte
    BY <1>1, TypesAreBytes
  <2> QED
    BY <1>1, <1>2, <2>1, AppendBehind
<1> HIDE DEF h
<1>7. t = p.type
  <2>1. 1 \in 1..Len(Held)
    BY <1>1, <1>2
  <2> QED
    BY <1>2, <1>4, <2>1
<1>8. Len(h) <= Len(p.bytes) /\ Len(h) \in Nat
  BY <1>1, <1>2, <1>3, <1>4
<1>9. \A k \in 1..Len(h) : h[k] = p.bytes[k]
  <2> SUFFICES ASSUME NEW k \in 1..Len(h) PROVE h[k] = p.bytes[k]
    OBVIOUS
  <2>1. p.bytes[k] = Encoding(p)[k + 1]
    BY <1>4, <1>8
  <2>2. CASE k \in 1..Len(header)
    <3>1. k + 1 \in 1..Len(Held) /\ Held[k + 1] = header[k] /\ h[k] = header[k]
      BY <1>1, <1>2, <1>3, <2>2
    <3> QED
      BY <2>1, <3>1
  <2>3. CASE k = Len(header) + 1
    BY <1>2, <1>3, <2>1, <2>3
  <2> QED
    BY <1>1, <1>3, <2>2, <2>3
<1>10. CASE /\ Len(h) < HeaderLen(type)
            /\ header' = h
            /\ UNCHANGED <<state, type, packet, packetLen>> /\ GiveNothing
  <2>1. Held' = <<t>> \o h /\ state' = "READ_HEADER"
    BY <1>1, <1>10 DEF Held
  <2>2. Len(Held) + 1 < Len(Encoding(p))
    BY <1>1, <1>2, <1>3, <1>4, <1>7, <1>10
  <2> QED
    BY <1>6, <2>1, <2>2 DEF Continues
<1>11. CASE Len(h) = HeaderLen(type) /\ BeginPayload(h)
  <2> DEFINE said == PayloadLen(type, h)
             n == (Len(h) + said) % (Base * Base)
  <2>1. \/ ~Fits(n) /\ Discard
        \/ Fits(n) /\ said = 0 /\ NoPayload(h)
        \/ /\ Fits(n) /\ said # 0
           /\ state' = "READ_PAYLOAD"
           /\ header' = h /\ packet' = h /\ packetLen' = n
           /\ UNCHANGED type /\ GiveNothing
    BY <1>11 DEF BeginPayload
  <2>2. said = PayloadLen(p.type, p.bytes)
    <3>1. \A i \in 1..HeaderLen(t) : h[i] = p.bytes[i]
      BY <1>9, <1>11
    <3>2. PayloadLen(t, h) = PayloadLen(t, p.bytes)
      BY <1>1, <3>1, PayloadSame
    <3> QED
      BY <1>7, <3>2
  <2>3. said \in 0..(Word - 1)
    BY <1>1, <1>3, <1>11, PayloadLens
  <2> HIDE DEF said
  <2>4. Len(h) + said = Len(p.bytes)
    BY <1>4, <1>7, <1>11, <2>2
  <2>5. n = Len(p.bytes)
    <3>1. /\ Len(p.bytes) \in Nat /\ Len(p.bytes) < Word
           /\ Word \in Nat /\ Word >= 1 /\ Len(p.bytes) < Word + Word
      BY <1>4, WordIs
    <3>2. Len(p.bytes) % Word = Len(p.bytes)
      BY <3>1, Wraps
    <3> QED
      BY <2>4, <3>2 DEF Word
  <2> HIDE DEF n
  <2>6. Fits(n)
    BY <1>4, <2>5 DEF Fits
  <2>7. CASE said = 0
    <3>1. Callback(h) /\ Len(h) = Len(p.bytes)
      BY <1>8, <2>1, <2>4, <2>6, <2>7 DEF NoPayload
    <3>2. state' = "WAIT_TYPE" /\ Held' = <<>> /\ delivered' = p
      BY <1>3, <1>7, <1>9, <3>1, GivesIt
    <3>3. Len(Held) + 1 = Len(Encoding(p))
      BY <1>2, <1>3, <1>4, <3>1
    <3> QED
      BY <1>1, <3>2, <3>3 DEF Ends
  <2>8. CASE said # 0
    <3>1. state' = "READ_PAYLOAD" /\ packet' = h /\ type' = t
      BY <2>1, <2>6, <2>8
    <3>2. Held' = <<t>> \o h
      BY <3>1 DEF Held
    <3>3. Len(Held) + 1 < Len(Encoding(p))
      BY <1>1, <1>2, <1>3, <1>4, <2>3, <2>4, <2>8
    <3> QED
      BY <1>6, <3>1, <3>2, <3>3 DEF Continues
  <2> QED
    BY <2>7, <2>8
<1> QED
  BY <1>5, <1>10, <1>11

LEMMA FeedPayload ==
    ASSUME ParserInv, NEW p \in Packets, NEW b \in Byte, ReadPayload(b),
           Len(Held) < Len(Encoding(p)),
           \A k \in 1..Len(Held) : Held[k] = Encoding(p)[k],
           b = Encoding(p)[Len(Held) + 1]
    PROVE  Continues(b, p) \/ Ends(p)
<1> DEFINE h == Append(packet, b)
           t == type
<1>1. /\ state = "READ_PAYLOAD" /\ t \in ParsedType /\ HeaderLen(t) \in 2..4
      /\ packet \in Seq(Byte) /\ Len(packet) \in HeaderLen(t)..Capacity
      /\ packetLen = SaidLen(t, packet)
  BY ParserTypes DEF ReadPayload
<1>2. /\ Held = <<t>> \o packet /\ Len(Held) = Len(packet) + 1 /\ Held[1] = t
      /\ \A k \in 1..Len(packet) : Held[k + 1] = packet[k]
  BY <1>1, HeldIs
<1>3. /\ h \in Seq(Byte) /\ Len(h) = Len(packet) + 1 /\ h[Len(packet) + 1] = b
      /\ \A k \in 1..Len(packet) : h[k] = packet[k]
  BY <1>1, AppendProperties
<1>4. /\ Len(Encoding(p)) = Len(p.bytes) + 1 /\ Len(p.bytes) \in Nat
      /\ Encoding(p)[1] = p.type /\ \A k \in 1..Len(p.bytes) : Encoding(p)[k + 1] = p.bytes[k]
      /\ Len(p.bytes) = HeaderLen(p.type) + PayloadLen(p.type, p.bytes)
      /\ Len(p.bytes) >= HeaderLen(p.type) /\ Len(p.bytes) <= Capacity
  BY EncodingIs
<1>5. \/ StorageFull /\ Discard
      \/ ~StorageFull /\ Complete(h) /\ Callback(h)
      \/ /\ ~StorageFull /\ ~Complete(h) /\ packet' = h
         /\ UNCHANGED <<state, type, header, packetLen>> /\ GiveNothing
  BY DEF ReadPayload
<1>6. <<t>> \o h = Append(Held, b)
  <2>1. t \in Byte
    BY <1>1, TypesAreBytes
  <2> QED
    BY <1>1, <1>2, <2>1, AppendBehind
<1>7. Capacity \in Nat /\ Len(packet) \in Nat
  BY <1>1, WordIs
<1> HIDE DEF h
<1>8. t = p.type
  <2>1. 1 \in 1..Len(Held)
    BY <1>2, <1>7
  <2> QED
    BY <1>2, <1>4, <2>1
<1>9. Len(h) <= Len(p.bytes) /\ Len(h) \in Nat
  BY <1>2, <1>3, <1>4, <1>7
<1>10. \A k \in 1..Len(h) : h[k] = p.bytes[k]
  <2> SUFFICES ASSUME NEW k \in 1..Len(h) PROVE h[k] = p.bytes[k]
    OBVIOUS
  <2>1. p.bytes[k] = Encoding(p)[k + 1]
    BY <1>4, <1>9
  <2>2. CASE k \in 1..Len(packet)
    <3>1. k + 1 \in 1..Len(Held) /\ Held[k + 1] = packet[k] /\ h[k] = packet[k]
      BY <1>2, <1>3, <1>7, <2>2
    <3> QED
      BY <2>1, <3>1
  <2>3. CASE k = Len(packet) + 1
    BY <1>2, <1>3, <2>1, <2>3
  <2> QED
    BY <1>3, <1>7, <2>2, <2>3
<1>11. packetLen = Len(p.bytes)
  <2>1. \A i \in 1..HeaderLen(t) : packet[i] = p.bytes[i]
    <3> SUFFICES ASSUME NEW i \in 1..HeaderLen(t) PROVE packet[i] = p.bytes[i]
      OBVIOUS
    <3>1. i \in 1..Len(packet) /\ i \in 1..Len(h)
      BY <1>1, <1>3, <1>7
    <3> QED
      BY <1>3, <1>10, <3>1
  <2>2. PayloadLen(t, packet) = PayloadLen(t, p.bytes)
    BY <1>1, <2>1, PayloadSame
  <2>3. SaidLen(t, packet) = Len(p.bytes) % Word
    BY <1>4, <1>8, <2>2 DEF SaidLen
  <2>4. /\ Len(p.bytes) \in Nat /\ Len(p.bytes) < Word
         /\ Word \in Nat /\ Word >= 1 /\ Len(p.bytes) < Word + Word
    BY <1>4, WordIs
  <2>5. Len(p.bytes) % Word = Len(p.bytes)
    BY <2>4, Wraps
  <2> QED
    BY <1>1, <2>3, <2>5
<1>12. ~StorageFull
  BY <1>3, <1>4, <1>7, <1>9 DEF StorageFull
<1>13. CASE Complete(h)
  <2>1. Callback(h) /\ Len(h) = Len(p.bytes)
    BY <1>5, <1>11, <1>12, <1>13 DEF Complete
  <2>2. state' = "WAIT_TYPE" /\ Held' = <<>> /\ delivered' = p
    BY <1>3, <1>8, <1>10, <2>1, GivesIt
  <2>3. Len(Held) + 1 = Len(Encoding(p))
    BY <1>2, <1>3, <1>4, <1>7, <2>1
  <2> QED
    BY <1>1, <2>2, <2>3 DEF Ends
<1>14. CASE ~Complete(h)
  <2>1. packet' = h /\ type' = t /\ state' = "READ_PAYLOAD"
    BY <1>1, <1>5, <1>12, <1>14
  <2>2. Held' = <<t>> \o h
    BY <2>1 DEF Held
  <2>3. Len(Held) + 1 < Len(Encoding(p))
    BY <1>2, <1>3, <1>4, <1>7, <1>9, <1>11, <1>14 DEF Complete
  <2> QED
    BY <1>6, <2>1, <2>2, <2>3 DEF Continues
<1> QED
  BY <1>13, <1>14

LEMMA FeedInStep ==
    ASSUME UInv, inStep, ByteFed, FeedByte(taken)
    PROVE  Continues(taken, expected[1]) \/ Ends(expected[1])
<1>1. /\ expected[1] \in Packets /\ taken \in Byte
      /\ Len(Held) < Len(Encoding(expected[1]))
      /\ \A k \in 1..Len(Held) : Held[k] = Encoding(expected[1])[k]
      /\ taken = Encoding(expected[1])[Len(Held) + 1]
  BY NextIsDue
<1>2. ParserInv /\ ~Recover
  BY DEF UInv, HeldIsPart, Recover
<1> QED
  BY <1>1, <1>2, FeedFirst, FeedHeader, FeedPayload DEF FeedByte

-----------------------------------------------------------------------------
(* The steps. *)
LEMMA SameRing ==
    ASSUME RingInv, UNCHANGED ringVars
    PROVE  RingInv' /\ Untaken' = Untaken /\ Unfed' = Unfed
BY DEF ringVars, RingInv, RingTypeOK, Untaken, Unfed, From, Filled

LEMMA SameParser ==
    ASSUME ParserInv, UNCHANGED <<parserVars, delivered>>
    PROVE  ParserInv' /\ Held' = Held
BY DEF parserVars, ParserInv, ParserTypeOK, PayloadHonest, LengthsHonest, Held

LEMMA OutIsOut ==
    ASSUME RingInv', ParserInv', wire' \in Seq(Byte), OutOfStep
    PROVE  UInv'
<1>1. inStep' = FALSE /\ expected' = <<>> /\ Len(<<>>) = 0
  BY DEF OutOfStep
<1>2. WayTypeOK'
  <2>1. <<>> \in Seq(Packets) /\ Len(<<>>) <= MaxOnWay
    BY <1>1, ControllerPackets
  <2> QED
    BY <1>1, <2>1 DEF WayTypeOK
<1>3. StreamWhole' /\ HeldIsPart'
  BY <1>1 DEF StreamWhole, HeldIsPart
<1> QED
  BY <1>2, <1>3 DEF UInv

(* A step that moves bytes along and does not touch the parser's. *)
LEMMA OnlyMoves ==
    ASSUME UInv, RingInv', ParserInv', wire' \in Seq(Byte),
           UNCHANGED <<inStep, expected, state>>, Held' = Held, Stream' = Stream
    PROVE  UInv'
<1>1. WayTypeOK'
  BY DEF UInv, WayTypeOK
<1>2. StreamWhole'
  <2>1. inStep => Packed(Stream, expected)
    BY WayIs
  <2>2. inStep' => Packed(Stream', expected')
    BY <2>1
  <2> QED
    BY <2>2 DEF StreamWhole, Packed
<1>3. HeldIsPart'
  BY DEF UInv, HeldIsPart
<1> QED
  BY <1>1, <1>2, <1>3 DEF UInv

LEMMA SendStays ==
    ASSUME UInv, NEW p \in Packets, SendPacket(p)
    PROVE  UInv'
<1>1. /\ wire = <<>> /\ Len(expected) < MaxOnWay /\ wire' = Encoding(p)
      /\ inStep' = (inStep \/ AtRest)
      /\ expected' = IF inStep' THEN Append(expected, p) ELSE <<>>
      /\ state' = state
  BY DEF SendPacket, parserVars
<1>2. /\ RingInv' /\ ParserInv' /\ Unfed' = Unfed /\ Held' = Held
  BY SameRing, SameParser DEF SendPacket, UInv
<1>3. Encoding(p) \in Seq(Byte)
  BY EncodingIs
<1>4. CASE ~inStep'
  BY <1>1, <1>2, <1>3, <1>4, OutIsOut DEF OutOfStep
<1>5. CASE inStep'
  <2>1. expected \in Seq(Packets) /\ MaxOnWay \in Nat /\ inStep \in BOOLEAN /\ (~inStep => expected = <<>>)
    BY ControllerPackets DEF UInv, WayTypeOK
  <2>2. expected' = Append(expected, p) /\ inStep' \in BOOLEAN
    BY <1>1, <1>5
  <2>3. Held \in Seq(Byte) /\ Unfed \in Seq(Byte) /\ Stream = (Held \o Unfed) \o <<>> /\ Stream \in Seq(Byte)
    BY <1>1, WayIs
  <2>4. Stream = Held \o Unfed
    BY <2>3, ConcatProperties, ConcatEmptySeq
  <2>5. Stream' = (Held \o Unfed) \o Encoding(p)
    BY <1>1, <1>2 DEF Stream
  <2>6. Packed(Stream, expected)
    <3>1. CASE inStep
      BY <3>1, WayIs
    <3>2. CASE ~inStep
      <4>1. Unfed = <<>> /\ state = "WAIT_TYPE" /\ expected = <<>>
        BY <1>1, <1>5, <2>1, <3>2 DEF AtRest
      <4>2. Held = <<>>
        BY <4>1 DEF Held
      <4>3. Stream = <<>>
        BY <2>4, <4>1, <4>2
      <4> QED
        BY <4>1, <4>3, NothingPacked
    <3> QED
      BY <3>1, <3>2
  <2>7. Packed(Stream', expected')
    BY <2>1, <2>2, <2>3, <2>4, <2>5, <2>6, PackedAppend
  <2>8. StreamWhole'
    BY <2>7 DEF StreamWhole, Packed
  <2>9. WayTypeOK'
    <3>1. Append(expected, p) \in Seq(Packets) /\ Len(Append(expected, p)) = Len(expected) + 1 /\ Len(expected) \in Nat
      BY <2>1, AppendProperties, LenProperties
    <3> QED
      BY <1>1, <1>3, <1>5, <2>1, <2>2, <3>1 DEF WayTypeOK
  <2>10. HeldIsPart'
    <3>1. state # "ERROR_RECOVERY"
      BY <1>1, <1>5 DEF AtRest, UInv, HeldIsPart
    <3>2. ASSUME state # "WAIT_TYPE"
          PROVE  Len(Held) < Len(Encoding(Append(expected, p)[1]))
      <4>1. inStep
        BY <1>1, <1>5, <3>2 DEF AtRest
      <4>2. Len(Held) < Len(Encoding(expected[1]))
        BY <3>2, <4>1 DEF UInv, HeldIsPart
      <4>3. state \in {"READ_HEADER", "READ_PAYLOAD"}
        BY <3>1, <3>2, ParserTypes DEF UInv
      <4>4. Len(Held) >= 1
        BY <4>3, HeldIs, ParserTypes, LenProperties DEF UInv
      <4>5. Len(Stream) = Len(Held) + Len(Unfed) /\ Len(Unfed) \in Nat /\ Len(Held) \in Nat
        BY <2>3, <2>4, ConcatProperties, LenProperties
      <4>6. Stream # <<>>
        BY <4>4, <4>5
      <4>7. expected # <<>>
        BY <2>1, <2>3, <2>6, <4>6, PackedFirst
      <4>8. 1 \in 1..Len(expected)
        BY <2>1, <4>7, EmptySeq
      <4>9. Append(expected, p)[1] = expected[1]
        BY <2>1, <4>8, AppendProperties
      <4> QED
        BY <4>2, <4>9
    <3> QED
      BY <1>1, <1>2, <2>2, <3>1, <3>2 DEF HeldIsPart
  <2> QED
    BY <1>2, <2>8, <2>9, <2>10 DEF UInv
<1> QED
  BY <1>4, <1>5

LEMMA ArrivesStays ==
    ASSUME UInv, ByteArrives
    PROVE  UInv'
<1> DEFINE b == Head(wire)
<1>1. /\ wire # <<>> /\ Irq(b) /\ wire' = Tail(wire)
      /\ IF Overflow \/ rxStep = "clearing" THEN OutOfStep ELSE UNCHANGED <<inStep, expected>>
  BY DEF ByteArrives
<1>2. wire \in Seq(Byte) /\ b \in Byte /\ Tail(wire) \in Seq(Byte) /\ wire = <<b>> \o Tail(wire)
  BY <1>1, WayIs, HeadFirst
<1> HIDE DEF b
<1>3. /\ RingInv'
      /\ ~Overflow /\ rxStep # "clearing" => Untaken' = Append(Untaken, b)
  BY <1>1, <1>2, IrqAppends, TypesAreBytes DEF UInv
<1>4. ParserInv' /\ Held' = Held /\ state' = state
  BY SameParser DEF ByteArrives, UInv, parserVars
<1>5. CASE Overflow \/ rxStep = "clearing"
  BY <1>1, <1>2, <1>3, <1>4, <1>5, OutIsOut
<1>6. CASE ~Overflow /\ rxStep # "clearing"
  <2>1. taken' = taken /\ rxStep' = rxStep /\ Untaken' = Append(Untaken, b)
    BY <1>1, <1>3, <1>6 DEF Irq
  <2>2. Unfed' = Append(Unfed, b)
    <3>1. CASE rxStep \in {"took", "feed"}
      <4>1. Unfed = <<taken>> \o Untaken /\ taken \in Byte /\ Untaken \in Seq(Byte)
        BY <3>1, WayIs
      <4>2. Unfed' = <<taken>> \o Append(Untaken, b)
        BY <2>1, <3>1 DEF Unfed
      <4> QED
        BY <1>2, <4>1, <4>2, AppendBehind
    <3>2. CASE rxStep \notin {"took", "feed"}
      BY <2>1, <3>2 DEF Unfed
    <3> QED
      BY <3>1, <3>2
  <2>3. Held \in Seq(Byte) /\ Unfed \in Seq(Byte) /\ Stream = (Held \o Unfed) \o wire
    BY WayIs
  <2>4. Stream' = (Held \o Unfed') \o wire'
    BY <1>4 DEF Stream
  <2>5. Stream' = Stream
    <3>1. Moved(Unfed, wire, Unfed', wire')
      BY <1>1, <2>2 DEF b, Moved
    <3>2. Joined(Held, Unfed', wire') = Joined(Held, Unfed, wire)
      BY <1>2, <2>3, <3>1, MovesIn
    <3> QED
      BY <2>3, <2>4, <3>2 DEF Joined
  <2> QED
    BY <1>1, <1>2, <1>3, <1>4, <1>6, <2>5, OnlyMoves
<1> QED
  BY <1>5, <1>6

LEMMA DamagedStays ==
    ASSUME UInv, ByteDamaged
    PROVE  UInv'
<1>1. RingInv' /\ ParserInv'
  BY SameRing, SameParser DEF ByteDamaged, UInv
<1>2. wire' \in Seq(Byte)
  BY WayIs, HeadFirst DEF ByteDamaged
<1> QED
  BY <1>1, <1>2, OutIsOut DEF ByteDamaged

LEMMA TaskStays ==
    ASSUME UInv, Task
    PROVE  UInv'
<1>1. /\ UNCHANGED <<parserVars, delivered>> /\ wire' = wire
      /\ UNCHANGED <<inStep, expected, state>>
  BY DEF Task, RingOnly, parserVars
<1>2. ParserInv' /\ Held' = Held
  BY <1>1, SameParser DEF UInv
<1>3. RingInv' /\ Unfed' = Unfed
  <2>1. CASE TakeByte
    <3>1. /\ RingInv' /\ Untaken # <<>> /\ taken' = Head(Untaken) /\ Untaken' = Tail(Untaken)
          /\ rxStep = "idle" /\ rxStep' = "took"
      BY <2>1, TakeTakes DEF UInv
    <3>2. Untaken = <<Head(Untaken)>> \o Tail(Untaken)
      BY <3>1, WayIs, HeadFirst
    <3> QED
      BY <3>1, <3>2 DEF Unfed
  <2>2. CASE AdvanceTail
    <3>1. RingInv' /\ Untaken' = Untaken /\ rxStep = "took" /\ rxStep' = "feed" /\ taken' = taken
      BY <2>2, AdvanceKeeps DEF UInv
    <3> QED
      BY <3>1 DEF Unfed
  <2> QED
    BY <2>1, <2>2 DEF Task
<1>4. Stream' = Stream
  BY <1>1, <1>2, <1>3 DEF Stream
<1> QED
  BY <1>1, <1>2, <1>3, <1>4, WayIs, OnlyMoves

LEMMA ClearHeadStays ==
    ASSUME UInv, ClearHead, RingOnly
    PROVE  UInv'
<1>1. /\ UNCHANGED <<parserVars, delivered>> /\ wire' = wire
      /\ UNCHANGED <<inStep, expected, state>>
  BY DEF RingOnly, parserVars
<1>2. ParserInv' /\ Held' = Held
  BY <1>1, SameParser DEF UInv
<1>3. RingInv' /\ Unfed' = Unfed
  <2>1. RingInv' /\ Untaken' = <<>> /\ Untaken = <<>> /\ rxStep = "clearing" /\ rxStep' = "idle"
    BY ClearEmpties DEF UInv
  <2> QED
    BY <2>1 DEF Unfed
<1>4. Stream' = Stream
  BY <1>1, <1>2, <1>3 DEF Stream
<1> QED
  BY <1>1, <1>2, <1>3, <1>4, WayIs, OnlyMoves

LEMMA ResetStays ==
    ASSUME UInv, ResetBegins
    PROVE  UInv'
<1>1. /\ ClearTail /\ Discard /\ wire' \in {wire, <<>>}
      /\ IF AtRest /\ wire = <<>> THEN UNCHANGED <<inStep, expected>> ELSE OutOfStep
  BY DEF ResetBegins
<1>2. RingInv' /\ Untaken' = <<>> /\ rxStep' = "clearing"
  BY <1>1, ClearEmpties DEF UInv
<1>3. ParserInv' /\ state' = "WAIT_TYPE"
  BY <1>1, ParserDiscards DEF UInv, Discard, ResetParser
<1>4. wire' \in Seq(Byte)
  <2>1. wire \in Seq(Byte) /\ <<>> \in Seq(Byte)
    BY WayIs
  <2> QED
    BY <1>1, <2>1
<1>5. CASE ~(AtRest /\ wire = <<>>)
  BY <1>1, <1>2, <1>3, <1>4, <1>5, OutIsOut
<1>6. CASE AtRest /\ wire = <<>>
  <2>1. Unfed = <<>> /\ state = "WAIT_TYPE" /\ wire' = <<>> /\ UNCHANGED <<inStep, expected, state>>
    BY <1>1, <1>3, <1>6 DEF AtRest
  <2>2. Held = <<>> /\ Held' = <<>>
    BY <1>3, <2>1 DEF Held
  <2>3. Unfed' = <<>>
    BY <1>2 DEF Unfed
  <2>4. Stream' = Stream
    BY <1>6, <2>1, <2>2, <2>3 DEF Stream
  <2> QED
    BY <1>2, <1>3, <1>4, <2>1, <2>2, <2>4, OnlyMoves
<1> QED
  BY <1>5, <1>6

(* The byte the parser has got leaves the front of the way. *)
LEMMA FeedShifts ==
    ASSUME UInv, inStep, ByteFed, NEW n \in Nat, n = Len(Held) + 1,
           NEW t \in Seq(Byte), t = Joined(<<>>, Untaken, wire)
    PROVE  /\ Len(t) = Len(Stream) - n
           /\ \A k \in 1..Len(t) : t[k] = Stream[n + k]
<1>1. /\ Held \in Seq(Byte) /\ Untaken \in Seq(Byte) /\ Unfed \in Seq(Byte) /\ wire \in Seq(Byte)
      /\ Stream = (Held \o Unfed) \o wire /\ <<>> \in Seq(Byte)
      /\ taken \in Byte /\ Unfed = <<taken>> \o Untaken
  BY WayIs DEF ByteFed
<1>2. /\ Len(Held) \in Nat /\ Len(Untaken) \in Nat /\ Len(wire) \in Nat
  BY <1>1, LenProperties
<1>3. Len(Unfed) = Len(Untaken) + 1 /\ \A k \in 1..Len(Untaken) : Unfed[k + 1] = Untaken[k]
  BY <1>1, BehindType
<1>4. /\ Len(Stream) = Len(Held) + Len(Unfed) + Len(wire)
      /\ \A k \in 1..Len(Unfed) : Stream[Len(Held) + k] = Unfed[k]
      /\ \A k \in 1..Len(wire) : Stream[Len(Held) + Len(Unfed) + k] = wire[k]
  <2>1. Held \in Seq(Byte) /\ Unfed \in Seq(Byte) /\ wire \in Seq(Byte)
    BY <1>1
  <2>2. Spans(Joined(Held, Unfed, wire), Held, Unfed, wire)
    BY <2>1, OnWay
  <2>3. Stream = Joined(Held, Unfed, wire)
    BY DEF Stream, Joined
  <2>4. Spans(Stream, Held, Unfed, wire)
    BY <2>2, <2>3
  <2> QED
    BY <2>4 DEF Spans
<1>5. Len(<<>>) = 0
  OBVIOUS
<1>6. /\ Len(t) = Len(<<>>) + Len(Untaken) + Len(wire)
      /\ \A k \in 1..Len(Untaken) : t[Len(<<>>) + k] = Untaken[k]
      /\ \A k \in 1..Len(wire) : t[Len(<<>>) + Len(Untaken) + k] = wire[k]
  <2> DEFINE e == <<>>
  <2>1. e \in Seq(Byte) /\ Untaken \in Seq(Byte) /\ wire \in Seq(Byte)
    BY <1>1
  <2>2. t = Joined(e, Untaken, wire)
    OBVIOUS
  <2> HIDE DEF e
  <2>3. /\ Len(t) = Len(e) + Len(Untaken) + Len(wire)
        /\ \A k \in 1..Len(Untaken) : t[Len(e) + k] = Untaken[k]
        /\ \A k \in 1..Len(wire) : t[Len(e) + Len(Untaken) + k] = wire[k]
    <3>1. Spans(Joined(e, Untaken, wire), e, Untaken, wire)
      BY <2>1, OnWay
    <3>2. Spans(t, e, Untaken, wire)
      BY <2>2, <3>1
    <3> QED
      BY <3>2 DEF Spans
  <2> QED
    BY <2>3 DEF e
<1>7. /\ Len(t) = Len(Untaken) + Len(wire)
      /\ \A k \in 1..Len(Untaken) : t[k] = Untaken[k]
      /\ \A k \in 1..Len(wire) : t[Len(Untaken) + k] = wire[k]
  BY <1>2, <1>5, <1>6
<1>8. Len(t) = Len(Stream) - n
  BY <1>2, <1>3, <1>4, <1>7
<1>9. ASSUME NEW k \in 1..Len(t) PROVE t[k] = Stream[n + k]
  <2>1. CASE k \in 1..Len(Untaken)
    <3>1. k + 1 \in 1..Len(Unfed) /\ n + k = Len(Held) + (k + 1)
      BY <1>2, <1>3, <2>1
    <3> QED
      BY <1>3, <1>4, <1>7, <2>1, <3>1
  <2>2. CASE k \in (Len(Untaken) + 1)..Len(t)
    <3> DEFINE j == k - Len(Untaken)
    <3>1. /\ j \in 1..Len(wire) /\ k = Len(Untaken) + j
          /\ n + k = Len(Held) + Len(Unfed) + j
      BY <1>2, <1>3, <1>7, <2>2
    <3> HIDE DEF j
    <3>2. t[Len(Untaken) + j] = wire[j] /\ Stream[Len(Held) + Len(Unfed) + j] = wire[j]
      BY <1>4, <1>7, <3>1
    <3> QED
      BY <3>1, <3>2
  <2> QED
    BY <1>2, <1>7, <2>1, <2>2
<1> QED
  BY <1>8, <1>9

(* And joins what the parser holds. *)
LEMMA FeedJoins ==
    ASSUME UInv, inStep, ByteFed, NEW h, h = Append(Held, taken)
    PROVE  Joined(h, Untaken, wire) = Stream
<1>1. /\ Held \in Seq(Byte) /\ Untaken \in Seq(Byte) /\ Unfed \in Seq(Byte) /\ wire \in Seq(Byte)
      /\ Stream = (Held \o Unfed) \o wire /\ Stream \in Seq(Byte)
      /\ taken \in Byte /\ Unfed = <<taken>> \o Untaken
  BY WayIs DEF ByteFed
<1>2. /\ h \in Seq(Byte) /\ Len(h) = Len(Held) + 1 /\ h[Len(Held) + 1] = taken
      /\ \A k \in 1..Len(Held) : h[k] = Held[k]
  BY <1>1, AppendProperties
<1>3. /\ Len(Held) \in Nat /\ Len(Untaken) \in Nat /\ Len(wire) \in Nat
  BY <1>1, LenProperties
<1>4. /\ Len(Unfed) = Len(Untaken) + 1 /\ Unfed[1] = taken
      /\ \A k \in 1..Len(Untaken) : Unfed[k + 1] = Untaken[k]
  BY <1>1, BehindType
<1>5. /\ Len(Stream) = Len(Held) + Len(Unfed) + Len(wire)
      /\ \A k \in 1..Len(Held) : Stream[k] = Held[k]
      /\ \A k \in 1..Len(Unfed) : Stream[Len(Held) + k] = Unfed[k]
      /\ \A k \in 1..Len(wire) : Stream[Len(Held) + Len(Unfed) + k] = wire[k]
  <2>1. Held \in Seq(Byte) /\ Unfed \in Seq(Byte) /\ wire \in Seq(Byte)
    BY <1>1
  <2>2. Spans(Joined(Held, Unfed, wire), Held, Unfed, wire)
    BY <2>1, OnWay
  <2>3. Stream = Joined(Held, Unfed, wire)
    BY DEF Stream, Joined
  <2>4. Spans(Stream, Held, Unfed, wire)
    BY <2>2, <2>3
  <2> QED
    BY <2>4 DEF Spans
<1> DEFINE t == Joined(h, Untaken, wire)
<1>6. /\ t \in Seq(Byte) /\ Len(t) = Len(h) + Len(Untaken) + Len(wire)
      /\ \A k \in 1..Len(h) : t[k] = h[k]
      /\ \A k \in 1..Len(Untaken) : t[Len(h) + k] = Untaken[k]
      /\ \A k \in 1..Len(wire) : t[Len(h) + Len(Untaken) + k] = wire[k]
  <2>1. h \in Seq(Byte) /\ Untaken \in Seq(Byte) /\ wire \in Seq(Byte)
    BY <1>1, <1>2
  <2>2. t \in Seq(Byte) /\ Spans(t, h, Untaken, wire)
    BY <2>1, OnWay
  <2> HIDE DEF t
  <2> QED
    BY <2>2 DEF Spans
<1> HIDE DEF t
<1>7. Len(t) = Len(Stream)
  BY <1>2, <1>3, <1>4, <1>5, <1>6
<1>8. ASSUME NEW i \in 1..Len(t) PROVE t[i] = Stream[i]
  <2>1. CASE i \in 1..Len(Held)
    <3>1. i \in 1..Len(h)
      BY <1>2, <1>3, <2>1
    <3> QED
      BY <1>2, <1>5, <1>6, <2>1, <3>1
  <2>2. CASE i = Len(Held) + 1
    <3>1. i \in 1..Len(h) /\ 1 \in 1..Len(Unfed)
      BY <1>2, <1>3, <1>4, <2>2
    <3> QED
      BY <1>2, <1>4, <1>5, <1>6, <2>2, <3>1
  <2>3. CASE i \in (Len(h) + 1)..(Len(h) + Len(Untaken))
    <3> DEFINE j == i - Len(h)
    <3>1. j \in 1..Len(Untaken) /\ j + 1 \in 1..Len(Unfed) /\ i = Len(h) + j /\ i = Len(Held) + (j + 1)
      BY <1>2, <1>3, <1>4, <2>3
    <3> HIDE DEF j
    <3>2. t[Len(h) + j] = Untaken[j] /\ Stream[Len(Held) + (j + 1)] = Unfed[j + 1]
      BY <1>5, <1>6, <3>1
    <3> QED
      BY <1>4, <3>1, <3>2
  <2>4. CASE i \in (Len(h) + Len(Untaken) + 1)..Len(t)
    <3> DEFINE j == i - (Len(h) + Len(Untaken))
    <3>1. /\ j \in 1..Len(wire) /\ i = Len(h) + Len(Untaken) + j
          /\ i = Len(Held) + Len(Unfed) + j
      BY <1>2, <1>3, <1>4, <1>6, <2>4
    <3> HIDE DEF j
    <3>2. t[Len(h) + Len(Untaken) + j] = wire[j] /\ Stream[Len(Held) + Len(Unfed) + j] = wire[j]
      BY <1>5, <1>6, <3>1
    <3> QED
      BY <3>1, <3>2
  <2> QED
    BY <1>2, <1>3, <1>6, <2>1, <2>2, <2>3, <2>4
<1>9. t = Stream
  BY <1>1, <1>6, <1>7, <1>8, SeqEqual
<1> QED
  BY <1>9 DEF t

LEMMA FeedStays ==
    ASSUME UInv, FeedParser
    PROVE  UInv'
<1>1. /\ ByteFed /\ FeedByte(taken) /\ wire' = wire /\ inStep' = inStep
      /\ expected' = IF inStep /\ state # "WAIT_TYPE" /\ state' = "WAIT_TYPE"
                     THEN Tail(expected) ELSE expected
  BY DEF FeedParser
<1>2. /\ RingInv' /\ Untaken' = Untaken /\ taken' = taken /\ taken \in Byte
      /\ rxStep = "feed" /\ rxStep' = "idle"
  BY <1>1, FedKeeps, TypesAreBytes DEF UInv
<1>3. ParserInv'
  BY <1>1, <1>2, ParserStep DEF UInv
<1>4. Unfed' = Untaken
  BY <1>2 DEF Unfed
<1>5. Stream' = Joined(Held', Untaken, wire)
  BY <1>1, <1>4 DEF Stream, Joined
<1>6. /\ wire \in Seq(Byte) /\ inStep \in BOOLEAN /\ MaxOnWay \in Nat
      /\ expected \in Seq(Packets) /\ Len(expected) <= MaxOnWay
      /\ ~inStep => expected = <<>>
  BY ControllerPackets DEF UInv, WayTypeOK
<1>7. CASE ~inStep
  <2>1. OutOfStep
    BY <1>1, <1>6, <1>7 DEF OutOfStep
  <2> QED
    BY <1>1, <1>2, <1>3, <1>6, <2>1, OutIsOut
<1>8. CASE inStep
  <2> DEFINE p == expected[1]
  <2>1. /\ expected # <<>> /\ p \in Packets /\ Packed(Stream, expected) /\ Stream \in Seq(Byte)
        /\ Stream' \in Seq(Byte)
    <3>1. Untaken \in Seq(Byte) /\ Held' \in Seq(Byte)
      BY <1>3, WayIs, HeldNext DEF HeldAreBytes
    <3>2. Joined(Held', Untaken, wire) \in Seq(Byte)
      BY <1>6, <3>1, OnWay
    <3> QED
      BY <1>1, <1>5, <1>8, <3>2, NextIsDue, WayIs
  <2>2. Continues(taken, p) \/ Ends(p)
    BY <1>1, <1>8, FeedInStep
  <2> HIDE DEF p
  <2>3. CASE Continues(taken, p)
    <3>1. /\ state' \in {"READ_HEADER", "READ_PAYLOAD"} /\ Held' = Append(Held, taken)
          /\ Len(Held) + 1 < Len(Encoding(p))
      BY <2>3 DEF Continues
    <3>2. expected' = expected
      BY <1>1, <3>1
    <3>3. Stream' = Stream
      BY <1>1, <1>5, <1>8, <3>1, FeedJoins
    <3>4. StreamWhole'
      <4>1. Packed(Stream', expected')
        BY <2>1, <3>2, <3>3
      <4> QED
        BY <4>1 DEF StreamWhole, Packed
    <3>5. HeldIsPart'
      <4>1. Len(Held') = Len(Held) + 1
        BY <1>2, <3>1, WayIs, AppendProperties
      <4>2. expected'[1] = p
        BY <3>2 DEF p
      <4>3. Len(Held') < Len(Encoding(expected'[1]))
        BY <3>1, <4>1, <4>2
      <4> QED
        BY <3>1, <4>3 DEF HeldIsPart
    <3>6. WayTypeOK'
      BY <1>1, <1>6, <3>2 DEF WayTypeOK
    <3> QED
      BY <1>2, <1>3, <3>4, <3>5, <3>6 DEF UInv
  <2>4. CASE Ends(p)
    <3>1. /\ state # "WAIT_TYPE" /\ state' = "WAIT_TYPE" /\ Held' = <<>>
          /\ Len(Held) + 1 = Len(Encoding(p))
      BY <2>4 DEF Ends
    <3>2. expected' = Tail(expected)
      BY <1>1, <1>8, <3>1
    <3>3. Stream' = Joined(<<>>, Untaken, wire)
      BY <1>5, <3>1
    <3>4. /\ Len(Stream') = Len(Stream) - Len(Encoding(p))
          /\ \A k \in 1..Len(Stream') : Stream'[k] = Stream[Len(Encoding(p)) + k]
      <4>1. Len(Encoding(p)) \in Nat
        BY <2>1, EncodingIs
      <4> QED
        BY <1>1, <1>8, <2>1, <3>1, <3>3, <4>1, FeedShifts
    <3>5. Packed(Stream', expected')
      BY <1>6, <2>1, <3>2, <3>4, PackedDrop DEF p
    <3>6. StreamWhole'
      BY <3>5 DEF StreamWhole, Packed
    <3>7. WayTypeOK'
      <4>1. Tail(expected) \in Seq(Packets) /\ Len(Tail(expected)) = Len(expected) - 1 /\ Len(expected) \in Nat
        BY <1>6, <2>1, HeadTailProperties, LenProperties
      <4> QED
        BY <1>1, <1>6, <1>8, <3>2, <4>1 DEF WayTypeOK
    <3>8. HeldIsPart'
      BY <3>1 DEF HeldIsPart
    <3> QED
      BY <1>2, <1>3, <3>6, <3>7, <3>8 DEF UInv
  <2> QED
    BY <2>2, <2>3, <2>4
<1> QED
  BY <1>6, <1>7, <1>8

LEMMA WayStep == UInv /\ [UNext]_uartVars => UInv'
<1> SUFFICES ASSUME UInv, [UNext]_uartVars PROVE UInv'
  OBVIOUS
<1>1. CASE \E p \in Packets : SendPacket(p)
  BY <1>1, SendStays
<1>2. CASE UNCHANGED uartVars
  <2>1. /\ UNCHANGED ringVars /\ UNCHANGED <<parserVars, delivered>> /\ UNCHANGED parserVars
        /\ wire' = wire /\ UNCHANGED <<inStep, expected>>
    BY <1>2 DEF uartVars
  <2>2. RingInv' /\ Unfed' = Unfed /\ ParserInv' /\ Held' = Held /\ state' = state
    BY <2>1, SameRing, SameParser DEF UInv, parserVars
  <2>3. Stream' = Stream
    BY <2>1, <2>2 DEF Stream
  <2> QED
    BY <2>1, <2>2, <2>3, WayIs, OnlyMoves
<1> QED
  BY <1>1, <1>2, ArrivesStays, DamagedStays, FeedStays, TaskStays, ResetStays, ClearHeadStays
  DEF UNext

LEMMA WayStarts == UInit => UInv
<1> SUFFICES ASSUME UInit PROVE UInv
  OBVIOUS
<1>1. RingInv /\ Unfed = <<>>
  BY RingStarts DEF UInit
<1>2. /\ state = "WAIT_TYPE" /\ type = COMMAND /\ header = <<>> /\ packet = <<>>
      /\ packetLen = 0 /\ delivered = None
  BY DEF UInit, ParserInit
<1>3. ParserInv
  <2>1. <<>> \in Seq(Byte) /\ packetLen \in 0..Capacity
    BY <1>2, WordIs
  <2>2. ParserTypeOK
    BY <1>2, <2>1 DEF ParserTypeOK
  <2> QED
    BY <1>2, <2>2 DEF ParserInv, PayloadHonest, LengthsHonest
<1>4. Held = <<>> /\ wire = <<>> /\ inStep = TRUE /\ expected = <<>>
  BY <1>2 DEF UInit, Held
<1>5. Stream = <<>>
  <2>1. <<>> \o <<>> = <<>>
    OBVIOUS
  <2> QED
    BY <1>1, <1>4, <2>1 DEF Stream
<1>6. StreamWhole
  BY <1>4, <1>5, NothingPacked DEF StreamWhole, Packed
<1>7. WayTypeOK
  <2>1. <<>> \in Seq(Byte) /\ <<>> \in Seq(Packets) /\ Len(<<>>) <= MaxOnWay
    BY ControllerPackets
  <2> QED
    BY <1>4, <2>1 DEF WayTypeOK
<1>8. HeldIsPart
  BY <1>2 DEF HeldIsPart
<1> QED
  BY <1>1, <1>3, <1>6, <1>7, <1>8 DEF UInv

(* The inductive invariant of the receive path: the interrupt may come      *)
(* between any two steps of the loop, and a reset at any byte.              *)
THEOREM UartInvariant == USpec => []UInv
<1> QED
  BY WayStarts, WayStep, PTL DEF USpec

(* The ring, the parser, the wire and the histories have their types.  That *)
(* expected is a sequence of packets already needs that the parser ends a   *)
(* packet only when one is due.                                             *)
THEOREM UartTypeCorrect == USpec => []UTypeOK
<1>1. UInv => UTypeOK
  BY DEF UInv, RingInv, ParserInv, WayTypeOK, UTypeOK
<1> QED
  BY <1>1, UartInvariant, PTL

(* h4_parser_feed_byte gives only packets as long as their header says,     *)
(* also out of step and also when their 16-bit length has wrapped.          *)
THEOREM ParserIsHonest == USpec => []LengthsHonest
<1>1. UInv => LengthsHonest
  BY DEF UInv, ParserInv
<1> QED
  BY <1>1, UartInvariant, PTL

(* Until a byte is lost, parser, ring and wire hold together exactly the    *)
(* packets that are due, wherever interrupt, task and reset have got to.    *)
THEOREM WayIsWhole == USpec => []StreamWhole
<1>1. UInv => StreamWhole
  BY DEF UInv
<1> QED
  BY <1>1, UartInvariant, PTL

(* A packet that ends in the parser is given as it was sent and in turn.    *)
THEOREM PacketsAreDelivered == USpec => DeliveredAsSent
<1>1. UInv /\ [UNext]_uartVars
        => [inStep /\ inStep' /\ Len(expected') < Len(expected)
              => delivered' = Head(expected)]_uartVars
  <2> SUFFICES ASSUME UInv, UNext, inStep, inStep', Len(expected') < Len(expected)
               PROVE  delivered' = Head(expected)
    OBVIOUS
  <2>1. expected \in Seq(Packets) /\ Len(expected) \in Nat
    BY LenProperties DEF UInv, WayTypeOK
  <2>2. expected' # expected
    BY <2>1
  <2>3. CASE \E p \in Packets : SendPacket(p)
    <3>1. PICK p \in Packets : SendPacket(p)
      BY <2>3
    <3>2. expected' = Append(expected, p)
      BY <3>1 DEF SendPacket
    <3>3. Len(expected') = Len(expected) + 1
      BY <2>1, <3>2, AppendProperties
    <3> QED
      BY <2>1, <3>3
  <2>4. CASE FeedParser
    <3>1. ByteFed /\ FeedByte(taken)
      BY <2>4 DEF FeedParser
    <3>2. state' = "WAIT_TYPE"
      BY <2>2, <2>4 DEF FeedParser
    <3>3. Ends(expected[1])
      BY <3>1, <3>2, FeedInStep DEF Continues
    <3>4. expected # <<>>
      BY <3>1, NextIsDue
    <3> QED
      BY <2>1, <3>3, <3>4, HeadTailProperties DEF Ends
  <2>5. CASE ByteArrives
    BY <2>2, <2>5 DEF ByteArrives, OutOfStep
  <2>6. CASE ByteDamaged
    BY <2>6 DEF ByteDamaged, OutOfStep
  <2>7. CASE ResetBegins
    BY <2>2, <2>7 DEF ResetBegins, OutOfStep
  <2>8. CASE Task \/ (ClearHead /\ RingOnly)
    BY <2>2, <2>8 DEF Task, RingOnly
  <2> QED
    BY <2>3, <2>4, <2>5, <2>6, <2>7, <2>8 DEF UNext
<1> QED
  BY <1>1, UartInvariant, PTL DEF USpec, DeliveredAsSent

-----------------------------------------------------------------------------
(* The ring implements a bounded first-in first-out channel. *)
LEMMA BytesStart == UInit => Bytes!ChannelInit
BY RingStarts DEF UInit, RingInit, Bytes!ChannelInit

LEMMA BytesStep ==
    UInv /\ [UNext]_uartVars => [Bytes!ChannelNext]_<<Untaken, taken>>
<1> SUFFICES ASSUME UInv, [UNext]_uartVars
             PROVE  Bytes!ChannelNext \/ UNCHANGED <<Untaken, taken>>
  OBVIOUS
<1> USE DEF Bytes!ChannelNext
<1>1. RingInv
  BY DEF UInv
<1>2. CASE (\E p \in Packets : SendPacket(p)) \/ ByteDamaged
  BY <1>1, <1>2, SameRing DEF SendPacket, ByteDamaged, ringVars
<1>3. CASE UNCHANGED uartVars
  BY <1>1, <1>3, SameRing DEF uartVars, ringVars
<1>4. CASE ByteArrives
  <2> DEFINE b == Head(wire)
  <2>1. Irq(b) /\ b \in Byte
    BY <1>4, WayIs, HeadFirst DEF ByteArrives
  <2> HIDE DEF b
  <2>2. taken' = taken
    BY <2>1 DEF Irq
  <2>3. /\ Overflow \/ rxStep = "clearing" => Untaken' = Untaken
        /\ ~Overflow /\ rxStep # "clearing" =>
               Untaken' = Append(Untaken, b) /\ Len(Untaken) < RingSize - 1
    BY <1>1, <2>1, IrqAppends, TypesAreBytes
  <2>4. CASE Overflow \/ rxStep = "clearing"
    BY <2>2, <2>3, <2>4
  <2>5. CASE ~Overflow /\ rxStep # "clearing"
    <3>1. Bytes!Accept(b)
      BY <2>2, <2>3, <2>5 DEF Bytes!Accept
    <3> QED
      BY <2>1, <3>1
  <2> QED
    BY <2>4, <2>5
<1>5. CASE FeedParser
  BY <1>1, <1>5, FedKeeps DEF FeedParser
<1>6. CASE Task
  <2>1. CASE TakeByte
    <3>1. Bytes!Give
      BY <1>1, <2>1, TakeTakes DEF Bytes!Give
    <3> QED
      BY <3>1
  <2>2. CASE AdvanceTail
    BY <1>1, <2>2, AdvanceKeeps
  <2> QED
    BY <1>6, <2>1, <2>2 DEF Task
<1>7. CASE ResetBegins
  <2>1. Bytes!Clear
    BY <1>1, <1>7, ClearEmpties DEF ResetBegins, Bytes!Clear
  <2> QED
    BY <2>1
<1>8. CASE ClearHead
  BY <1>1, <1>8, ClearEmpties
<1> QED
  BY <1>2, <1>3, <1>4, <1>5, <1>6, <1>7, <1>8 DEF UNext

(* Between the interrupt and the parser the ring is a first-in first-out    *)
(* channel of one byte less than its slots, and loses what it has accepted   *)
(* only when esp32_reset_controller clears it.                              *)
THEOREM RingIsByteChannel == USpec => ImplementsByteChannel
<1> QED
  BY BytesStart, BytesStep, UartInvariant, PTL DEF USpec, ImplementsByteChannel, Bytes!ChannelSpec
=============================================================================
