------------------------- MODULE AclReassemblyProofs -------------------------
(***************************************************************************)
(* Proofs about the reassembly of ACL packets, for every size of the        *)
(* buffer, of the endpoint and of a byte: the buffer is never written past  *)
(* its end, the packets keep their boundaries while the stream is in step,  *)
(* and out of step what is queued still is as long as its header says.      *)
(***************************************************************************)
EXTENDS AclReassembly, SequenceTheorems, TLAPS

(* What has been gathered is longer than a header, and expected is what     *)
(* that header says.                                                        *)
HeldHonest ==
    held # <<>> =>
        /\ Len(held) >= HeaderLen
        /\ expected = TotalLen(held) /\ ~Bad(expected)

(* Only an enabled bridge holds anything, and in step the first fragment of *)
(* a packet brings all of its header.                                       *)
InStepFragments ==
    /\ ~enabled => held = <<>> /\ fragment = <<>>
    /\ inStep /\ held = <<>> /\ fragment # <<>> => Len(fragment) >= HeaderLen

AclInv ==
    /\ TypeOK
    /\ HeldHonest
    /\ AclLengthsHonest
    /\ InStepFragments
    /\ AclStreamWhole

-----------------------------------------------------------------------------
(* Taking and dropping.  *)
LEMMA TakeDrop ==
    ASSUME NEW S, NEW s \in Seq(S), NEW n \in 0..Len(s)
    PROVE  /\ Take(s, n) \in Seq(S) /\ Len(Take(s, n)) = n
           /\ \A i \in 1..n : Take(s, n)[i] = s[i]
           /\ Drop(s, n) \in Seq(S) /\ Len(Drop(s, n)) = Len(s) - n
           /\ Take(s, n) \o Drop(s, n) = s
<1>1. \A i \in 1..n : s[i] \in S
  BY ElementOfSeq, LenProperties
<1>2. \A i \in n + 1..Len(s) : s[i] \in S
  BY ElementOfSeq, LenProperties
<1>3. Len(s) \in Nat
  BY LenProperties
<1>4. /\ Take(s, n) \in Seq(S) /\ Len(Take(s, n)) = n
      /\ \A i \in 1..n : Take(s, n)[i] = s[i]
  BY <1>1, SubSeqProperties DEF Take
<1>5. Drop(s, n) \in Seq(S) /\ Len(Drop(s, n)) = Len(s) - n
  BY <1>2, <1>3, SubSeqProperties DEF Drop
<1>6. Take(s, n) \o Drop(s, n) = s
  <2>1. 1 \in 1..(Len(s) + 1) /\ n \in (1 - 1)..Len(s) /\ Len(s) \in n..Len(s)
    BY <1>3
  <2>2. SubSeq(s, 1, n) \o SubSeq(s, n + 1, Len(s)) = SubSeq(s, 1, Len(s))
    BY <2>1, ConcatAdjacentSubSeq
  <2> QED
    BY <2>2, SubSeqFull DEF Take, Drop
<1> QED
  BY <1>4, <1>5, <1>6

LEMMA Regrouped ==
    ASSUME NEW s \in Seq(Byte), NEW t \in Seq(Byte), NEW u \in Seq(Byte)
    PROVE  (s \o t) \o u = s \o (t \o u)
OBVIOUS

LEMMA LeastType ==
    ASSUME NEW m \in Nat, NEW n \in Nat
    PROVE  /\ Least(m, n) \in 0..m /\ Least(m, n) <= n
           /\ Least(m, n) = m \/ Least(m, n) = n
BY DEF Least

LEMMA PacketType ==
    ASSUME NEW p \in Packet
    PROVE  /\ p \in Seq(Byte) /\ p # <<>>
           /\ Len(p) \in HeaderLen..BufferLen
           /\ TrueLen(p) = Len(p)
<1>1. PICK n \in HeaderLen..BufferLen : p \in [1..n -> Byte]
  BY DEF Packet
<1>2. n \in Nat /\ n >= 4
  BY <1>1, ReassemblyBounds DEF HeaderLen
<1>3. p \in Seq(Byte) /\ Len(p) = n
  BY <1>1, <1>2
<1> QED
  BY <1>1, <1>2, <1>3 DEF Packet

-----------------------------------------------------------------------------
(* Arithmetic of lengths. *)
LEMMA TwoDigits ==
    ASSUME NEW b \in Nat, NEW x \in 0..(b - 1), NEW y \in 0..(b - 1)
    PROVE  x + b * y < b * b
<1>1. b * y <= b * (b - 1)
  OBVIOUS
<1>2. b * (b - 1) = b * b - b
  OBVIOUS
<1>3. b * y \in Nat /\ b * b \in Nat
  OBVIOUS
<1> QED
  BY <1>1, <1>2, <1>3

LEMMA WrapsOnce ==
    ASSUME NEW m \in Nat \ {0}, NEW n \in Nat, n < 2 * m
    PROVE  n % m = IF n < m THEN n ELSE n - m
OBVIOUS

(* The 16 bits of the code either hold the length that is meant, or one too *)
(* short for a header.                                                      *)
LEMMA LengthOfHeader ==
    ASSUME NEW f \in Seq(Byte), Len(f) >= HeaderLen
    PROVE  /\ TrueLen(f) \in Nat /\ TotalLen(f) \in Nat
           /\ TrueLen(f) < Base * Base => TotalLen(f) = TrueLen(f)
           /\ ~Bad(TotalLen(f)) => TotalLen(f) = TrueLen(f)
<1>1. f[3] \in 0..(Base - 1) /\ f[4] \in 0..(Base - 1)
  <2>1. 3 \in 1..Len(f) /\ 4 \in 1..Len(f)
    BY LenProperties DEF HeaderLen
  <2> QED
    BY <2>1, ElementOfSeq DEF Byte
<1> DEFINE n == f[3] + Base * f[4]
           m == Base * Base
<1>2. Base \in Nat /\ m \in Nat \ {0} /\ m >= 4
  BY ReassemblyBounds
<1>3. n \in Nat /\ n < m
  <2>1. f[3] + Base * f[4] < Base * Base
    BY <1>1, <1>2, TwoDigits, Zenon
  <2>2. f[3] \in Nat /\ f[4] \in Nat
    BY <1>1, <1>2
  <2> QED
    BY <1>2, <2>1, <2>2
<1>4. TrueLen(f) = 4 + n
  BY <1>1, <1>2 DEF TrueLen, HeaderLen
<1> HIDE DEF n, m
<1>5. TrueLen(f) \in Nat /\ TrueLen(f) < 2 * m /\ (TrueLen(f) >= m => TrueLen(f) - m < 4)
  BY <1>2, <1>3, <1>4
<1>6. TrueLen(f) % m = IF TrueLen(f) < m THEN TrueLen(f) ELSE TrueLen(f) - m
  BY <1>2, <1>5, WrapsOnce, Zenon
<1>7. TotalLen(f) = IF TrueLen(f) < m THEN TrueLen(f) ELSE TrueLen(f) - m
  BY <1>6 DEF TotalLen, m
<1>8. TotalLen(f) \in Nat
  BY <1>2, <1>5, <1>7
<1>9. TrueLen(f) < m => TotalLen(f) = TrueLen(f)
  BY <1>7
<1>10. ~Bad(TotalLen(f)) => TotalLen(f) = TrueLen(f)
  BY <1>2, <1>5, <1>7, <1>8 DEF Bad, HeaderLen
<1> QED
  BY <1>5, <1>8, <1>9, <1>10 DEF m

(* The header is in the first bytes. *)
LEMMA SameHeader ==
    ASSUME NEW f \in Seq(Byte), NEW g \in Seq(Byte), Len(f) >= HeaderLen
    PROVE  Len(f \o g) >= HeaderLen /\ TotalLen(f \o g) = TotalLen(f)
<1>1. (f \o g)[3] = f[3] /\ (f \o g)[4] = f[4] /\ Len(f \o g) >= HeaderLen
  BY ConcatProperties, LenProperties DEF HeaderLen
<1> QED
  BY <1>1 DEF TotalLen, TrueLen

-----------------------------------------------------------------------------
LEMMA AclInit == Init => AclInv
<1> SUFFICES ASSUME Init PROVE AclInv
  OBVIOUS
<1>1. <<>> \in Seq(Byte) /\ Len(<<>>) = 0
  OBVIOUS
<1>2. 0 \in 0..BufferLen /\ 0 <= BufferLen /\ 0 <= EndpointLen
  BY ReassemblyBounds
<1>3. TypeOK
  BY <1>1, <1>2 DEF Init, TypeOK
<1> QED
  BY <1>3 DEF Init, AclInv, HeldHonest, AclLengthsHonest, InStepFragments, AclStreamWhole

(* In step, a packet in hand is the one that is due, and its length is what *)
(* its first bytes say.                                                     *)
LEMMA InStepDue ==
    ASSUME AclInv, inStep, fragment # <<>>, Len(held \o fragment) >= HeaderLen
    PROVE  /\ (held \o fragment) \o rest = due /\ due \in Packet
           /\ Len(due) = TotalLen(held \o fragment)
<1>1. held \in Seq(Byte) /\ fragment \in Seq(Byte) /\ rest \in Seq(Byte) /\ enabled
  BY DEF AclInv, TypeOK, InStepFragments
<1>2. held \o fragment \in Seq(Byte)
  BY <1>1, ConcatProperties
<1>3. (held \o fragment) \o rest \in {due, <<>>}
  BY <1>1 DEF AclInv, AclStreamWhole
<1>4. (held \o fragment) \o rest # <<>>
  BY <1>1, <1>2, ConcatSimplifications
<1>5. (held \o fragment) \o rest = due /\ due # <<>>
  BY <1>3, <1>4
<1>6. due \in Packet
  BY <1>5 DEF AclInv, TypeOK
<1>7. TotalLen(due) = TotalLen(held \o fragment)
  BY <1>1, <1>2, <1>5, SameHeader
<1>8. due \in Seq(Byte) /\ Len(due) \in HeaderLen..BufferLen /\ TrueLen(due) = Len(due)
  BY <1>6, PacketType
<1>9. Len(due) < Base * Base /\ Len(due) >= HeaderLen
  BY <1>8, ReassemblyBounds DEF HeaderLen
<1> QED
  BY <1>5, <1>6, <1>7, <1>8, <1>9, LengthOfHeader

(* A turn of the loop that copies bytes keeps the invariant, if total is    *)
(* what the header says.                                                    *)
LEMMA GatherStep ==
    ASSUME AclInv, InHand, NEW total \in HeaderLen..BufferLen, Gather(total),
           Len(held) < total,
           IF held = <<>> THEN Len(fragment) >= HeaderLen ELSE Len(held) >= HeaderLen,
           total = TotalLen(held \o fragment)
    PROVE  AclInv'
<1> DEFINE len == Least(Len(fragment), total - Len(held))
           all == held \o Take(fragment, len)
           left == Drop(fragment, len)
<1>1. /\ held \in Seq(Byte) /\ fragment \in Seq(Byte) /\ rest \in Seq(Byte)
      /\ Len(held) \in Nat /\ Len(fragment) \in Nat /\ Len(fragment) <= EndpointLen
      /\ Len(held) <= BufferLen
  BY LenProperties DEF AclInv, TypeOK
<1>2. total \in Nat /\ total - Len(held) \in Nat /\ total - Len(held) > 0 /\ total >= 4 /\ total <= BufferLen
  BY <1>1, ReassemblyBounds DEF HeaderLen
<1>3. len \in 0..Len(fragment) /\ len <= total - Len(held) /\ len \in {Len(fragment), total - Len(held)}
  BY <1>1, <1>2, LeastType
<1>4. /\ Take(fragment, len) \in Seq(Byte) /\ Len(Take(fragment, len)) = len
      /\ left \in Seq(Byte) /\ Len(left) = Len(fragment) - len
      /\ Take(fragment, len) \o left = fragment
  BY <1>1, <1>3, TakeDrop
<1> HIDE DEF len, left
<1>5. all \in Seq(Byte) /\ Len(all) = Len(held) + len /\ all \o left = held \o fragment
  <2>1. all \in Seq(Byte) /\ Len(all) = Len(held) + len
    BY <1>1, <1>4, ConcatProperties
  <2>2. all \o left = held \o (Take(fragment, len) \o left)
    BY <1>1, <1>4, Regrouped
  <2> QED
    BY <2>1, <2>2, <1>4
<1>6. Len(all) >= HeaderLen /\ Len(all) <= total /\ Len(all) \in Nat
  <2>1. held = <<>> => Len(held) = 0
    OBVIOUS
  <2> QED
    BY <1>1, <1>2, <1>3, <1>5, <2>1 DEF HeaderLen
<1>7. all # <<>>
  BY <1>6 DEF HeaderLen
<1>8. TotalLen(all) = total /\ Len(held \o fragment) >= HeaderLen
  BY <1>4, <1>5, <1>6, SameHeader
<1>9. ~Bad(total) /\ TrueLen(all) = total
  <2>1. ~Bad(total)
    BY <1>2, ReassemblyBounds DEF Bad, HeaderLen
  <2>2. TotalLen(all) = TrueLen(all)
    BY <2>1, <1>5, <1>6, <1>8, LengthOfHeader
  <2> QED
    BY <2>1, <2>2, <1>8
<1>10. /\ fragment' = left /\ UNCHANGED <<enabled, rest, due, inStep>> /\ fragment # <<>>
       /\ IF Len(all) = total
          THEN completed' = all /\ held' = <<>> /\ expected' = 0
          ELSE completed' = <<>> /\ held' = all /\ expected' = total
  BY DEF Gather, InHand, len, left
<1>11. enabled /\ enabled'
  BY <1>10 DEF AclInv, InStepFragments
<1> HIDE DEF all
<1>12. inStep => Len(due) = total /\ (all \o left) \o rest = due /\ due \in Packet /\ due \in Seq(Byte)
  BY <1>5, <1>8, <1>10, InStepDue, PacketType
<1>13. Len(left) <= EndpointLen
  BY <1>1, <1>3, <1>4, ReassemblyBounds
<1>14. CASE Len(all) = total
  <2>1. completed' = all /\ held' = <<>> /\ expected' = 0 /\ Len(held') = 0
    BY <1>10, <1>14
  <2>2. TypeOK'
    BY <2>1, <1>4, <1>5, <1>10, <1>13, ReassemblyBounds DEF AclInv, TypeOK
  <2>3. AclLengthsHonest'
    BY <2>1, <1>6, <1>9, <1>14 DEF AclLengthsHonest
  <2>4. inStep => all = due /\ left = <<>> /\ rest = <<>>
    <3> SUFFICES ASSUME inStep PROVE all = due /\ left = <<>> /\ rest = <<>>
      OBVIOUS
    <3>1. all \o (left \o rest) = due /\ left \o rest \in Seq(Byte)
      <4>1. (all \o left) \o rest = all \o (left \o rest)
        BY <1>1, <1>4, <1>5, Regrouped
      <4> QED
        BY <4>1, <1>1, <1>4, <1>12, ConcatProperties
    <3>2. Len(left \o rest) = 0
      BY <3>1, <1>1, <1>4, <1>5, <1>12, <1>14, ConcatProperties, LenProperties
    <3>3. left \o rest = <<>>
      BY <3>1, <3>2, EmptySeq
    <3> QED
      BY <3>1, <3>3, <1>1, <1>4, <1>5, ConcatSimplifications, ConcatEmptySeq
  <2>5. AclStreamWhole'
    <3>1. (<<>> \o <<>>) \o <<>> = <<>>
      OBVIOUS
    <3> QED
      BY <2>1, <2>4, <3>1, <1>10 DEF AclStreamWhole
  <2>6. InStepFragments'
    BY <2>4, <1>10, <1>11 DEF InStepFragments
  <2> QED
    BY <2>1, <2>2, <2>3, <2>5, <2>6 DEF AclInv, HeldHonest
<1>15. CASE Len(all) # total
  <2>1. completed' = <<>> /\ held' = all /\ expected' = total /\ <<>> \in Seq(Byte)
    BY <1>10, <1>15
  <2>2. Len(all) < total
    BY <1>2, <1>6, <1>15
  <2>3. TypeOK'
    <3>1. Len(all) <= BufferLen /\ total \in 0..BufferLen
      BY <2>2, <1>2, <1>6, ReassemblyBounds
    <3> QED
      BY <2>1, <2>2, <3>1, <1>4, <1>5, <1>10, <1>13 DEF AclInv, TypeOK
  <2>4. AclLengthsHonest' /\ HeldHonest'
    BY <2>1, <1>6, <1>8, <1>9 DEF AclLengthsHonest, HeldHonest
  <2>5. AclStreamWhole'
    BY <2>1, <1>10, <1>12 DEF AclStreamWhole
  <2>6. InStepFragments'
    BY <2>1, <1>7, <1>11 DEF InStepFragments
  <2> QED
    BY <2>3, <2>4, <2>5, <2>6 DEF AclInv
<1> QED
  BY <1>14, <1>15

-----------------------------------------------------------------------------
(* The steps outside the fragment loop: nothing is in hand. *)
LEMMA WaitingTypes ==
    ASSUME AclInv, fragment = <<>>
    PROVE  /\ held \in Seq(Byte) /\ rest \in Seq(Byte)
           /\ held \o fragment = held
           /\ held \o fragment \o rest = held \o rest
<1>1. held \in Seq(Byte) /\ rest \in Seq(Byte)
  BY DEF AclInv, TypeOK
<1>2. held \o fragment = held
  BY <1>1, ConcatEmptySeq
<1> QED
  BY <1>1, <1>2

LEMMA NothingHeld ==
    ASSUME AclInv, fragment = <<>>, inStep, enabled, rest = <<>>
    PROVE  held = <<>>
<1>1. held \in Seq(Byte) /\ held \in {due, <<>>}
  BY WaitingTypes, ConcatEmptySeq DEF AclInv, AclStreamWhole
<1> SUFFICES ASSUME held # <<>> PROVE FALSE
  OBVIOUS
<1>2. held = due /\ due \in Packet
  BY <1>1 DEF AclInv, TypeOK
<1>3. Len(held) >= HeaderLen /\ expected = TotalLen(held) /\ ~Bad(expected)
  BY DEF AclInv, HeldHonest
<1>4. TotalLen(held) = TrueLen(held)
  BY <1>1, <1>3, LengthOfHeader
<1>5. TrueLen(held) = Len(held)
  BY <1>2, PacketType
<1> QED
  BY <1>1, <1>3, <1>4, <1>5, LenProperties DEF AclInv, TypeOK

LEMMA BeginStep ==
    ASSUME AclInv, NEW p \in Packet, BeginPacket(p)
    PROVE  AclInv'
<1>1. /\ fragment = <<>> /\ rest = <<>> /\ completed' = <<>>
      /\ rest' = p /\ due' = p
      /\ UNCHANGED <<enabled, held, expected, fragment, inStep>>
  BY DEF BeginPacket, Waiting, reassembly
<1>2. p \in Seq(Byte) /\ <<>> \in Seq(Byte)
  BY PacketType
<1>3. TypeOK'
  BY <1>1, <1>2 DEF AclInv, TypeOK
<1>4. inStep /\ enabled => held = <<>>
  BY <1>1, NothingHeld
<1>5. (<<>> \o <<>>) \o p = p
  BY <1>2, ConcatEmptySeq
<1>6. AclStreamWhole'
  BY <1>1, <1>4, <1>5 DEF AclStreamWhole
<1> QED
  BY <1>1, <1>3, <1>6
     DEF AclInv, HeldHonest, AclLengthsHonest, InStepFragments

LEMMA FragmentStep ==
    ASSUME AclInv, FragmentArrives
    PROVE  AclInv'
<1> DEFINE len == Least(Len(rest), EndpointLen)
<1>1. /\ fragment = <<>> /\ rest # <<>> /\ completed' = <<>>
      /\ rest' = Drop(rest, len)
      /\ fragment' = IF enabled THEN Take(rest, len) ELSE <<>>
      /\ inStep' = (inStep /\ enabled)
      /\ UNCHANGED <<enabled, held, expected, due>>
  BY DEF FragmentArrives, Waiting, reassembly
<1>2. held \in Seq(Byte) /\ rest \in Seq(Byte) /\ Len(rest) \in Nat /\ EndpointLen \in Nat
  BY <1>1, WaitingTypes, LenProperties, ReassemblyBounds
<1>3. len \in 0..Len(rest) /\ len <= EndpointLen /\ len \in {Len(rest), EndpointLen}
  BY <1>2, LeastType
<1> HIDE DEF len
<1>4. /\ Take(rest, len) \in Seq(Byte) /\ Len(Take(rest, len)) = len
      /\ Drop(rest, len) \in Seq(Byte) /\ Take(rest, len) \o Drop(rest, len) = rest
  BY <1>2, <1>3, TakeDrop
<1>5. <<>> \in Seq(Byte) /\ Len(<<>>) = 0
  OBVIOUS
<1>6. TypeOK'
  <2>1. fragment' \in Seq(Byte) /\ Len(fragment') <= EndpointLen
    BY <1>1, <1>2, <1>3, <1>4, <1>5, ReassemblyBounds DEF HeaderLen
  <2>2. inStep' \in BOOLEAN
    BY <1>1
  <2> QED
    BY <1>1, <1>4, <1>5, <2>1, <2>2 DEF AclInv, TypeOK
<1>7. inStep' => held \o rest \in {due, <<>>} /\ held' \o fragment' \o rest' = held \o rest
  <2> SUFFICES ASSUME inStep' PROVE held \o rest \in {due, <<>>} /\ held' \o fragment' \o rest' = held \o rest
    OBVIOUS
  <2>1. inStep /\ enabled
    BY <1>1
  <2>2. held \o rest \in {due, <<>>}
    BY <2>1, <1>1, WaitingTypes DEF AclInv, AclStreamWhole
  <2>3. held' \o fragment' \o rest' = (held \o Take(rest, len)) \o Drop(rest, len)
    BY <1>1, <2>1
  <2>4. (held \o Take(rest, len)) \o Drop(rest, len) = held \o (Take(rest, len) \o Drop(rest, len))
    BY <1>2, <1>4, Regrouped
  <2> QED
    BY <2>2, <2>3, <2>4, <1>4
<1>8. AclStreamWhole'
  BY <1>1, <1>7 DEF AclStreamWhole
<1>9. ASSUME inStep', held' = <<>>, fragment' # <<>>
      PROVE  Len(fragment') >= HeaderLen
  <2>1. inStep /\ enabled /\ held = <<>>
    BY <1>1, <1>9
  <2>2. rest \in {due, <<>>}
    BY <1>2, <1>7, <1>9, <2>1, ConcatEmptySeq
  <2>3. rest \in Packet
    BY <2>2, <1>1 DEF AclInv, TypeOK
  <2>4. Len(rest) >= HeaderLen
    BY <2>3, PacketType, ReassemblyBounds DEF HeaderLen
  <2> QED
    BY <1>1, <1>2, <1>3, <1>4, <2>1, <2>4, ReassemblyBounds DEF HeaderLen
<1>10. InStepFragments'
  BY <1>1, <1>9 DEF AclInv, InStepFragments
<1> QED
  BY <1>1, <1>6, <1>8, <1>10 DEF AclInv, HeldHonest, AclLengthsHonest

(* The bus and the switching of the bridge. *)
LEMMA SwitchStep ==
    ASSUME AclInv, BusReset \/ Enable \/ Disable
    PROVE  AclInv'
<1>1. fragment = <<>> /\ fragment' = <<>> /\ completed' = <<>> /\ due' = due /\ <<>> \in Seq(Byte)
  BY DEF BusReset, Enable, Disable, Waiting
<1>2. held \in Seq(Byte) /\ rest \in Seq(Byte) /\ held \o fragment = held
  BY <1>1, WaitingTypes
<1>3. (<<>> \o <<>>) \o <<>> = <<>> /\ (<<>> \o <<>>) \o rest = rest
  BY <1>2, ConcatEmptySeq
<1>4. CASE BusReset
  <2>1. /\ rest' = <<>> /\ inStep' = (inStep /\ held = <<>>)
        /\ UNCHANGED <<enabled, held, expected>>
    BY <1>4 DEF BusReset, reassembly
  <2>2. TypeOK'
    BY <1>1, <2>1 DEF AclInv, TypeOK
  <2> QED
    BY <1>1, <1>3, <2>1, <2>2
       DEF AclInv, HeldHonest, AclLengthsHonest, InStepFragments, AclStreamWhole
<1>5. CASE Enable
  <2>1. /\ ~enabled /\ enabled' = TRUE /\ inStep' = (rest \in {due, <<>>})
        /\ UNCHANGED <<held, expected, rest>>
    BY <1>5 DEF Enable, reassembly
  <2>2. held = <<>>
    BY <2>1 DEF AclInv, InStepFragments
  <2>3. TypeOK'
    BY <1>1, <2>1 DEF AclInv, TypeOK
  <2> QED
    BY <1>1, <1>3, <2>1, <2>2, <2>3
       DEF AclInv, HeldHonest, AclLengthsHonest, InStepFragments, AclStreamWhole
<1>6. CASE Disable
  <2>1. /\ enabled' = FALSE /\ held' = <<>> /\ expected' = 0 /\ Len(<<>>) = 0
        /\ inStep' = (inStep /\ rest \in {due, <<>>}) /\ rest' = rest
    BY <1>6 DEF Disable
  <2>2. TypeOK'
    <3>1. 0 \in 0..BufferLen /\ 0 <= BufferLen
      BY ReassemblyBounds
    <3> QED
      BY <1>1, <2>1, <3>1 DEF AclInv, TypeOK
  <2> QED
    BY <1>1, <2>1, <2>2
       DEF AclInv, HeldHonest, AclLengthsHonest, InStepFragments, AclStreamWhole
<1> QED
  BY <1>4, <1>5, <1>6

-----------------------------------------------------------------------------
(* The fragment loop.  In step no fragment is dropped. *)
LEMMA DropStep ==
    ASSUME AclInv, DropFragment
    PROVE  ~inStep /\ AclInv'
<1>1. /\ fragment # <<>> /\ held = <<>> /\ held' = held
      /\ fragment' = <<>> /\ completed' = <<>> /\ <<>> \in Seq(Byte) /\ Len(<<>>) = 0
      /\ expected' \in {expected, 0}
      /\ UNCHANGED <<enabled, rest, due, inStep>>
  BY DEF DropFragment, InHand
<1>2. fragment \in Seq(Byte) /\ held \o fragment = fragment
  BY <1>1, ConcatEmptySeq DEF AclInv, TypeOK
<1>3. ~inStep
  <2> SUFFICES ASSUME inStep PROVE FALSE
    OBVIOUS
  <2>1. Len(fragment) >= HeaderLen
    BY <1>1 DEF AclInv, InStepFragments
  <2>2. due \in Packet /\ Len(due) = TotalLen(fragment)
    BY <1>1, <1>2, <2>1, InStepDue
  <2>3. ~Bad(TotalLen(fragment))
    BY <2>2, PacketType, ReassemblyBounds DEF Bad, HeaderLen
  <2> QED
    BY <2>1, <2>3 DEF DropFragment
<1>4. TypeOK'
  BY <1>1, ReassemblyBounds DEF AclInv, TypeOK
<1> QED
  BY <1>1, <1>3, <1>4
     DEF AclInv, HeldHonest, AclLengthsHonest, InStepFragments, AclStreamWhole

LEMMA GatherFirstStep ==
    ASSUME AclInv, GatherFirst
    PROVE  AclInv'
<1>1. /\ InHand /\ held = <<>> /\ Len(fragment) >= HeaderLen
      /\ ~Bad(TotalLen(fragment)) /\ Gather(TotalLen(fragment))
  BY DEF GatherFirst
<1>2. fragment \in Seq(Byte) /\ held \o fragment = fragment
  BY <1>1, ConcatEmptySeq DEF AclInv, TypeOK
<1>3. TotalLen(fragment) \in HeaderLen..BufferLen
  BY <1>1, <1>2, LengthOfHeader, ReassemblyBounds DEF Bad, HeaderLen
<1>4. Len(held) < TotalLen(fragment)
  BY <1>1, <1>3 DEF HeaderLen
<1> QED
  BY <1>1, <1>2, <1>3, <1>4, GatherStep

LEMMA GatherMoreStep ==
    ASSUME AclInv, GatherMore
    PROVE  AclInv'
<1>1. /\ InHand /\ held # <<>> /\ Gather(expected)
      /\ held \in Seq(Byte) /\ fragment \in Seq(Byte)
      /\ Len(held) < expected /\ expected \in 0..BufferLen
  BY DEF GatherMore, AclInv, TypeOK
<1>2. Len(held) >= HeaderLen /\ expected = TotalLen(held) /\ ~Bad(expected)
  BY <1>1 DEF AclInv, HeldHonest
<1>3. TotalLen(held \o fragment) = expected
  BY <1>1, <1>2, SameHeader
<1>4. expected \in HeaderLen..BufferLen
  BY <1>1, <1>2, ReassemblyBounds DEF Bad, HeaderLen
<1> QED
  BY <1>1, <1>2, <1>3, <1>4, GatherStep

LEMMA AclStep == AclInv /\ [Next]_aclVars => AclInv'
<1> SUFFICES ASSUME AclInv, [Next]_aclVars PROVE AclInv'
  OBVIOUS
<1>1. CASE UNCHANGED aclVars
  BY <1>1 DEF aclVars, reassembly, AclInv, TypeOK, HeldHonest, AclLengthsHonest,
              InStepFragments, AclStreamWhole
<1>2. CASE Next
  BY <1>2, BeginStep, FragmentStep, SwitchStep, DropStep, GatherFirstStep, GatherMoreStep
     DEF Next
<1> QED
  BY <1>1, <1>2

-----------------------------------------------------------------------------
(* The buffer, the lengths and the stream hold together, for all values of  *)
(* the constants.                                                           *)
THEOREM AclInvariant == Spec => []AclInv
BY AclInit, AclStep, PTL DEF Spec

(* The buffer is never written past its end, whatever arrives.             *)
THEOREM AclTypeCorrect == Spec => []TypeOK
<1>1. AclInv => TypeOK
  BY DEF AclInv
<1> QED
  BY <1>1, AclInvariant, PTL

(* While the stream is in step, what is gathered, in hand and to come is    *)
(* the packet of the PC, and what is queued is that packet.                 *)
THEOREM AclBoundariesKept == Spec => []AclStreamWhole
<1>1. AclInv => AclStreamWhole
  BY DEF AclInv
<1> QED
  BY <1>1, AclInvariant, PTL

(* In step and out of it, what is queued is as long as its header says.     *)
THEOREM AclHonest == Spec => []AclLengthsHonest
<1>1. AclInv => AclLengthsHonest
  BY DEF AclInv
<1> QED
  BY <1>1, AclInvariant, PTL

(* A fragment is dropped only when the stream is out of step already.       *)
THEOREM NoDropInStep == Spec => [][DropFragment => ~inStep]_aclVars
<1>1. AclInv /\ [Next]_aclVars => [DropFragment => ~inStep]_aclVars
  BY DropStep
<1> QED
  BY <1>1, AclInvariant, PTL DEF Spec
=============================================================================
