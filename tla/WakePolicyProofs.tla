--------------------------- MODULE WakePolicyProofs ---------------------------
(***************************************************************************)
(* Proofs about the wake peers and the button that clears them, for every   *)
(* size of the table, every set of peers, delay, poll interval and hold     *)
(* time: the table stays a prefix of distinct peers, the flash holds it     *)
(* when no save is left to be done, it implements the list in order of use, *)
(* the packets are read as they are meant and teach peers, and the list is  *)
(* cleared only after the whole hold.                                       *)
(***************************************************************************)
EXTENDS WakePolicy, AdvertisingProofs, FiniteSetTheorems

(* The first n entries are used, by distinct peers, and no others. *)
Packed(table, n) ==
    /\ table \in Table /\ n \in 0..MaxPeers
    /\ \A i \in 1..n : table[i] \in Peer
    /\ \A i \in n + 1..MaxPeers : table[i] = Free
    /\ \A i, j \in 1..n : table[i] = table[j] => i = j

(* Between the erasing and the programming the flash holds no table. *)
ErasedIsEmpty == saving = "erased" => flash = NoTable

PeerInv == TypeOK /\ PeersCompact /\ ErasedIsEmpty /\ StoreIsCurrent

-----------------------------------------------------------------------------
(* Lemmas about tables. *)
LEMMA PackedUses ==
    ASSUME NEW table, NEW n, Packed(table, n)
    PROVE  InUse(table) = 1..n /\ Count(table) = n /\ Compact(table)
<1>1. MaxPeers \in Nat /\ n \in Nat /\ n <= MaxPeers /\ Free \notin Peer
  BY PeerBounds DEF Packed
<1>2. \A i \in Index : table[i] # Free <=> i \in 1..n
  <2> TAKE i \in Index
  <2>1. CASE i \in 1..n
    BY <2>1, <1>1 DEF Packed
  <2>2. CASE i \notin 1..n
    <3>1. i \in n + 1..MaxPeers
      BY <2>2, <1>1 DEF Index
    <3> QED
      BY <2>2, <3>1 DEF Packed
  <2> QED
    BY <2>1, <2>2
<1>3. 1..n \subseteq Index
  BY <1>1 DEF Index
<1>4. InUse(table) = 1..n
  BY <1>2, <1>3 DEF InUse
<1>5. Cardinality(1..n) = n
  BY <1>1, FS_Interval
<1>6. Compact(table)
  <2>1. \A i, j \in 1..n : table[i] = table[j] => i = j
    BY DEF Packed
  <2>2. \A i \in 1..n : \A j \in 1..i : j \in 1..n
    BY <1>1
  <2> QED
    BY <1>4, <2>1, <2>2 DEF Compact
<1>7. Count(table) = n
  BY <1>4, <1>5, Zenon DEF Count
<1> QED
  BY <1>4, <1>6, <1>7, Zenon

LEMMA CompactIsPacked ==
    ASSUME NEW table \in Table, Compact(table)
    PROVE  Packed(table, Count(table))
<1> DEFINE used == InUse(table)
           n    == Cardinality(used)
<1>1. MaxPeers \in Nat /\ used \subseteq 1..MaxPeers
  BY PeerBounds DEF InUse, Index
<1>2. IsFiniteSet(1..MaxPeers) /\ Cardinality(1..MaxPeers) = MaxPeers
  BY <1>1, FS_Interval
<1>3. IsFiniteSet(used) /\ n <= MaxPeers /\ n \in Nat
  BY <1>1, <1>2, FS_Subset, FS_CardinalityType
<1>4. ASSUME NEW i \in used PROVE i \in 1..n
  <2>1. i \in Nat /\ i >= 1
    BY <1>1
  <2>2. 1..i \subseteq used
    BY DEF Compact
  <2>3. Cardinality(1..i) = i
    BY <2>1, FS_Interval
  <2>4. i <= n
    <3>1. Cardinality(1..i) <= Cardinality(used)
      BY <2>2, <1>3, FS_Subset, Zenon
    <3> QED
      BY <2>3, <3>1
  <2> QED
    BY <2>1, <2>4, <1>3
<1>5. used = 1..n
  <2>1. used \subseteq 1..n
    BY <1>4
  <2>2. IsFiniteSet(1..n) /\ Cardinality(1..n) = n
    BY <1>3, FS_Interval
  <2> QED
    BY <2>1, <2>2, FS_Subset
<1>6. \A i \in 1..n : table[i] \in Peer
  <2> SUFFICES ASSUME NEW i \in used PROVE table[i] \in Peer
    BY <1>5
  <2> QED
    BY DEF InUse, Table
<1>7. \A i \in n + 1..MaxPeers : table[i] = Free
  <2> SUFFICES ASSUME NEW i \in n + 1..MaxPeers PROVE i \in Index /\ i \notin used
    BY DEF InUse
  <2> QED
    BY <1>1, <1>3, <1>5 DEF Index
<1>8. \A i, j \in 1..n : table[i] = table[j] => i = j
  BY <1>5 DEF Compact
<1>9. n = Count(table)
  BY Zenon DEF Count
<1> HIDE DEF n, used
<1>10. n \in 0..MaxPeers
  BY <1>1, <1>3
<1> QED
  BY <1>6, <1>7, <1>8, <1>9, <1>10 DEF Packed
(* An entry is removed: those behind it move down, and it is gone. *)
LEMMA RemovedPacked ==
    ASSUME NEW table, NEW n, Packed(table, n), NEW i \in 1..n
    PROVE  /\ Packed(Removed(table, i), n - 1)
           /\ \A j \in 1..(n - 1) : Removed(table, i)[j] = table[IF j < i THEN j ELSE j + 1]
           /\ \A j \in 1..(n - 1) : Removed(table, i)[j] # table[i]
<1> DEFINE left == Removed(table, i)
<1>1. /\ MaxPeers \in Nat /\ n \in Nat /\ n <= MaxPeers /\ Free \notin Peer
      /\ i \in Nat /\ i >= 1 /\ i <= n /\ table \in Table
  BY PeerBounds DEF Packed
<1>2. \A j \in Index : j \in Nat /\ j >= 1 /\ j <= MaxPeers /\ (j < MaxPeers => j + 1 \in Index)
  BY <1>1 DEF Index
<1>3. left = [j \in Index |-> IF j < i THEN table[j] ELSE IF j < MaxPeers THEN table[j + 1] ELSE Free]
  BY DEF Removed
<1>4. left \in Table
  <2>1. \A j \in Index : table[j] \in Peer \cup {Free}
    BY <1>1 DEF Table
  <2> QED
    BY <1>2, <1>3, <2>1 DEF Table
<1> HIDE DEF left
<1>5. \A j \in 1..(n - 1) : left[j] = table[IF j < i THEN j ELSE j + 1]
  <2> TAKE j \in 1..(n - 1)
  <2>1. j \in Index /\ j < MaxPeers
    BY <1>1 DEF Index
  <2> QED
    BY <2>1, <1>3
<1>6. \A j \in 1..(n - 1) : left[j] \in Peer /\ left[j] # table[i]
  <2> TAKE j \in 1..(n - 1)
  <2>1. PICK k \in 1..n : k # i /\ left[j] = table[k]
    <3>1. CASE j < i
      BY <3>1, <1>1, <1>5
    <3>2. CASE ~(j < i)
      BY <3>2, <1>1, <1>5
    <3> QED
      BY <3>1, <3>2
  <2> QED
    BY <2>1 DEF Packed
<1>7. \A j \in n..MaxPeers : left[j] = Free
  <2> TAKE j \in n..MaxPeers
  <2>1. j \in Index /\ ~(j < i)
    BY <1>1 DEF Index
  <2>2. j < MaxPeers => j + 1 \in n + 1..MaxPeers
    BY <1>1
  <2>3. j < MaxPeers => table[j + 1] = Free
    BY <2>2 DEF Packed
  <2> QED
    BY <2>1, <2>3, <1>3
<1>8. \A j, k \in 1..(n - 1) : left[j] = left[k] => j = k
  <2> SUFFICES ASSUME NEW j \in 1..(n - 1), NEW k \in 1..(n - 1), left[j] = left[k]
               PROVE  j = k
    OBVIOUS
  <2> DEFINE at(m) == IF m < i THEN m ELSE m + 1
  <2>1. at(j) \in 1..n /\ at(k) \in 1..n
    BY <1>1
  <2>2. table[at(j)] = table[at(k)]
    BY <1>5
  <2>3. at(j) = at(k)
    BY <2>1, <2>2 DEF Packed
  <2> QED
    BY <2>3, <1>1
<1>9. n - 1 \in 0..MaxPeers /\ (n - 1) + 1 = n
  BY <1>1
<1>10. Packed(left, n - 1)
  BY <1>4, <1>6, <1>7, <1>8, <1>9 DEF Packed
<1> QED
  BY <1>5, <1>6, <1>10 DEF left

(* A peer that is not in the table is written behind the others. *)
LEMMA WrittenPacked ==
    ASSUME NEW table, NEW n, Packed(table, n), n < MaxPeers,
           NEW p \in Peer, \A j \in 1..n : table[j] # p
    PROVE  /\ Packed(Written(table, p), n + 1)
           /\ \A j \in 1..n : Written(table, p)[j] = table[j]
           /\ Written(table, p)[n + 1] = p
<1> DEFINE more == Written(table, p)
<1>1. MaxPeers \in Nat /\ n \in Nat /\ table \in Table
  BY PeerBounds DEF Packed
<1>2. Count(table) = n
  BY PackedUses
<1>3. more = [table EXCEPT ![n + 1] = p]
  BY <1>2, Zenon DEF Written
<1> HIDE DEF more
<1>4. n + 1 \in Index /\ DOMAIN table = Index
  BY <1>1 DEF Index, Table
<1>5. more \in Table
  BY <1>1, <1>3 DEF Table
<1>6. more[n + 1] = p
  BY <1>3, <1>4
<1>7. \A j \in 1..n : more[j] = table[j]
  <2> TAKE j \in 1..n
  <2>1. j # n + 1 /\ j \in Index
    BY <1>1 DEF Index
  <2> QED
    BY <2>1, <1>3, <1>4
<1>8. \A j \in (n + 1) + 1..MaxPeers : more[j] = Free
  <2> TAKE j \in (n + 1) + 1..MaxPeers
  <2>1. j # n + 1 /\ j \in Index /\ j \in n + 1..MaxPeers
    BY <1>1 DEF Index
  <2>2. table[j] = Free
    BY <2>1 DEF Packed
  <2> QED
    BY <2>1, <2>2, <1>3, <1>4
<1>9. \A j \in 1..n + 1 : j \in 1..n \/ j = n + 1
  BY <1>1
<1>10. \A j \in 1..n : table[j] \in Peer
  BY DEF Packed
<1>11. \A j \in 1..n + 1 : more[j] \in Peer
  BY <1>6, <1>7, <1>9, <1>10
<1>12. \A j, k \in 1..n + 1 : more[j] = more[k] => j = k
  BY <1>6, <1>7, <1>9 DEF Packed
<1>13. n + 1 \in 0..MaxPeers
  BY <1>1
<1>14. Packed(more, n + 1)
  BY <1>5, <1>8, <1>11, <1>12, <1>13 DEF Packed
<1> QED
  BY <1>6, <1>7, <1>14 DEF more

(* A stored table is read back as it was written. *)
LEMMA NothingPacked == NoPeers \in Table /\ Packed(NoPeers, 0)
<1>1. NoPeers \in Table
  BY DEF NoPeers, Table
<1>2. \A i \in 0 + 1..MaxPeers : NoPeers[i] = Free
  BY PeerBounds DEF NoPeers, Index
<1> QED
  BY <1>1, <1>2, PeerBounds DEF Packed

LEMMA LoadedAsStored ==
    ASSUME NEW table, NEW n, Packed(table, n)
    PROVE  Load(table) = table /\ table # NoTable
<1>1. /\ MaxPeers \in Nat /\ MaxPeers >= 1 /\ n \in Nat /\ n <= MaxPeers /\ table \in Table
      /\ DOMAIN table = Index
  BY PeerBounds DEF Packed, Table
<1>2. InUse(table) = 1..n /\ Count(table) = n
  BY PackedUses
<1>3. table # NoTable
  <2>1. 1 \in DOMAIN table
    BY <1>1 DEF Index
  <2>2. 1 \notin DOMAIN <<>>
    OBVIOUS
  <2> QED
    BY <2>1, <2>2 DEF NoTable
<1>4. \A i \in 1..n : Place(table, i) = i
  <2> TAKE i \in 1..n
  <2>1. {j \in InUse(table) : j <= i} = 1..i
    BY <1>1, <1>2
  <2>2. Cardinality(1..i) = i
    BY <1>1, FS_Interval
  <2> QED
    BY <2>1, <2>2, Zenon DEF Place
<1> DEFINE entry(k) == IF \E i \in InUse(table) : i <= Count(table) /\ Place(table, i) = k
                       THEN table[CHOOSE i \in InUse(table) : Place(table, i) = k]
                       ELSE Free
<1>5. Load(table) = [k \in Index |-> entry(k)]
  BY <1>3, Zenon DEF Load
<1>6. \A k \in Index : entry(k) = table[k]
  <2> TAKE k \in Index
  <2>1. CASE k \in 1..n
    <3>1. k \in InUse(table) /\ k <= Count(table) /\ Place(table, k) = k
      BY <2>1, <1>1, <1>2, <1>4
    <3>2. \A i \in InUse(table) : Place(table, i) = k => i = k
      BY <1>2, <1>4
    <3>3. (CHOOSE i \in InUse(table) : Place(table, i) = k) = k
      BY <3>1, <3>2, Zenon
    <3> QED
      BY <3>1, <3>3, Zenon
  <2>2. CASE k \notin 1..n
    <3>1. ~ \E i \in InUse(table) : i <= Count(table) /\ Place(table, i) = k
      BY <2>2, <1>2, <1>4
    <3>2. k \in n + 1..MaxPeers
      BY <2>2, <1>1 DEF Index
    <3>3. table[k] = Free
      BY <3>2 DEF Packed
    <3> QED
      BY <3>1, <3>3, Zenon
  <2> QED
    BY <2>1, <2>2
<1> HIDE DEF entry
<1>7. Load(table) = table
  BY <1>1, <1>5, <1>6 DEF Table
<1> QED
  BY <1>3, <1>7

-----------------------------------------------------------------------------
(* The steps of the peers. *)
Size == Count(peers)

LEMMA TablesPacked ==
    ASSUME PeerInv
    PROVE  /\ peers \in Table /\ Packed(peers, Size) /\ Size \in 0..MaxPeers
           /\ flash # NoTable =>
                  flash \in Table /\ Packed(flash, Count(flash)) /\ Load(flash) = flash
           /\ flash = NoTable => Load(flash) = NoPeers
           /\ Load(flash) \in Table /\ Packed(Load(flash), Count(Load(flash)))
<1>1. peers \in Table /\ Compact(peers) /\ flash \in Table \cup {NoTable}
      /\ (flash # NoTable => Compact(flash))
  BY DEF PeerInv, TypeOK, PeersCompact
<1>2. Packed(peers, Size) /\ Size \in 0..MaxPeers
  <2>1. Packed(peers, Size)
    BY <1>1, CompactIsPacked DEF Size
  <2> QED
    BY <2>1 DEF Packed
<1>3. flash # NoTable =>
          flash \in Table /\ Packed(flash, Count(flash)) /\ Load(flash) = flash
  BY <1>1, CompactIsPacked, LoadedAsStored
<1>4. flash = NoTable => Load(flash) = NoPeers
  BY DEF Load
<1>5. Load(flash) \in Table /\ Packed(Load(flash), Count(Load(flash)))
  <2>1. Packed(NoPeers, Count(NoPeers)) /\ NoPeers \in Table
    BY NothingPacked, PackedUses
  <2> QED
    BY <1>3, <1>4, <2>1, Zenon
<1> QED
  BY <1>1, <1>2, <1>3, <1>4, <1>5

(* What a packet that teaches a peer does to the table: a new peer is       *)
(* written behind the others, for which a full table loses its first, one   *)
(* that is known moves to the end, and the newest stays where it is.        *)
WrittenNew(p) ==
    /\ \A i \in 1..Size : peers[i] # p
    /\ peers' = Appended(peers, p)

MovedToEnd(p) ==
    \E i \in 1..Size : i # Size /\ peers[i] = p /\ peers' = Written(Removed(peers, i), p)

LEMMA RememberIs ==
    ASSUME PeerInv, NEW p \in Peer, Remember(p)
    PROVE  /\ saving = "no" /\ UNCHANGED <<saving, flash, saveFailed>>
           /\ \/ (WrittenNew(p) \/ MovedToEnd(p)) /\ MarkDirty
              \/ UNCHANGED <<peers, dirty, dirtyTimer>>
<1>1. saving = "no" /\ UNCHANGED <<saving, flash, saveFailed>>
  BY DEF Remember
<1>2. Packed(peers, Size) /\ MaxPeers \in Nat /\ Size \in 0..MaxPeers /\ Free \notin Peer
  BY TablesPacked, PeerBounds
<1>3. CASE LearnNew(p)
  <2>1. ASSUME NEW i \in 1..Size, peers[i] = p PROVE FALSE
    <3>1. \A j \in 1..(i - 1) : j \in 1..Size /\ j # i
      BY <1>2
    <3>2. \A j \in 1..(i - 1) : peers[j] # p
      BY <2>1, <3>1, <1>2 DEF Packed
    <3>3. i \in Index
      BY <1>2 DEF Index
    <3>4. i \in FirstMatch(p)
      BY <2>1, <3>2, <3>3 DEF FirstMatch
    <3> QED
      BY <3>4, <1>3 DEF LearnNew
  <2> QED
    BY <1>1, <1>3, <2>1 DEF LearnNew, WrittenNew
<1>4. CASE Refresh(p)
  <2>1. PICK i \in FirstMatch(p) : i # Count(peers) /\ peers' = Written(Removed(peers, i), p) /\ MarkDirty
    BY <1>4 DEF Refresh
  <2>2. i \in Index /\ peers[i] = p
    BY DEF FirstMatch
  <2>3. i \in 1..Size
    <3>1. i \notin 1..Size => i \in Size + 1..MaxPeers
      BY <1>2, <2>2 DEF Index
    <3>2. i \in Size + 1..MaxPeers => peers[i] = Free
      BY <1>2 DEF Packed
    <3> QED
      BY <3>1, <3>2, <2>2, <1>2
  <2> QED
    BY <1>1, <2>1, <2>2, <2>3 DEF MovedToEnd, Size
<1>5. CASE AlreadyNewest(p)
  BY <1>1, <1>5 DEF AlreadyNewest
<1> QED
  BY <1>3, <1>4, <1>5 DEF Remember

LEMMA NewIsPacked ==
    ASSUME PeerInv, NEW p \in Peer, WrittenNew(p)
    PROVE  /\ Size < MaxPeers =>
                  /\ Packed(peers', Size + 1) /\ peers'[Size + 1] = p
                  /\ \A j \in 1..Size : peers'[j] = peers[j]
           /\ Size = MaxPeers =>
                  /\ Packed(peers', Size) /\ peers'[Size] = p
                  /\ \A j \in 1..(Size - 1) : peers'[j] = peers[j + 1]
<1>1. /\ Packed(peers, Size) /\ Size \in 0..MaxPeers /\ MaxPeers \in Nat /\ MaxPeers >= 1
      /\ Count(peers) = Size
  BY TablesPacked, PeerBounds DEF Size
<1>2. \A i \in 1..Size : peers[i] # p
  BY DEF WrittenNew
<1>3. CASE Size < MaxPeers
  <2>1. peers' = Written(peers, p)
    BY <1>1, <1>3 DEF WrittenNew, Appended
  <2> QED
    BY <1>1, <1>2, <1>3, <2>1, WrittenPacked
<1>4. CASE Size = MaxPeers
  <2> DEFINE left == Removed(peers, 1)
  <2>1. peers' = Written(left, p)
    BY <1>1, <1>4 DEF WrittenNew, Appended
  <2>2. 1 \in 1..Size
    BY <1>1, <1>4
  <2>3. /\ Packed(left, Size - 1)
        /\ \A j \in 1..(Size - 1) : left[j] = peers[IF j < 1 THEN j ELSE j + 1]
    BY <1>1, <2>2, RemovedPacked
  <2> HIDE DEF left
  <2>4. \A j \in 1..(Size - 1) : left[j] = peers[j + 1] /\ j + 1 \in 1..Size
    BY <1>1, <2>3
  <2>5. \A j \in 1..(Size - 1) : left[j] # p
    BY <1>2, <2>4
  <2>6. Size - 1 < MaxPeers /\ (Size - 1) + 1 = Size
    BY <1>1, <1>4
  <2>7. /\ Packed(peers', (Size - 1) + 1) /\ peers'[(Size - 1) + 1] = p
        /\ \A j \in 1..(Size - 1) : peers'[j] = left[j]
    BY <2>1, <2>3, <2>5, <2>6, WrittenPacked
  <2>8. ~(Size < MaxPeers)
    BY <1>1, <1>4
  <2>9. Packed(peers', Size) /\ peers'[Size] = p
    BY <2>6, <2>7, Zenon
  <2>10. \A j \in 1..(Size - 1) : peers'[j] = peers[j + 1]
    BY <2>4, <2>7
  <2> QED
    BY <2>8, <2>9, <2>10, Zenon
<1> QED
  BY <1>1, <1>3, <1>4

LEMMA MovedIsPacked ==
    ASSUME PeerInv, NEW p \in Peer, NEW i \in 1..Size, peers[i] = p,
           peers' = Written(Removed(peers, i), p)
    PROVE  /\ Packed(peers', Size) /\ peers'[Size] = p
           /\ \A j \in 1..(Size - 1) : peers'[j] = peers[IF j < i THEN j ELSE j + 1]
<1> DEFINE left == Removed(peers, i)
<1>1. Packed(peers, Size) /\ Size \in 0..MaxPeers /\ MaxPeers \in Nat
  BY TablesPacked, PeerBounds
<1>2. /\ Packed(left, Size - 1)
      /\ \A j \in 1..(Size - 1) : left[j] = peers[IF j < i THEN j ELSE j + 1]
      /\ \A j \in 1..(Size - 1) : left[j] # p
  BY <1>1, RemovedPacked
<1> HIDE DEF left
<1>3. Size - 1 < MaxPeers /\ (Size - 1) + 1 = Size
  BY <1>1
<1>4. peers' = Written(left, p)
  BY DEF left
<1>5. /\ Packed(peers', (Size - 1) + 1) /\ peers'[(Size - 1) + 1] = p
      /\ \A j \in 1..(Size - 1) : peers'[j] = left[j]
  BY <1>2, <1>3, <1>4, WrittenPacked
<1> QED
  BY <1>2, <1>3, <1>5

LEMMA RememberStays ==
    ASSUME PeerInv, NEW p \in Peer, Remember(p)
    PROVE  PeerInv'
<1>1. /\ saving = "no" /\ UNCHANGED <<saving, flash, saveFailed>>
      /\ \/ (WrittenNew(p) \/ MovedToEnd(p)) /\ MarkDirty
         \/ UNCHANGED <<peers, dirty, dirtyTimer>>
  BY RememberIs
<1>2. CASE UNCHANGED <<peers, dirty, dirtyTimer>>
  BY <1>1, <1>2 DEF PeerInv, TypeOK, PeersCompact, ErasedIsEmpty, StoreIsCurrent
<1>3. CASE (WrittenNew(p) \/ MovedToEnd(p)) /\ MarkDirty
  <2>1. \E n : Packed(peers', n)
    <3>1. CASE WrittenNew(p)
      <4>1. Size < MaxPeers \/ Size = MaxPeers
        BY TablesPacked, PeerBounds
      <4> QED
        BY <3>1, <4>1, NewIsPacked
    <3>2. CASE MovedToEnd(p)
      <4>1. PICK i \in 1..Size : peers[i] = p /\ peers' = Written(Removed(peers, i), p)
        BY <3>2 DEF MovedToEnd
      <4> QED
        BY <4>1, MovedIsPacked
    <3> QED
      BY <1>3, <3>1, <3>2
  <2>2. peers' \in Table /\ Compact(peers')
    BY <2>1, PackedUses DEF Packed
  <2>3. dirty' = TRUE /\ dirtyTimer' \in 0..SaveDelayTicks
    BY <1>3, PeerBounds DEF MarkDirty
  <2>4. TypeOK'
    BY <1>1, <2>2, <2>3 DEF PeerInv, TypeOK
  <2>5. PeersCompact' /\ ErasedIsEmpty' /\ StoreIsCurrent'
    BY <1>1, <2>2, <2>3 DEF PeerInv, PeersCompact, ErasedIsEmpty, StoreIsCurrent
  <2> QED
    BY <2>4, <2>5 DEF PeerInv
<1> QED
  BY <1>1, <1>2, <1>3

LEMMA OtherPeerSteps ==
    ASSUME PeerInv, SaveStep \/ ClearKnownPeers \/ PowerCycle \/ PeerTick
    PROVE  PeerInv'
<1>1. /\ TypeOK /\ Compact(peers) /\ (flash # NoTable => Compact(flash))
      /\ (saving = "erased" => flash = NoTable)
      /\ (~dirty /\ saving = "no" /\ ~saveFailed => Load(flash) = peers)
  BY DEF PeerInv, PeersCompact, ErasedIsEmpty, StoreIsCurrent
<1>2. /\ NoPeers \in Table /\ Compact(NoPeers)
      /\ Load(flash) \in Table /\ Compact(Load(flash)) /\ Load(peers) = peers
  BY NothingPacked, TablesPacked, PackedUses, LoadedAsStored
<1>3. 0 \in 0..SaveDelayTicks
  BY PeerBounds
<1> USE DEF PeerInv, TypeOK, PeersCompact, ErasedIsEmpty, StoreIsCurrent
<1>4. CASE TaskSaves
  BY <1>1, <1>4 DEF TaskSaves
<1>5. CASE SaveRefused
  BY <1>1, <1>5 DEF SaveRefused
<1>6. CASE Erase
  BY <1>1, <1>6 DEF Erase
<1>7. CASE Program
  BY <1>1, <1>2, <1>7 DEF Program
<1>8. CASE ProgramFails
  BY <1>1, <1>8 DEF ProgramFails
<1>9. CASE ClearKnownPeers
  BY <1>1, <1>2, <1>9 DEF ClearKnownPeers
<1>10. CASE PowerCycle
  BY <1>1, <1>2, <1>3, <1>10 DEF PowerCycle
<1>11. CASE PeerTick
  <2>1. UNCHANGED <<peers, dirty, saving, flash, saveFailed>> /\ dirtyTimer' = Down(dirtyTimer)
    BY <1>11 DEF PeerTick
  <2>2. dirtyTimer' \in 0..SaveDelayTicks
    BY <1>1, <2>1, PeerBounds DEF Down
  <2> QED
    BY <1>1, <2>1, <2>2
<1> QED
  BY <1>4, <1>5, <1>6, <1>7, <1>8, <1>9, <1>10, <1>11 DEF SaveStep

LEMMA PeerStep == PeerInv /\ [Next]_peerVars => PeerInv'
<1> SUFFICES ASSUME PeerInv, [Next]_peerVars PROVE PeerInv'
  OBVIOUS
<1>1. CASE UNCHANGED peerVars
  BY <1>1 DEF peerVars, PeerInv, TypeOK, PeersCompact, ErasedIsEmpty, StoreIsCurrent
<1> QED
  BY <1>1, RememberStays, OtherPeerSteps DEF Next

LEMMA PeerInit == Init => PeerInv
<1> SUFFICES ASSUME Init PROVE PeerInv
  OBVIOUS
<1>1. NoPeers \in Table /\ Compact(NoPeers) /\ Load(NoTable) = NoPeers
  BY NothingPacked, PackedUses DEF Load
<1>2. /\ peers = NoPeers /\ dirty = FALSE /\ dirtyTimer = 0 /\ saving = "no"
      /\ flash = NoTable /\ saveFailed = FALSE
  BY DEF Init
<1>3. dirty \in BOOLEAN /\ saveFailed \in BOOLEAN
  BY <1>2, Zenon
<1>4. TypeOK
  BY <1>1, <1>2, <1>3, PeerBounds DEF TypeOK
<1>5. PeersCompact /\ ErasedIsEmpty /\ StoreIsCurrent
  BY <1>1, <1>2 DEF PeersCompact, ErasedIsEmpty, StoreIsCurrent
<1> QED
  BY <1>4, <1>5 DEF PeerInv

(* The inductive invariant of the table and of its copy in flash. *)
THEOREM PeerInvariant == Spec => []PeerInv
<1> QED
  BY PeerInit, PeerStep, PTL DEF Spec

-----------------------------------------------------------------------------
(* What the packets teach. *)

(* The advertisements of standby are reports like any others. *)
LEMMA AdvertisedAreReports ==
    ASSUME NEW a \in Address
    PROVE  Advertised(a) \in Seq(Report)
<1> DEFINE first  == [event |-> 3, type |-> 0, addr |-> 9, ads |-> <<>>, cut |-> 0]
           second == [event |-> 4, type |-> a.type, addr |-> a.cell, ads |-> <<Stadia>>, cut |-> 0]
<1>1. Stadia \in Structure
  BY DEF Stadia, Structure
<1>2. <<>> \in Seq(Structure) /\ <<Stadia>> \in Seq(Structure)
  <2> HIDE DEF Stadia, Structure
  <2> QED
    BY <1>1
<1>3. a.type \in Nat /\ a.cell \in Nat
  BY DEF Address
<1>4. first \in Report /\ second \in Report
  <2> HIDE DEF Stadia, Structure
  <2> QED
    BY <1>2, <1>3 DEF Report
<1> HIDE DEF first, second
<1>5. <<first, second>> \in Seq(Report)
  BY <1>4
<1> QED
  BY <1>5 DEF Advertised, first, second

(* A packet teaches at most the peer that a report of it names.             *)
LEMMA ExpectedTeaches ==
    ASSUME NEW on, NEW known, NEW layout, NEW reports, NEW claimed \in Nat, NEW kept,
           NEW p \in Expected(on, known, layout, reports, claimed, kept).learn
    PROVE  \E n \in 1..claimed : /\ n <= Len(reports) /\ p = AddressOf(reports[n])
                                 /\ DataReasons(on, reports[n]) # {}
<1> DEFINE waking == {n \in 1..claimed :
                        /\ n <= Len(reports) /\ Extent(layout, reports, n) <= kept
                        /\ \/ ByAddress(on, known, layout, reports[n])
                           \/ DataReasons(on, reports[n]) # {}}
           n == Min(waking)
           r == reports[n]
<1>1. Wakes.learn = {} /\ Ignored.learn = {}
  BY DEF Wakes, Ignored
<1>2. Expected(on, known, layout, reports, claimed, kept)
        = IF layout = Legacy /\ "any" \in on THEN Wakes
          ELSE IF waking = {} THEN Ignored
          ELSE [wake  |-> TRUE,
                learn |-> IF ~ByAddress(on, known, layout, r) /\ "stadia" \in DataReasons(on, r)
                          THEN {AddressOf(r)} ELSE {}]
  BY Zenon DEF Expected
<1> HIDE DEF waking
<1>3. /\ waking # {} /\ p = AddressOf(r) /\ DataReasons(on, r) # {}
  <2> HIDE DEF n
  <2> QED
    BY <1>1, <1>2
<1>4. n \in waking
  <2>1. waking \subseteq Nat
    BY DEF waking
  <2>2. PICK k \in waking : \A i \in waking : k <= i
    BY <1>3, <2>1, LeastExists
  <2> QED
    BY <2>1, <2>2, MinIs
<1>5. n \in 1..claimed /\ n <= Len(reports)
  BY <1>4 DEF waking
<1> QED
  BY <1>3, <1>5

(* What the packets teach are peers that the table is modelled for: those   *)
(* of the host name the peer of the connection, and of the reports of an    *)
(* advertisement only the second, a Stadia controller's, is a reason by its *)
(* data.                                                                    *)
THEOREM PacketsTeachPeers ==
    HostTeaches \subseteq Peer /\ \A lesson \in StandbyTeaches : lesson[2] \subseteq Peer
<1>1. ASSUME NEW packet \in HostPackets PROVE LearnedByHost(packet) \subseteq Peer
  <2>1. PICK subevent \in {1, 10}, status \in {0, 2}, a \in Address :
           packet = Connection(subevent, status, a)
    BY DEF HostPackets
  <2>2. packet[8] = a.type /\ packet[9] = a.cell
    BY <2>1 DEF Connection
  <2> QED
    BY <2>2, AddressesArePeers DEF LearnedByHost
<1>2. ASSUME NEW known, NEW a \in Address
      PROVE  PacketMatches(WakeOptions, known, Advertisement(a)).learn \subseteq Peer
  <2> DEFINE reports == Advertised(a)
             bytes == ReportsBytes(Legacy, reports)
             l == Len(bytes)
  <2>1. reports \in Seq(Report)
    BY AdvertisedAreReports
  <2>2. Len(reports) = 2 /\ reports[1].ads = <<>>
        /\ reports[2].type = a.type /\ reports[2].addr = a.cell
    BY DEF Advertised
  <2> HIDE DEF reports
  <2>3. l \in 0..l
    <3>1. bytes \in Seq(Nat)
      BY <2>1, ReportsLie
    <3> QED
      BY <3>1, LenProperties
  <2>4. PacketMatches(WakeOptions, known, Advertisement(a))
          = Expected(WakeOptions, known, Legacy, reports, 2, l)
    <3>1. Agree(WakeOptions, known, Legacy, reports, bytes, 2, l)
      BY <2>1, <2>3, PacketsReadAsMeant
    <3> QED
      BY <3>1, Zenon DEF Agree, Advertisement, reports
  <2>5. DataReasons(WakeOptions, reports[1]) = {}
    <3>1. DOMAIN reports[1].ads = {}
      BY <2>2
    <3> QED
      BY <3>1 DEF DataReasons
  <2>6. AddressOf(reports[2]) \in Peer
    BY <2>2, AddressesArePeers DEF AddressOf
  <2>7. ASSUME NEW p \in Expected(WakeOptions, known, Legacy, reports, 2, l).learn
        PROVE  p \in Peer
    <3>1. PICK n \in 1..2 : p = AddressOf(reports[n]) /\ DataReasons(WakeOptions, reports[n]) # {}
      <4> HIDE DEF l
      <4> QED
        BY <2>7, ExpectedTeaches
    <3>2. n = 2
      BY <2>5, <3>1
    <3> QED
      BY <2>6, <3>1, <3>2
  <2> QED
    BY <2>4, <2>7
<1>3. HostTeaches \subseteq Peer
  BY <1>1 DEF HostTeaches
<1>4. ASSUME NEW lesson \in StandbyTeaches PROVE lesson[2] \subseteq Peer
  <2>1. PICK known \in SUBSET Peer, a \in Address :
           lesson = <<known, PacketMatches(WakeOptions, known, Advertisement(a)).learn>>
    BY DEF StandbyTeaches
  <2> QED
    BY <1>2, <2>1
<1> QED
  BY <1>3, <1>4

-----------------------------------------------------------------------------
(* The main loop does nothing to the peers but what WakePeers says: what a  *)
(* packet teaches is a peer.                                                *)
LEMMA PolicyStep == [PolicyNext]_policyVars => [Next]_peerVars
<1> SUFFICES ASSUME [PolicyNext]_policyVars PROVE [Next]_peerVars
  OBVIOUS
<1>1. CASE ObserveHostPacket
  BY <1>1, PacketsTeachPeers DEF ObserveHostPacket, Next
<1>2. CASE StandbyPacket
  <2>1. PICK lesson \in StandbyTeaches : \E p \in lesson[2] : Remember(p)
    BY <1>2 DEF StandbyPacket
  <2> QED
    BY <2>1, PacketsTeachPeers DEF Next
<1>3. CASE \/ ReadReleased \/ ReadPressed \/ HoldFires \/ SavePeers \/ PowerFails \/ PolicyTick
           \/ UNCHANGED policyVars
  BY <1>3 DEF ReadReleased, ReadPressed, HoldFires, SavePeers, PowerFails, PolicyTick,
              policyVars, Next
<1> QED
  BY <1>1, <1>2, <1>3 DEF PolicyNext

(* So all that is true of the peers alone is true of them in the loop.      *)
THEOREM PolicyRunsPeers == PolicySpec => Spec
<1>1. PolicyInit => Init
  BY DEF PolicyInit
<1> QED
  BY <1>1, PolicyStep, PTL DEF PolicySpec, Spec

(* Used entries of the table and of the flash are a prefix, of distinct     *)
(* peers: count, place and is-newest are right (PeersCompact).              *)
THEOREM TablesAreCompact == PolicySpec => []PeersCompact
<1>1. PeerInv => PeersCompact
  BY DEF PeerInv
<1> QED
  BY <1>1, PolicyRunsPeers, PeerInvariant, PTL

(* Nothing learned is left unsaved by mistake (StoreIsCurrent). *)
THEOREM NothingIsLeftUnsaved == PolicySpec => []StoreIsCurrent
<1>1. PeerInv => StoreIsCurrent
  BY DEF PeerInv
<1> QED
  BY <1>1, PolicyRunsPeers, PeerInvariant, PTL

(* The packets that standby judges are read as they are meant, with every   *)
(* table that the peers in it can make (AdvertisingProofs).                 *)
LEMMA AllJudgedRight ==
    ASSUME TypeOK
    PROVE  ReportsAgree
<1>1. Known \in SUBSET Peer
  BY DEF TypeOK, Known, InUse, Table
<1>2. (StructuresAgree /\ DirectedAgree /\ SequencesAgree(Known)) = TRUE
  <2>1. StructuresAgree /\ DirectedAgree /\ SequencesAgree(Known)
    BY StructuresDoAgree, DirectedDoAgree, SequencesDoAgree, Zenon
  <2> QED
    BY <2>1, Zenon
<1>3. <<Known, StructuresAgree /\ DirectedAgree /\ SequencesAgree(Known)>> \in Judgements
  BY <1>1, Zenon DEF Judgements
<1>4. <<Known, StructuresAgree /\ DirectedAgree /\ SequencesAgree(Known)>> = <<Known, TRUE>>
  BY <1>2, Zenon
<1> QED
  BY <1>3, <1>4, Zenon DEF ReportsAgree

(* The wake policy never takes one packet for another: whatever has been    *)
(* learned, the report that decides and the peer that it teaches are those  *)
(* that were meant (ReportsAgree), for every set of peers and size of the   *)
(* table.                                                                   *)
THEOREM ReportsAlwaysAgree == PolicySpec => []ReportsAgree
<1>1. PeerInv => ReportsAgree
  BY AllJudgedRight DEF PeerInv
<1> QED
  BY <1>1, PolicyRunsPeers, PeerInvariant, PTL

-----------------------------------------------------------------------------
(* The button: the reads of a hold are a poll interval apart at least, so   *)
(* that their number is a bound for the time they have spanned.             *)
ButtonType ==
    /\ pollAge \in 0..PollTicks
    /\ pressed \in 0..HoldPolls
    /\ holdFired \in BOOLEAN
    /\ holdTime \in 0..HoldTicks \cup {NotHeld, Spent}

HoldClock ==
    /\ holdFired => holdTime = Spent
    /\ ~holdFired =>
          /\ pressed < HoldPolls
          /\ pressed = 0 => holdTime = NotHeld
          /\ pressed > 0 =>
                 holdTime \in 0..HoldTicks /\ holdTime >= (pressed - 1) * PollTicks + pollAge

ButtonInv == ButtonType /\ HoldClock

LEMMA Multiples ==
    ASSUME NEW k \in Nat, NEW m \in Nat, k <= m
    PROVE  /\ PollTicks \in Nat /\ PollTicks >= 1 /\ HoldPolls \in Nat /\ HoldPolls >= 1
           /\ k * PollTicks \in Nat /\ k * PollTicks <= m * PollTicks
           /\ (k + 1) * PollTicks = k * PollTicks + PollTicks
           /\ 0 * PollTicks = 0
<1>1. PollTicks \in Nat /\ PollTicks >= 1 /\ HoldPolls \in Nat /\ HoldPolls >= 1
  BY PolicyBounds
<1>2. \A a, b \in Nat : a * b \in Nat /\ (a + 1) * b = a * b + b /\ 0 * b = 0
  OBVIOUS
<1>3. (m - k) * PollTicks \in Nat /\ m * PollTicks = k * PollTicks + (m - k) * PollTicks
  BY <1>1
<1> QED
  BY <1>1, <1>2, <1>3

LEMMA ButtonInit == PolicyInit => ButtonInv
<1> SUFFICES ASSUME PolicyInit PROVE ButtonInv
  OBVIOUS
<1>1. pressed = 0 /\ holdFired = FALSE /\ holdTime = NotHeld /\ pollAge = 0
  BY DEF PolicyInit, Released
<1>2. holdFired \in BOOLEAN
  BY <1>1, Zenon
<1>3. ButtonType
  BY <1>1, <1>2, PolicyBounds DEF ButtonType
<1>4. HoldClock
  BY <1>1, PolicyBounds DEF HoldClock
<1> QED
  BY <1>3, <1>4 DEF ButtonInv

(* A poll that finds the button down. *)
LEMMA HeldFor ==
    ASSUME ButtonInv, PollDue, ~holdFired
    PROVE  /\ Spanned \in 0..HoldTicks /\ Spanned >= pressed * PollTicks
           /\ pressed \in 0..(HoldPolls - 1) /\ Counted = pressed + 1
           /\ (pressed + 1 >= HoldPolls => Spanned = HoldTicks)
<1>1. /\ pressed \in Nat /\ pressed < HoldPolls /\ pollAge = PollTicks
      /\ HoldPolls \in Nat /\ PollTicks \in Nat /\ HoldPolls >= 1
  BY PolicyBounds DEF ButtonInv, ButtonType, HoldClock, PollDue
<1>2. Counted = pressed + 1
  BY <1>1 DEF Counted
<1>3. HoldTicks \in Nat /\ HoldTicks = (HoldPolls - 1) * PollTicks
  <2>1. HoldPolls - 1 \in Nat
    BY <1>1
  <2> QED
    BY <2>1, Multiples DEF HoldTicks
<1>4. Spanned \in 0..HoldTicks /\ Spanned >= pressed * PollTicks
  <2>1. CASE pressed = 0
    <3>1. Spanned = 0 /\ pressed * PollTicks = 0
      BY <2>1, <1>1, Multiples DEF Spanned, ButtonInv, HoldClock
    <3> QED
      BY <3>1, <1>3
  <2>2. CASE pressed > 0
    <3>1. holdTime \in 0..HoldTicks /\ holdTime >= (pressed - 1) * PollTicks + pollAge
      BY <2>2 DEF ButtonInv, HoldClock
    <3>2. Spanned = holdTime
      BY <3>1, <1>3 DEF Spanned, NotHeld
    <3>3. pressed - 1 \in Nat /\ (pressed - 1) + 1 = pressed
      BY <1>1, <2>2
    <3>4. pressed * PollTicks = (pressed - 1) * PollTicks + PollTicks
      BY <3>3, Multiples
    <3> QED
      BY <1>1, <3>1, <3>2, <3>4
  <2> QED
    BY <1>1, <2>1, <2>2
<1>5. pressed + 1 >= HoldPolls => Spanned = HoldTicks
  <2> SUFFICES ASSUME pressed + 1 >= HoldPolls PROVE Spanned = HoldTicks
    OBVIOUS
  <2>1. pressed = HoldPolls - 1
    BY <1>1
  <2>2. Spanned >= HoldTicks
    BY <1>3, <1>4, <2>1
  <2> QED
    BY <1>3, <1>4, <2>2
<1> QED
  BY <1>1, <1>2, <1>4, <1>5

LEMMA ReleasedIsButton ==
    ASSUME pollAge' = 0, pressed' = 0, holdFired' = FALSE, holdTime' = NotHeld
    PROVE  ButtonInv'
<1>1. holdFired' \in BOOLEAN
  BY Zenon
<1>2. ButtonType'
  BY <1>1, PolicyBounds DEF ButtonType
<1>3. HoldClock'
  BY PolicyBounds DEF HoldClock
<1> QED
  BY <1>2, <1>3 DEF ButtonInv

LEMMA ReadPressedStays ==
    ASSUME ButtonInv, ReadPressed
    PROVE  ButtonInv'
<1>1. PollDue /\ ~HoldDone /\ pollAge' = 0 /\ pressed' = Counted /\ holdTime' = Spanned
      /\ holdFired' = holdFired
  BY DEF ReadPressed
<1>2. HoldPolls \in Nat /\ PollTicks \in Nat /\ 0 \in 0..PollTicks
  BY PolicyBounds
<1>3. ButtonType
  BY DEF ButtonInv
<1>4. CASE holdFired
  <2>1. holdTime' = Spent
    BY <1>1, <1>4 DEF ButtonInv, HoldClock, Spanned, NotHeld, Spent
  <2>2. pressed' \in 0..HoldPolls
    BY <1>1, <1>2, <1>3 DEF ButtonType, Counted
  <2> QED
    BY <1>1, <1>2, <1>3, <1>4, <2>1, <2>2 DEF ButtonInv, ButtonType, HoldClock
<1>5. CASE ~holdFired
  <2>1. /\ Spanned \in 0..HoldTicks /\ Spanned >= pressed * PollTicks
        /\ pressed \in 0..(HoldPolls - 1) /\ Counted = pressed + 1
    BY <1>1, <1>5, HeldFor
  <2>2. pressed' = pressed + 1 /\ pressed' < HoldPolls /\ pressed' \in 1..HoldPolls
    BY <1>1, <1>2, <1>5, <2>1 DEF HoldDone
  <2>3. (pressed' - 1) * PollTicks + pollAge' = pressed * PollTicks
    <3>1. pressed' - 1 = pressed /\ pressed \in Nat
      BY <2>1, <2>2
    <3>2. pressed * PollTicks \in Nat
      BY <3>1, Multiples
    <3> QED
      BY <1>1, <3>1, <3>2
  <2>4. HoldClock'
    BY <1>1, <1>5, <2>1, <2>2, <2>3 DEF HoldClock
  <2>5. ButtonType'
    BY <1>1, <1>2, <1>3, <2>1, <2>2 DEF ButtonType
  <2> QED
    BY <2>4, <2>5 DEF ButtonInv
<1> QED
  BY <1>4, <1>5

LEMMA HoldFiresStays ==
    ASSUME ButtonInv, HoldFires
    PROVE  ButtonInv' /\ Spanned = HoldTicks
<1>1. PollDue /\ ~holdFired /\ Counted >= HoldPolls /\ pollAge' = 0 /\ pressed' = Counted
      /\ holdFired' = TRUE /\ holdTime' = Spent
  BY DEF HoldFires, HoldDone
<1>2. /\ pressed \in 0..(HoldPolls - 1) /\ Counted = pressed + 1
      /\ (pressed + 1 >= HoldPolls => Spanned = HoldTicks)
  BY <1>1, HeldFor
<1>3. holdFired' \in BOOLEAN
  BY <1>1, Zenon
<1>4. pressed' \in 0..HoldPolls /\ pollAge' \in 0..PollTicks
  BY <1>1, <1>2, PolicyBounds
<1>5. ButtonType'
  BY <1>1, <1>3, <1>4 DEF ButtonType
<1>6. HoldClock'
  BY <1>1 DEF HoldClock
<1> QED
  BY <1>1, <1>2, <1>5, <1>6 DEF ButtonInv

LEMMA PolicyTickStays ==
    ASSUME ButtonInv, PolicyTick
    PROVE  ButtonInv'
<1>1. /\ pollAge' = IF pollAge < PollTicks THEN pollAge + 1 ELSE pollAge
      /\ holdTime' = IF holdTime \in 0..(HoldTicks - 1) THEN holdTime + 1 ELSE holdTime
      /\ pressed' = pressed /\ holdFired' = holdFired
  BY DEF PolicyTick
<1>2. ButtonType
  BY DEF ButtonInv
<1>3. HoldPolls \in Nat /\ HoldPolls >= 1 /\ PollTicks \in Nat
  BY PolicyBounds
<1>4. HoldTicks \in Nat /\ HoldTicks = (HoldPolls - 1) * PollTicks
  <2>1. HoldPolls - 1 \in Nat
    BY <1>3
  <2> QED
    BY <2>1, Multiples DEF HoldTicks
<1>5. pollAge' \in 0..PollTicks /\ pollAge' <= pollAge + 1
  BY <1>1, <1>2, <1>3 DEF ButtonType
<1>6. CASE holdTime \notin 0..HoldTicks
  <2>1. holdTime' = holdTime
    BY <1>1, <1>4, <1>6
  <2> QED
    BY <1>1, <1>2, <1>5, <1>6, <2>1 DEF ButtonInv, ButtonType, HoldClock
<1>7. CASE holdTime \in 0..HoldTicks
  <2>1. holdTime' = IF holdTime < HoldTicks THEN holdTime + 1 ELSE HoldTicks
    BY <1>1, <1>4, <1>7
  <2>2. holdTime' \in 0..HoldTicks
    BY <1>4, <1>7, <2>1
  <2>3. ButtonType'
    BY <1>1, <1>2, <1>5, <2>2 DEF ButtonType
  <2>4. ~holdFired /\ pressed > 0 /\ pressed < HoldPolls
    BY <1>2, <1>7 DEF ButtonInv, ButtonType, HoldClock, NotHeld, Spent
  <2>5. holdTime >= (pressed - 1) * PollTicks + pollAge
    BY <2>4 DEF ButtonInv, HoldClock
  <2> DEFINE before == (pressed - 1) * PollTicks
  <2>6. before \in Nat /\ before + PollTicks <= HoldTicks
    <3>1. pressed - 1 \in Nat /\ (pressed - 1) + 1 = pressed /\ pressed \in Nat
          /\ HoldPolls - 1 \in Nat /\ pressed <= HoldPolls - 1
      BY <1>2, <1>3, <2>4 DEF ButtonType
    <3>2. before \in Nat /\ pressed * PollTicks = before + PollTicks
      <4> DEFINE k == pressed - 1
      <4>1. k \in Nat /\ k <= pressed /\ k + 1 = pressed
        BY <3>1
      <4> HIDE DEF k
      <4>2. k * PollTicks \in Nat /\ (k + 1) * PollTicks = k * PollTicks + PollTicks
        BY <3>1, <4>1, Multiples
      <4>3. before = k * PollTicks
        BY DEF k
      <4> QED
        BY <4>1, <4>2, <4>3
    <3>3. pressed * PollTicks <= (HoldPolls - 1) * PollTicks
      BY <3>1, Multiples
    <3> QED
      BY <1>4, <3>2, <3>3
  <2> HIDE DEF before
  <2>7. holdTime >= before + pollAge
    BY <2>5 DEF before
  <2>8. holdTime' >= before + pollAge'
    <3>1. /\ pollAge \in Nat /\ pollAge' \in Nat /\ pollAge' <= PollTicks
          /\ pollAge' <= pollAge + 1 /\ PollTicks \in Nat
      BY <1>2, <1>3, <1>5 DEF ButtonType
    <3>2. holdTime \in Nat /\ holdTime <= HoldTicks
      BY <1>4, <1>7
    <3>3. CASE holdTime < HoldTicks
      <4>1. holdTime' = holdTime + 1
        BY <3>3, <2>1
      <4>2. before \in Nat /\ holdTime >= before + pollAge
        BY <2>6, <2>7
      <4>3. \A a, b, c, t \in Nat : t >= c + a /\ b <= a + 1 => t + 1 >= c + b
        OBVIOUS
      <4>4. holdTime + 1 >= before + pollAge'
        BY <3>1, <3>2, <4>2, <4>3
      <4> QED
        BY <4>1, <4>4
    <3>4. CASE ~(holdTime < HoldTicks)
      BY <3>1, <3>4, <2>1, <2>6, <1>4
    <3> QED
      BY <3>3, <3>4
  <2>9. holdTime' >= (pressed - 1) * PollTicks + pollAge'
    BY <2>8 DEF before
  <2> QED
    BY <1>1, <2>2, <2>3, <2>4, <2>9 DEF ButtonInv, HoldClock
<1> QED
  BY <1>6, <1>7

LEMMA ButtonStep == ButtonInv /\ [PolicyNext]_policyVars => ButtonInv'
<1> SUFFICES ASSUME ButtonInv, [PolicyNext]_policyVars PROVE ButtonInv'
  OBVIOUS
<1>1. CASE UNCHANGED buttonVars
  BY <1>1 DEF buttonVars, ButtonInv, ButtonType, HoldClock
<1>2. CASE ReadReleased
  BY <1>2, ReleasedIsButton DEF ReadReleased
<1>3. CASE PowerFails
  BY <1>3, ReleasedIsButton DEF PowerFails
<1>4. CASE ObserveHostPacket \/ StandbyPacket \/ SavePeers \/ UNCHANGED policyVars
  BY <1>1, <1>4 DEF ObserveHostPacket, StandbyPacket, SavePeers, policyVars
<1> QED
  BY <1>2, <1>3, <1>4, ReadPressedStays, HoldFiresStays, PolicyTickStays DEF PolicyNext

(* The inductive invariant of the button: its count of polls and the time   *)
(* they have spanned.                                                       *)
THEOREM ButtonInvariant == PolicySpec => []ButtonInv
<1> QED
  BY ButtonInit, ButtonStep, PTL DEF PolicySpec

(* The types of the table, its save and the button. *)
THEOREM PolicyTypeCorrect == PolicySpec => []PolicyTypeOK
<1>1. PeerInv /\ ButtonInv => PolicyTypeOK
  BY DEF PeerInv, ButtonInv, ButtonType, PolicyTypeOK
<1> QED
  BY <1>1, PolicyRunsPeers, PeerInvariant, ButtonInvariant, PTL

(* However the loop is delayed between two reads, and for any number of     *)
(* polls, the list is cleared only when the reads have spanned the hold     *)
(* time (ClearsAfterHold).                                                  *)
THEOREM HoldIsWhole == PolicySpec => ClearsAfterHold
<1>1. ButtonInv /\ [PolicyNext]_policyVars => [HoldFires => Spanned = HoldTicks]_policyVars
  BY HoldFiresStays
<1> QED
  BY <1>1, ButtonInvariant, PTL DEF PolicySpec, ClearsAfterHold

-----------------------------------------------------------------------------
(* The table as the list it stands for. *)
LEMMA EntriesOf ==
    ASSUME NEW table, NEW n, Packed(table, n)
    PROVE  /\ Entries(table) \in Seq(Peer) /\ Len(Entries(table)) = n /\ n \in Nat
           /\ DOMAIN Entries(table) = 1..n
           /\ \A i \in 1..n : Entries(table)[i] = table[i]
<1>1. n \in Nat /\ \A i \in 1..n : table[i] \in Peer
  BY PeerBounds DEF Packed
<1>2. Count(table) = n
  BY PackedUses
<1>3. Entries(table) = [i \in 1..n |-> table[i]]
  BY <1>2, Zenon DEF Entries
<1>4. Entries(table) \in [1..n -> Peer]
  BY <1>1, <1>3
<1>5. Entries(table) \in Seq(Peer) /\ Len(Entries(table)) = n
  BY <1>1, <1>4
<1> QED
  BY <1>1, <1>3, <1>5

LEMMA NoEntries == Entries(NoPeers) = <<>>
<1>1. Entries(NoPeers) \in Seq(Peer) /\ Len(Entries(NoPeers)) = 0
  BY NothingPacked, EntriesOf
<1> QED
  BY <1>1, EmptySeq

(* Behind the table's first n entries, a peer p: the list is appended to. *)
LEMMA EntriesAppended ==
    ASSUME NEW s \in Seq(Peer), NEW table, NEW p \in Peer, Packed(table, Len(s) + 1),
           \A i \in 1..Len(s) : table[i] = s[i], table[Len(s) + 1] = p
    PROVE  Entries(table) = Append(s, p)
<1> DEFINE n == Len(s)
<1>1. n \in Nat
  BY LenProperties
<1>2. /\ Entries(table) \in Seq(Peer) /\ Len(Entries(table)) = n + 1
      /\ \A i \in 1..n + 1 : Entries(table)[i] = table[i]
  BY EntriesOf
<1>3. /\ Append(s, p) \in Seq(Peer) /\ Len(Append(s, p)) = n + 1
      /\ \A i \in 1..n : Append(s, p)[i] = s[i]
      /\ Append(s, p)[n + 1] = p
  BY AppendProperties
<1> HIDE DEF n
<1>4. \A i \in 1..n + 1 : i \in 1..n \/ i = n + 1
  BY <1>1
<1>5. \A i \in 1..n : table[i] = s[i]
  BY DEF n
<1>6. table[n + 1] = p
  BY DEF n
<1>7. \A i \in 1..n + 1 : Entries(table)[i] = Append(s, p)[i]
  BY <1>2, <1>3, <1>4, <1>5, <1>6
<1> QED
  BY <1>2, <1>3, <1>7, SeqEqual

(* The list without its entry i, element by element. *)
LEMMA WithoutIs ==
    ASSUME NEW s \in Seq(Peer), NEW i \in 1..Len(s)
    PROVE  LET w == SubSeq(s, 1, i - 1) \o SubSeq(s, i + 1, Len(s)) IN
           /\ w \in Seq(Peer) /\ Len(w) = Len(s) - 1
           /\ \A j \in 1..(Len(s) - 1) : w[j] = s[IF j < i THEN j ELSE j + 1]
<1> DEFINE n == Len(s)
           a == SubSeq(s, 1, i - 1)
           b == SubSeq(s, i + 1, n)
           w == a \o b
<1>1. n \in Nat /\ i \in Nat /\ i >= 1 /\ i <= n /\ \A j \in 1..n : s[j] \in Peer
  BY LenProperties, ElementOfSeq
<1>2. /\ a \in Seq(Peer) /\ Len(a) = i - 1
      /\ \A j \in 1..(i - 1) : a[j] = s[j]
  <2>1. \A j \in 1..(i - 1) : s[j] \in Peer
    BY <1>1
  <2>2. 1 \in Int /\ i - 1 \in Int
    BY <1>1
  <2> QED
    BY <1>1, <2>1, <2>2, SubSeqProperties
<1>3. /\ b \in Seq(Peer) /\ Len(b) = n - i
      /\ \A j \in 1..(n - i) : b[j] = s[i + j]
  <2>1. \A j \in i + 1..n : s[j] \in Peer
    BY <1>1
  <2>2. i + 1 \in Int /\ n \in Int
    BY <1>1
  <2>3. /\ b \in Seq(Peer) /\ Len(b) = IF i + 1 <= n THEN n - (i + 1) + 1 ELSE 0
        /\ \A j \in 1..(n - (i + 1) + 1) : b[j] = s[(i + 1) + j - 1]
    BY <1>1, <2>1, <2>2, SubSeqProperties
  <2> QED
    BY <1>1, <2>3
<1> HIDE DEF a, b, n
<1>4. /\ w \in Seq(Peer) /\ Len(w) = Len(a) + Len(b)
      /\ \A j \in 1..(Len(a) + Len(b)) : w[j] = IF j <= Len(a) THEN a[j] ELSE b[j - Len(a)]
  BY <1>2, <1>3, ConcatProperties
<1> HIDE DEF w
<1>5. Len(w) = n - 1
  BY <1>1, <1>2, <1>3, <1>4
<1>6. \A j \in 1..(n - 1) : w[j] = s[IF j < i THEN j ELSE j + 1]
  <2> TAKE j \in 1..(n - 1)
  <2>1. w[j] = IF j <= i - 1 THEN a[j] ELSE b[j - (i - 1)]
    BY <1>1, <1>2, <1>3, <1>4
  <2>2. CASE j < i
    BY <2>1, <2>2, <1>1, <1>2
  <2>3. CASE ~(j < i)
    <3>1. j - (i - 1) \in 1..(n - i) /\ i + (j - (i - 1)) = j + 1
      BY <2>3, <1>1
    <3> QED
      BY <2>1, <2>3, <3>1, <1>1, <1>3
  <2> QED
    BY <2>2, <2>3
<1> QED
  BY <1>4, <1>5, <1>6 DEF w, a, b, n

LEMMA NewIsSeen ==
    ASSUME PeerInv, NEW p \in Peer, WrittenNew(p), flash' = flash
    PROVE  Recent!See(p)
<1>1. /\ Packed(peers, Size) /\ Size \in 0..MaxPeers /\ Size \in Nat
      /\ MaxPeers \in Nat /\ MaxPeers >= 1
  BY TablesPacked, PeerBounds
<1>2. /\ Entries(peers) \in Seq(Peer) /\ Len(Entries(peers)) = Size
      /\ DOMAIN Entries(peers) = 1..Size
      /\ \A i \in 1..Size : Entries(peers)[i] = peers[i]
  BY <1>1, EntriesOf
<1>3. \A i \in DOMAIN Entries(peers) : Entries(peers)[i] # p
  BY <1>2 DEF WrittenNew
<1>4. Entries(peers') = Append(Recent!Newest, p)
  <2>1. CASE Size < MaxPeers
    <3>1. /\ Packed(peers', Size + 1) /\ peers'[Size + 1] = p
          /\ \A j \in 1..Size : peers'[j] = Entries(peers)[j]
      BY <1>2, <2>1, NewIsPacked
    <3>2. Entries(peers') = Append(Entries(peers), p)
      BY <3>1, <1>2, EntriesAppended
    <3>3. Recent!Newest = Entries(peers)
      BY <1>1, <1>2, <2>1 DEF Recent!Newest
    <3> QED
      BY <3>2, <3>3
  <2>2. CASE Size = MaxPeers
    <3> DEFINE s == Tail(Entries(peers))
    <3>1. /\ s \in Seq(Peer) /\ Len(s) = Size - 1
          /\ \A i \in 1..(Size - 1) : s[i] = Entries(peers)[i + 1]
      <4>1. Entries(peers) # <<>>
        BY <1>1, <1>2, <2>2, EmptySeq
      <4> QED
        BY <1>2, <4>1, HeadTailProperties
    <3>2. Recent!Newest = s
      BY <1>2, <2>2 DEF Recent!Newest
    <3> HIDE DEF s
    <3>3. \A i \in 1..(Size - 1) : i + 1 \in 1..Size
      BY <1>1
    <3>4. /\ Packed(peers', Len(s) + 1) /\ peers'[Len(s) + 1] = p
      <4>1. Len(s) + 1 = Size
        BY <1>1, <3>1
      <4> QED
        BY <2>2, <4>1, NewIsPacked
    <3>5. \A i \in 1..Len(s) : peers'[i] = s[i]
      BY <1>2, <2>2, <3>1, <3>3, NewIsPacked
    <3> QED
      BY <3>1, <3>2, <3>4, <3>5, EntriesAppended
  <2> QED
    BY <1>1, <2>1, <2>2
<1> QED
  BY <1>3, <1>4 DEF Recent!See, Recent!SeeNew

LEMMA MovedIsSeen ==
    ASSUME PeerInv, NEW p \in Peer, MovedToEnd(p), flash' = flash
    PROVE  Recent!See(p)
<1>1. Packed(peers, Size) /\ Size \in 0..MaxPeers /\ Size \in Nat /\ MaxPeers \in Nat
  BY TablesPacked, PeerBounds
<1>2. /\ Entries(peers) \in Seq(Peer) /\ Len(Entries(peers)) = Size
      /\ DOMAIN Entries(peers) = 1..Size
      /\ \A i \in 1..Size : Entries(peers)[i] = peers[i]
  BY <1>1, EntriesOf
<1>3. PICK i \in 1..Size : peers[i] = p /\ peers' = Written(Removed(peers, i), p)
  BY DEF MovedToEnd
<1> DEFINE s == SubSeq(Entries(peers), 1, i - 1)
                    \o SubSeq(Entries(peers), i + 1, Len(Entries(peers)))
<1>4. /\ s \in Seq(Peer) /\ Len(s) = Size - 1
      /\ \A j \in 1..(Size - 1) : s[j] = Entries(peers)[IF j < i THEN j ELSE j + 1]
  BY <1>2, WithoutIs
<1>5. Recent!Without(i) = s
  BY DEF Recent!Without
<1> HIDE DEF s
<1>6. /\ Packed(peers', Size) /\ peers'[Size] = p
      /\ \A j \in 1..(Size - 1) : peers'[j] = peers[IF j < i THEN j ELSE j + 1]
  BY <1>3, MovedIsPacked
<1>7. \A j \in 1..(Size - 1) : (IF j < i THEN j ELSE j + 1) \in 1..Size
  BY <1>1
<1>8. \A j \in 1..(Size - 1) : peers'[j] = s[j]
  BY <1>2, <1>4, <1>6, <1>7
<1>9. Len(s) + 1 = Size
  BY <1>1, <1>4
<1>10. Entries(peers') = Append(s, p)
  <2>1. Packed(peers', Len(s) + 1) /\ peers'[Len(s) + 1] = p
    BY <1>6, <1>9
  <2>2. \A j \in 1..Len(s) : peers'[j] = s[j]
    BY <1>4, <1>8
  <2> QED
    BY <1>4, <2>1, <2>2, EntriesAppended
<1>11. i \in DOMAIN Entries(peers) /\ Entries(peers)[i] = p
  BY <1>2, <1>3
<1> QED
  BY <1>5, <1>10, <1>11 DEF Recent!See, Recent!SeeAgain

LEMMA ListStep ==
    PeerInv /\ [Next]_peerVars
        => [Recent!ListNext]_<<Entries(peers), Entries(Load(flash))>>
<1> SUFFICES ASSUME PeerInv, [Next]_peerVars
             PROVE  \/ Recent!ListNext
                    \/ UNCHANGED <<Entries(peers), Entries(Load(flash))>>
  OBVIOUS
<1>1. CASE UNCHANGED <<peers, flash>>
  BY <1>1
<1>2. ASSUME NEW p \in Peer, Remember(p)
      PROVE  Recent!ListNext \/ UNCHANGED <<Entries(peers), Entries(Load(flash))>>
  <2>1. /\ flash' = flash
        /\ WrittenNew(p) \/ MovedToEnd(p) \/ peers' = peers
    BY <1>2, RememberIs
  <2> QED
    BY <1>1, <2>1, NewIsSeen, MovedIsSeen DEF Recent!ListNext
<1>3. CASE ClearKnownPeers
  BY <1>3, NoEntries DEF ClearKnownPeers, Recent!ListNext, Recent!ForgetAll
<1>4. CASE Erase
  <2>1. Load(NoTable) = NoPeers
    BY DEF Load
  <2> QED
    BY <1>4, <2>1, NoEntries DEF Erase, Recent!ListNext, Recent!LoseStore
<1>5. CASE Program
  <2>1. Load(peers) = peers
    BY TablesPacked, LoadedAsStored
  <2> QED
    BY <1>5, <2>1 DEF Program, Recent!ListNext, Recent!Store
<1>6. CASE PowerCycle
  BY <1>6 DEF PowerCycle, Recent!ListNext, Recent!PowerCycle
<1>7. CASE TaskSaves \/ SaveRefused \/ ProgramFails \/ PeerTick \/ UNCHANGED peerVars
  BY <1>1, <1>7 DEF TaskSaves, SaveRefused, ProgramFails, PeerTick, peerVars
<1> QED
  BY <1>2, <1>3, <1>4, <1>5, <1>6, <1>7 DEF Next, SaveStep

LEMMA ListStart == Init => Recent!ListInit
<1> SUFFICES ASSUME Init PROVE Recent!ListInit
  OBVIOUS
<1>1. Load(NoTable) = NoPeers
  BY DEF Load
<1> QED
  BY <1>1, NoEntries DEF Init, Recent!ListInit

(* The table and its copy in flash implement the list in order of use, for  *)
(* every number of peers and places: each peer once, the one not seen for   *)
(* longest makes room, and the copy is the present list or lost, wherever   *)
(* in a save the power fails.                                               *)
THEOREM TableIsRecentList == PolicySpec => ImplementsRecentList
<1> QED
  BY ListStart, ListStep, PolicyRunsPeers, PeerInvariant, PTL
     DEF Spec, ImplementsRecentList, Recent!ListSpec
=============================================================================
