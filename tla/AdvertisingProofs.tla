------------------------- MODULE AdvertisingProofs -------------------------
(***************************************************************************)
(* Proofs about the parsers of advertisements (AdvertisingReports), for     *)
(* every packet: the first structure, and the first report, that is a       *)
(* reason decides; and reports of any number, put into bytes by             *)
(* AdvertisingReference and cut anywhere, are read as they were meant.      *)
(*                                                                          *)
(* The parsers are recursive functions.  A recursive function is the        *)
(* CHOOSE of its equation; that the equation has a solution, and all that   *)
(* is said of its values, is proved with the least number for which it      *)
(* would not be so (LeastExists).                                           *)
(***************************************************************************)
EXTENDS AdvertisingReference, WellFoundedInduction, SequenceTheorems, TLAPS

(* A set of numbers has a least one: the induction of all that follows.     *)
LEMMA LeastExists ==
    ASSUME NEW T, T \subseteq Nat, T # {}
    PROVE  \E n \in T : \A m \in T : n <= m
<1> DEFINE R == OpToRel(<, Nat)
<1>1. IsWellFoundedOn(R, Nat)
  BY NatLessThanWellFounded, Zenon
<1>2. \A m, n \in Nat : m < n => <<m, n>> \in R
  BY Zenon DEF OpToRel
<1> HIDE DEF R
<1>3. PICK n \in T : \A m \in T : <<m, n>> \notin R
  BY <1>1, WFMin, Zenon
<1>4. \A m \in T : ~(m < n)
  BY <1>2, <1>3, Zenon
<1> QED
  BY <1>4

(* A scan from place to place: the value of the place it stops at.  It      *)
(* ends, since every step lowers the rank of its place.                     *)
Scans(f, P, stop, val, next) ==
    f = [x \in P |-> IF x \in stop THEN val[x] ELSE f[next[x]]]

(* So the equation of the scan has a solution.                              *)
LEMMA ScanExists ==
    ASSUME NEW P, NEW stop, NEW val, NEW next, NEW K \in Nat,
           NEW rank \in [P -> 0..K],
           \A x \in P \ stop : next[x] \in P /\ rank[next[x]] < rank[x]
    PROVE  \E f : Scans(f, P, stop, val, next)
<1> DEFINE D(k) == {x \in P : rank[x] < k}
           Bad == {k \in Nat : ~ \E f : Scans(f, D(k), stop, val, next)}
<1>1. 0 \notin Bad
  <2>1. D(0) = {}
    OBVIOUS
  <2>2. Scans([x \in {} |-> x], {}, stop, val, next)
    BY DEF Scans
  <2> QED
    BY <2>1, <2>2
<1>2. ASSUME NEW k \in Nat, NEW f, Scans(f, D(k), stop, val, next)
      PROVE  \E h : Scans(h, D(k + 1), stop, val, next)
  <2> DEFINE h == [x \in D(k + 1) |-> IF x \in stop THEN val[x] ELSE f[next[x]]]
  <2>1. \A x \in D(k) : f[x] = IF x \in stop THEN val[x] ELSE f[next[x]]
    BY <1>2 DEF Scans
  <2>2. \A x \in D(k) : x \in D(k + 1)
    OBVIOUS
  <2>3. \A x \in D(k + 1) \ stop : next[x] \in D(k)
    OBVIOUS
  <2> HIDE DEF D
  <2>4. \A x \in D(k) : h[x] = f[x]
    BY <2>1, <2>2
  <2>5. h = [x \in D(k + 1) |-> IF x \in stop THEN val[x] ELSE h[next[x]]]
    <3>1. \A x \in D(k + 1) \ stop : h[next[x]] = f[next[x]]
      BY <2>3, <2>4
    <3> HIDE DEF h
    <3> QED
      BY <3>1 DEF h
  <2> QED
    BY <2>5 DEF Scans
<1>3. Bad = {}
  <2> SUFFICES ASSUME Bad # {} PROVE FALSE
    OBVIOUS
  <2>1. PICK n \in Bad : \A m \in Bad : n <= m
    BY LeastExists
  <2>2. n \in Nat /\ n # 0
    BY <1>1
  <2>3. n - 1 \in Nat /\ n - 1 \notin Bad
    BY <2>1, <2>2
  <2>4. PICK f : Scans(f, D(n - 1), stop, val, next)
    BY <2>3
  <2>5. \E h : Scans(h, D((n - 1) + 1), stop, val, next)
    BY <1>2, <2>3, <2>4
  <2> QED
    BY <2>1, <2>2, <2>5
<1>4. D(K + 1) = P
  OBVIOUS
<1>5. K + 1 \notin Bad
  BY <1>3
<1> QED
  BY <1>4, <1>5

(* The same for a scan that also counts down. *)
CountedScans(f, c, P, stop, val, next) ==
    f = [left \in 0..c |->
            [x \in P |-> IF left = 0 THEN Ignored
                         ELSE IF x \in stop THEN val[x] ELSE f[left - 1][next[x]]]]

(* It has a solution whatever the steps are, since the count ends it.       *)
LEMMA CountedScanExists ==
    ASSUME NEW P, NEW stop, NEW val, NEW next, NEW c \in Nat
    PROVE  \E f : CountedScans(f, c, P, stop, val, next)
<1> DEFINE Bad == {k \in Nat : ~ \E f : CountedScans(f, k, P, stop, val, next)}
<1>1. 0 \notin Bad
  <2> DEFINE f == [left \in 0..0 |-> [x \in P |-> Ignored]]
  <2>1. f = [left \in 0..0 |->
               [x \in P |-> IF left = 0 THEN Ignored
                            ELSE IF x \in stop THEN val[x] ELSE f[left - 1][next[x]]]]
    OBVIOUS
  <2> HIDE DEF f
  <2> QED
    BY <2>1 DEF CountedScans
<1>2. ASSUME NEW k \in Nat, NEW f, CountedScans(f, k, P, stop, val, next)
      PROVE  \E h : CountedScans(h, k + 1, P, stop, val, next)
  <2> DEFINE Line(g, left) ==
                 [x \in P |-> IF left = 0 THEN Ignored
                              ELSE IF x \in stop THEN val[x] ELSE g[left - 1][next[x]]]
             h == [left \in 0..(k + 1) |-> Line(f, left)]
  <2>1. \A left \in 0..k : f[left] = Line(f, left)
    BY <1>2 DEF CountedScans
  <2>2. \A left \in 0..k : h[left] = f[left]
    <3> HIDE DEF Line
    <3> QED
      BY <2>1
  <2>3. \A left \in 0..(k + 1) : Line(h, left) = Line(f, left)
    <3> SUFFICES ASSUME NEW left \in 0..(k + 1) PROVE Line(h, left) = Line(f, left)
      OBVIOUS
    <3> HIDE DEF h
    <3>1. CASE left = 0
      BY <3>1
    <3>2. CASE left # 0
      <4>1. h[left - 1] = f[left - 1]
        BY <2>2, <3>2
      <4> QED
        BY <4>1, <3>2
    <3> QED
      BY <3>1, <3>2
  <2>4. h = [left \in 0..(k + 1) |-> Line(h, left)]
    <3> HIDE DEF Line
    <3>1. DOMAIN h = 0..(k + 1) /\ \A left \in 0..(k + 1) : h[left] = Line(h, left)
      BY <2>3
    <3>2. h = [left \in 0..(k + 1) |-> h[left]]
      OBVIOUS
    <3> HIDE DEF h
    <3> QED
      BY <3>1, <3>2
  <2> HIDE DEF h
  <2> QED
    BY <2>4 DEF CountedScans
<1>3. c \notin Bad
  <2> SUFFICES ASSUME c \in Bad PROVE FALSE
    OBVIOUS
  <2>1. PICK n \in Bad : \A m \in Bad : n <= m
    BY LeastExists
  <2>2. n \in Nat /\ n # 0
    BY <1>1
  <2>3. n - 1 \in Nat /\ n - 1 \notin Bad
    BY <2>1, <2>2
  <2>4. PICK f : CountedScans(f, n - 1, P, stop, val, next)
    BY <2>3
  <2>5. \E h : CountedScans(h, (n - 1) + 1, P, stop, val, next)
    BY <1>2, <2>3, <2>4
  <2> QED
    BY <2>1, <2>2, <2>5
<1> QED
  BY <1>3

(* A run of answers is decided by the first that wakes. *)
Decides(answer, answers, n) ==
    \/ \E m \in 1..n : /\ answers[m].wake /\ answer = answers[m]
                      /\ \A k \in 1..(m - 1) : ~answers[k].wake
    \/ answer = Ignored /\ \A k \in 1..n : ~answers[k].wake

(* Values that pass the answer of the next one on, unless one wakes.        *)
LEMMA ChainDecides ==
    ASSUME NEW n \in Nat, NEW r, NEW answers, r[n + 1] = Ignored,
           \A i \in 1..n : r[i] = IF answers[i].wake THEN answers[i] ELSE r[i + 1]
    PROVE  Decides(r[1], answers, n)
<1> DEFINE Bad == {i \in 1..(n + 1) : r[i] # r[1] /\ \A k \in 1..(i - 1) : ~answers[k].wake}
<1>1. Bad = {}
  <2> SUFFICES ASSUME Bad # {} PROVE FALSE
    OBVIOUS
  <2>1. PICK i \in Bad : \A j \in Bad : i <= j
    <3>1. Bad \subseteq Nat
      OBVIOUS
    <3> HIDE DEF Bad
    <3> QED
      BY <3>1, LeastExists
  <2>2. i \in 2..(n + 1)
    OBVIOUS
  <2>3. i - 1 \in 1..n /\ i - 1 \notin Bad /\ (i - 1) + 1 = i /\ ~answers[i - 1].wake
    BY <2>1, <2>2
  <2>4. r[i - 1] = r[i]
    BY <2>3
  <2>5. \A k \in 1..((i - 1) - 1) : ~answers[k].wake
    BY <2>2
  <2> QED
    BY <2>3, <2>4, <2>5
<1>2. CASE \A k \in 1..n : ~answers[k].wake
  <2>1. r[n + 1] = r[1]
    BY <1>1, <1>2
  <2> QED
    BY <1>2, <2>1 DEF Decides
<1>3. CASE \E k \in 1..n : answers[k].wake
  <2> DEFINE W == {k \in 1..n : answers[k].wake}
  <2>1. PICK m \in W : \A k \in W : m <= k
    <3>1. W \subseteq Nat /\ W # {}
      BY <1>3
    <3> HIDE DEF W
    <3> QED
      BY <3>1, LeastExists
  <2>2. \A k \in 1..(m - 1) : ~answers[k].wake
    BY <2>1
  <2>3. r[m] = r[1]
    BY <1>1, <2>2
  <2> QED
    BY <2>2, <2>3 DEF Decides
<1> QED
  BY <1>2, <1>3

-----------------------------------------------------------------------------
(* FlattenSeq: the sequences of s up to each place, put one after the       *)
(* other. The definition of the community module is a recursive function;   *)
(* it is the last value of a gluing.                                        *)
Glued(a, b) == a \o b
Gluing(f, n, s) == f = [i \in 1..n |-> IF i = 1 THEN s[i] ELSE Glued(f[i - 1], s[i])]

(* The equation of FlattenSeq has a solution.                               *)
LEMMA GluingExists ==
    ASSUME NEW s, NEW n \in Nat
    PROVE  \E f : Gluing(f, n, s)
<1> DEFINE Bad == {k \in Nat : ~ \E f : Gluing(f, k, s)}
<1>1. 0 \notin Bad
  <2> DEFINE f == [i \in 1..0 |-> i]
  <2>1. f = [i \in 1..0 |-> IF i = 1 THEN s[i] ELSE Glued(f[i - 1], s[i])]
    OBVIOUS
  <2> HIDE DEF f
  <2> QED
    BY <2>1 DEF Gluing
<1>2. ASSUME NEW k \in Nat, NEW f, Gluing(f, k, s)
      PROVE  \E h : Gluing(h, k + 1, s)
  <2> DEFINE h == [i \in 1..(k + 1) |-> IF i = 1 THEN s[i] ELSE Glued(f[i - 1], s[i])]
  <2>1. \A i \in 1..k : f[i] = IF i = 1 THEN s[i] ELSE Glued(f[i - 1], s[i])
    BY <1>2 DEF Gluing
  <2>2. \A i \in 1..k : h[i] = f[i]
    BY <2>1
  <2>3. \A i \in 1..(k + 1) : h[i] = IF i = 1 THEN s[i] ELSE Glued(h[i - 1], s[i])
    <3> SUFFICES ASSUME NEW i \in 1..(k + 1)
                 PROVE  h[i] = IF i = 1 THEN s[i] ELSE Glued(h[i - 1], s[i])
      OBVIOUS
    <3>1. h[i] = IF i = 1 THEN s[i] ELSE Glued(f[i - 1], s[i])
      OBVIOUS
    <3>2. i # 1 => h[i - 1] = f[i - 1]
      <4> HIDE DEF h
      <4> QED
        BY <2>2
    <3> HIDE DEF h
    <3> QED
      BY <3>1, <3>2
  <2>4. h = [i \in 1..(k + 1) |-> h[i]]
    OBVIOUS
  <2> HIDE DEF h
  <2>5. h = [i \in 1..(k + 1) |-> IF i = 1 THEN s[i] ELSE Glued(h[i - 1], s[i])]
    BY <2>3, <2>4
  <2> QED
    BY <2>5 DEF Gluing
<1>3. n \notin Bad
  <2> SUFFICES ASSUME n \in Bad PROVE FALSE
    OBVIOUS
  <2>1. PICK m \in Bad : \A k \in Bad : m <= k
    <3>1. Bad \subseteq Nat /\ Bad # {}
      OBVIOUS
    <3> HIDE DEF Bad
    <3> QED
      BY <3>1, LeastExists
  <2>2. m - 1 \in Nat /\ m - 1 \notin Bad /\ (m - 1) + 1 = m
    BY <1>1, <2>1
  <2> QED
    BY <1>2, <2>1, <2>2
<1> QED
  BY <1>3

(* So FlattenSeq is the last value of one.                                  *)
LEMMA FlattenIs ==
    ASSUME NEW s, Len(s) \in Nat \ {0}
    PROVE  \E f : Gluing(f, Len(s), s) /\ FlattenSeq(s) = f[Len(s)]
<1> DEFINE g == CHOOSE f : f = [i \in 1..Len(s) |-> IF i = 1 THEN s[i] ELSE f[i - 1] \o s[i]]
<1>1. FlattenSeq(s) = g[Len(s)]
  BY Zenon DEF FlattenSeq
<1>2. \E f : f = [i \in 1..Len(s) |-> IF i = 1 THEN s[i] ELSE f[i - 1] \o s[i]]
  BY GluingExists, Zenon DEF Gluing, Glued
<1>3. g = [i \in 1..Len(s) |-> IF i = 1 THEN s[i] ELSE g[i - 1] \o s[i]]
  BY <1>2, Zenon
<1> HIDE DEF g
<1>4. Gluing(g, Len(s), s)
  BY <1>3, Zenon DEF Gluing, Glued
<1> QED
  BY <1>1, <1>4, Zenon

(* Two gluings of sequences that begin alike begin alike. *)
LEMMA GluingsAgree ==
    ASSUME NEW s, NEW t, NEW n \in Nat, NEW m \in 0..n, NEW f, NEW g,
           Gluing(f, n, s), Gluing(g, m, t), \A i \in 1..m : s[i] = t[i]
    PROVE  \A i \in 1..m : f[i] = g[i]
<1> DEFINE Bad == {i \in 1..m : f[i] # g[i]}
<1> SUFFICES ASSUME Bad # {} PROVE FALSE
  OBVIOUS
<1>1. PICK i \in Bad : \A j \in Bad : i <= j
  <2>1. Bad \subseteq Nat
    OBVIOUS
  <2> HIDE DEF Bad
  <2> QED
    BY <2>1, LeastExists
<1>2. /\ \A j \in 1..n : f[j] = IF j = 1 THEN s[j] ELSE Glued(f[j - 1], s[j])
      /\ \A j \in 1..m : g[j] = IF j = 1 THEN t[j] ELSE Glued(g[j - 1], t[j])
  BY DEF Gluing
<1>3. i \in 1..m /\ i \in 1..n /\ f[i] # g[i] /\ s[i] = t[i]
  OBVIOUS
<1>4. CASE i = 1
  BY <1>2, <1>3, <1>4
<1>5. CASE i # 1
  <2>1. i - 1 \in 1..m /\ i - 1 \notin Bad
    BY <1>1, <1>3, <1>5
  <2>2. f[i - 1] = g[i - 1]
    BY <2>1
  <2>3. f[i] = Glued(f[i - 1], s[i]) /\ g[i] = Glued(g[i - 1], t[i])
    BY <1>2, <1>3, <1>5
  <2> QED
    BY <1>3, <2>2, <2>3
<1> QED
  BY <1>4, <1>5

(* What SubSeq from the first place on is.                                  *)
LEMMA PrefixIs ==
    ASSUME NEW S, NEW s \in Seq(S), NEW i \in 0..Len(s)
    PROVE  /\ SubSeq(s, 1, i) \in Seq(S) /\ Len(SubSeq(s, 1, i)) = i
           /\ \A j \in 1..i : SubSeq(s, 1, i)[j] = s[j]
<1>1. Len(s) \in Nat
  BY LenProperties
<1>2. i \in Int /\ 1 \in Int /\ \A j \in 1..i : s[j] \in S
  BY <1>1, ElementOfSeq
<1> DEFINE t == SubSeq(s, 1, i)
<1>3. /\ t \in Seq(S) /\ Len(t) = IF 1 <= i THEN i - 1 + 1 ELSE 0
      /\ \A j \in 1..(i - 1 + 1) : t[j] = s[1 + j - 1]
  BY <1>2, SubSeqProperties
<1> HIDE DEF t
<1>4. t \in Seq(S) /\ Len(t) = i /\ \A j \in 1..i : t[j] = s[j]
  BY <1>1, <1>3
<1> QED
  BY <1>4 DEF t

(* The first i sequences, flattened, are value i of the gluing of all.      *)
LEMMA FlattenPrefix ==
    ASSUME NEW S, NEW s \in Seq(S), NEW f, Gluing(f, Len(s), s), NEW i \in 1..Len(s)
    PROVE  FlattenSeq(SubSeq(s, 1, i)) = f[i]
<1> DEFINE t == SubSeq(s, 1, i)
<1>1. Len(s) \in Nat
  BY LenProperties
<1>2. Len(t) = i /\ \A j \in 1..i : t[j] = s[j]
  BY PrefixIs
<1> HIDE DEF t
<1>3. PICK g : Gluing(g, i, t) /\ FlattenSeq(t) = g[i]
  BY <1>2, FlattenIs
<1>4. \A j \in 1..i : f[j] = g[j]
  <2> DEFINE n == Len(s)
  <2>1. n \in Nat /\ i \in 0..n /\ \A j \in 1..i : s[j] = t[j]
    BY <1>1, <1>2
  <2>2. Gluing(f, n, s) /\ Gluing(g, i, t)
    BY <1>3
  <2> HIDE DEF n
  <2> QED
    BY <2>1, <2>2, GluingsAgree, SMTT(30)
<1>5. i \in 1..i
  BY <1>1
<1> QED
  BY <1>3, <1>4, <1>5 DEF t

(* The number of bytes of the first i sequences, and where each lies.       *)
End(s, i) == Len(FlattenSeq(SubSeq(s, 1, i)))

Places(bytes, s) ==
    /\ End(s, 0) = 0 /\ Len(bytes) = End(s, Len(s))
    /\ \A i \in 0..Len(s) : End(s, i) \in Nat
    /\ \A i \in 1..Len(s) :
           /\ Len(s[i]) \in Nat /\ End(s, i) = End(s, i - 1) + Len(s[i])
           /\ \A k \in 1..Len(s[i]) : bytes[End(s, i - 1) + k] = s[i][k]

(* Each value of a gluing is as long as the one before it and its sequence. *)
LEMMA GluingGrows ==
    ASSUME NEW S, NEW s \in Seq(Seq(S)), NEW f, Gluing(f, Len(s), s)
    PROVE  /\ \A i \in 1..Len(s) : f[i] \in Seq(S)
           /\ \A i \in 1..Len(s) : i # 1 => f[i] = f[i - 1] \o s[i]
           /\ \A i \in 1..Len(s) : i = 1 => f[i] = s[i]
<1>1. Len(s) \in Nat
  BY LenProperties
<1>2. \A i \in 1..Len(s) : f[i] = IF i = 1 THEN s[i] ELSE f[i - 1] \o s[i]
  BY Zenon DEF Gluing, Glued
<1> DEFINE Bad == {i \in 1..Len(s) : f[i] \notin Seq(S)}
<1>3. Bad = {}
  <2> SUFFICES ASSUME Bad # {} PROVE FALSE
    OBVIOUS
  <2>1. PICK i \in Bad : \A j \in Bad : i <= j
    <3>1. Bad \subseteq Nat
      OBVIOUS
    <3> HIDE DEF Bad
    <3> QED
      BY <3>1, LeastExists
  <2>2. i \in 1..Len(s) /\ s[i] \in Seq(S)
    BY ElementOfSeq
  <2>3. CASE i = 1
    BY <1>2, <2>2, <2>3
  <2>4. CASE i # 1
    <3>1. i - 1 \in 1..Len(s) /\ i - 1 \notin Bad
      BY <1>1, <2>1, <2>2, <2>4
    <3>2. f[i - 1] \in Seq(S)
      BY <3>1
    <3>3. f[i - 1] \o s[i] \in Seq(S)
      BY <2>2, <3>2, ConcatProperties
    <3>4. f[i] = f[i - 1] \o s[i]
      BY <1>2, <2>2, <2>4
    <3> QED
      BY <3>3, <3>4
  <2> QED
    BY <2>3, <2>4
<1> QED
  BY <1>2, <1>3, Zenon

(* A gluing has each sequence behind the ones before it. *)
LEMMA GluingHolds ==
    ASSUME NEW S, NEW s \in Seq(Seq(S)), NEW f, Gluing(f, Len(s), s), NEW e,
           e[0] = 0, \A i \in 1..Len(s) : e[i] = Len(f[i])
    PROVE  /\ \A i \in 0..Len(s) : e[i] \in Nat
           /\ \A i \in 1..Len(s) : e[i] = e[i - 1] + Len(s[i]) /\ Len(s[i]) \in Nat
           /\ \A j \in 1..Len(s) : \A i \in 1..j : \A k \in 1..Len(s[i]) :
                  f[j][e[i - 1] + k] = s[i][k]
<1>1. Len(s) \in Nat
  BY LenProperties
<1>2. \A i \in 1..Len(s) : f[i] \in Seq(S) /\ s[i] \in Seq(S)
  BY GluingGrows, ElementOfSeq
<1>3. \A i \in 1..Len(s) : Len(f[i]) \in Nat /\ Len(s[i]) \in Nat
  BY <1>2, LenProperties
<1>4. \A i \in 0..Len(s) : e[i] \in Nat
  BY <1>1, <1>3
<1>5. /\ \A i \in 1..Len(s) : i # 1 => f[i] = f[i - 1] \o s[i]
      /\ \A i \in 1..Len(s) : i = 1 => f[i] = s[i]
  BY GluingGrows, ZenonT(30)
<1>6. \A i \in 1..Len(s) :
         /\ e[i] = e[i - 1] + Len(s[i])
         /\ \A k \in 1..Len(s[i]) : f[i][e[i - 1] + k] = s[i][k]
         /\ i # 1 => \A k \in 1..e[i - 1] : f[i][k] = f[i - 1][k]
  <2> SUFFICES ASSUME NEW i \in 1..Len(s)
               PROVE  /\ e[i] = e[i - 1] + Len(s[i])
                      /\ \A k \in 1..Len(s[i]) : f[i][e[i - 1] + k] = s[i][k]
                      /\ i # 1 => \A k \in 1..e[i - 1] : f[i][k] = f[i - 1][k]
    OBVIOUS
  <2>1. CASE i = 1
    <3>1. f[1] = s[1]
      BY <1>5, <2>1
    <3> QED
      BY <1>3, <2>1, <3>1
  <2>2. CASE i # 1
    <3> DEFINE a == f[i - 1]
               b == s[i]
    <3>1. i - 1 \in 1..Len(s) /\ e[i - 1] = Len(a) /\ e[i] = Len(f[i]) /\ f[i] = a \o b
      <4>1. i - 1 \in 1..Len(s)
        BY <1>1, <2>2
      <4>2. f[i] = a \o b
        BY <1>5, <2>2, Zenon
      <4> QED
        BY <4>1, <4>2
    <3>2. a \in Seq(S) /\ b \in Seq(S) /\ Len(a) \in Nat /\ Len(b) \in Nat
      BY <1>2, <1>3, <3>1
    <3> HIDE DEF a, b
    <3> DEFINE c == a \o b
    <3>3. /\ Len(c) = Len(a) + Len(b)
          /\ \A k \in 1..(Len(a) + Len(b)) : c[k] = IF k <= Len(a) THEN a[k] ELSE b[k - Len(a)]
      BY <3>2, ConcatProperties
    <3> HIDE DEF c
    <3>4. /\ \A k \in 1..Len(b) : c[Len(a) + k] = b[k]
          /\ \A k \in 1..Len(a) : c[k] = a[k]
      BY <3>2, <3>3
    <3>5. f[i] = c
      BY <3>1 DEF c
    <3> QED
      BY <2>2, <3>1, <3>3, <3>4, <3>5 DEF a, b
  <2> QED
    BY <2>1, <2>2
<1>7. \A i, j \in 0..Len(s) : i <= j => e[i] <= e[j]
  <2> SUFFICES ASSUME NEW i \in 0..Len(s), NEW j \in 0..Len(s), i <= j
               PROVE  e[i] <= e[j]
    OBVIOUS
  <2> DEFINE Bad == {k \in i..Len(s) : ~(e[i] <= e[k])}
  <2>1. Bad = {}
    <3> SUFFICES ASSUME Bad # {} PROVE FALSE
      OBVIOUS
    <3>1. PICK k \in Bad : \A m \in Bad : k <= m
      <4>1. Bad \subseteq Nat
        BY <1>1
      <4> HIDE DEF Bad
      <4> QED
        BY <4>1, LeastExists
    <3>2. k \in i..Len(s) /\ k # i /\ ~(e[i] <= e[k])
      BY <1>4
    <3>3. k - 1 \in i..Len(s) /\ k - 1 \notin Bad /\ k \in 1..Len(s)
      BY <1>1, <3>1, <3>2
    <3>4. e[i] <= e[k - 1] /\ e[k] = e[k - 1] + Len(s[k]) /\ Len(s[k]) \in Nat
      BY <1>3, <1>6, <3>3
    <3>5. e[k] \in Nat /\ e[k - 1] \in Nat /\ e[i] \in Nat
      BY <1>1, <1>4, <3>3
    <3> QED
      BY <3>2, <3>4, <3>5
  <2>2. j \in i..Len(s)
    BY <1>1
  <2> QED
    BY <2>1, <2>2
<1>8. \A j \in 1..Len(s) : \A i \in 1..j : \A k \in 1..Len(s[i]) : f[j][e[i - 1] + k] = s[i][k]
  <2> DEFINE Holds(j) == \A i \in 1..j : \A k \in 1..Len(s[i]) : f[j][e[i - 1] + k] = s[i][k]
             Bad == {j \in 1..Len(s) : ~Holds(j)}
  <2>1. Bad = {}
    <3> SUFFICES ASSUME Bad # {} PROVE FALSE
      OBVIOUS
    <3>1. PICK j \in Bad : \A m \in Bad : j <= m
      <4>1. Bad \subseteq Nat
        OBVIOUS
      <4> HIDE DEF Bad
      <4> QED
        BY <4>1, LeastExists
    <3>2. j \in 1..Len(s)
      OBVIOUS
    <3>3. PICK i \in 1..j : \E k \in 1..Len(s[i]) : f[j][e[i - 1] + k] # s[i][k]
      <4>1. ~Holds(j)
        OBVIOUS
      <4> QED
        BY <4>1
    <3>4. PICK k \in 1..Len(s[i]) : f[j][e[i - 1] + k] # s[i][k]
      BY <3>3
    <3> HIDE DEF Bad, Holds
    <3>5. i # j
      BY <1>6, <3>2, <3>4
    <3>6. i \in 1..(j - 1) /\ j - 1 \in 1..Len(s) /\ j # 1
      BY <1>1, <3>2, <3>5
    <3>7. Holds(j - 1)
      <4> HIDE DEF Holds
      <4>1. j - 1 \notin Bad
        BY <1>1, <3>1, <3>2, <3>6
      <4> QED
        BY <3>6, <4>1 DEF Bad
    <3>8. f[j - 1][e[i - 1] + k] = s[i][k]
      BY <3>6, <3>7 DEF Holds
    <3>9. e[i - 1] + k \in 1..e[j - 1]
      <4>1. e[i] = e[i - 1] + Len(s[i]) /\ Len(s[i]) \in Nat /\ e[i - 1] \in Nat /\ e[i] \in Nat
        <5>1. i \in 1..Len(s) /\ i \in 0..Len(s) /\ i - 1 \in 0..Len(s)
          BY <1>1, <3>2
        <5> QED
          BY <1>3, <1>4, <1>6, <5>1
      <4>2. e[i] <= e[j - 1] /\ e[j - 1] \in Nat
        <5>1. i \in 0..Len(s) /\ j - 1 \in 0..Len(s) /\ i <= j - 1
          BY <1>1, <3>2, <3>6
        <5> QED
          BY <1>4, <1>7, <5>1
      <4> QED
        BY <3>4, <4>1, <4>2
    <3>10. f[j][e[i - 1] + k] = f[j - 1][e[i - 1] + k]
      BY <1>6, <3>2, <3>6, <3>9
    <3> QED
      BY <3>4, <3>8, <3>10
  <2> QED
    BY <2>1
<1> QED
  BY <1>3, <1>4, <1>6, <1>8

(* Flattened sequences lie one behind the other, each as a whole.           *)
LEMMA FlattenPlaces ==
    ASSUME NEW S, NEW s \in Seq(Seq(S))
    PROVE  FlattenSeq(s) \in Seq(S) /\ Places(FlattenSeq(s), s)
<1>1. Len(s) \in Nat
  BY LenProperties
<1>2. FlattenSeq(SubSeq(s, 1, 0)) = <<>> /\ End(s, 0) = 0
  <2>1. SubSeq(s, 1, 0) = <<>>
    BY SubSeqEmpty
  <2>2. FlattenSeq(<<>>) = <<>> /\ Len(<<>>) = 0
    BY DEF FlattenSeq
  <2>3. FlattenSeq(SubSeq(s, 1, 0)) = <<>>
    BY <2>1, <2>2, Zenon
  <2> QED
    BY <2>2, <2>3, Zenon DEF End
<1>3. CASE Len(s) = 0
  <2>1. s = <<>>
    BY <1>3, EmptySeq
  <2>2. FlattenSeq(s) = <<>>
    BY <2>1 DEF FlattenSeq
  <2>3. End(s, Len(s)) = 0 /\ \A i \in 0..Len(s) : End(s, i) \in Nat
    BY <1>2, <1>3
  <2>4. Len(<<>>) = 0 /\ <<>> \in Seq(S)
    OBVIOUS
  <2> QED
    BY <1>2, <1>3, <2>2, <2>3, <2>4 DEF Places
<1>4. CASE Len(s) # 0
  <2>1. PICK f : Gluing(f, Len(s), s) /\ FlattenSeq(s) = f[Len(s)]
    BY <1>1, <1>4, FlattenIs
  <2> DEFINE e == [i \in 0..Len(s) |-> End(s, i)]
  <2>2. \A i \in 1..Len(s) : End(s, i) = Len(f[i])
    BY <2>1, FlattenPrefix DEF End
  <2>3. e[0] = 0 /\ \A i \in 1..Len(s) : e[i] = Len(f[i])
    BY <1>1, <1>2, <2>2
  <2>4. \A i \in 0..Len(s) : e[i] = End(s, i)
    OBVIOUS
  <2> HIDE DEF e
  <2>5. /\ \A i \in 0..Len(s) : e[i] \in Nat
        /\ \A i \in 1..Len(s) : e[i] = e[i - 1] + Len(s[i]) /\ Len(s[i]) \in Nat
        /\ \A j \in 1..Len(s) : \A i \in 1..j : \A k \in 1..Len(s[i]) :
                  f[j][e[i - 1] + k] = s[i][k]
    BY <2>1, <2>3, GluingHolds, SMTT(30)
  <2>6. Len(s) \in 1..Len(s) /\ \A i \in 1..Len(s) : i - 1 \in 0..Len(s) /\ i \in 0..Len(s)
    BY <1>1, <1>4
  <2>7. f[Len(s)] \in Seq(S)
    BY <2>1, <2>6, GluingGrows
  <2>8. \A i \in 1..Len(s) :
           /\ Len(s[i]) \in Nat /\ End(s, i) = End(s, i - 1) + Len(s[i])
           /\ \A k \in 1..Len(s[i]) : f[Len(s)][End(s, i - 1) + k] = s[i][k]
    <3> SUFFICES ASSUME NEW i \in 1..Len(s)
                 PROVE  /\ Len(s[i]) \in Nat /\ End(s, i) = End(s, i - 1) + Len(s[i])
                        /\ \A k \in 1..Len(s[i]) : f[Len(s)][End(s, i - 1) + k] = s[i][k]
      OBVIOUS
    <3>1. e[i] = End(s, i) /\ e[i - 1] = End(s, i - 1)
      BY <2>4, <2>6
    <3>2. Len(s[i]) \in Nat /\ e[i] = e[i - 1] + Len(s[i])
      BY <2>5
    <3>3. \A k \in 1..Len(s[i]) : f[Len(s)][e[i - 1] + k] = s[i][k]
      BY <2>5, <2>6
    <3> QED
      BY <3>1, <3>2, <3>3
  <2>9. Len(f[Len(s)]) = End(s, Len(s)) /\ \A i \in 0..Len(s) : End(s, i) \in Nat
    BY <2>2, <2>4, <2>5, <2>6
  <2> QED
    BY <1>2, <2>1, <2>7, <2>8, <2>9 DEF Places
<1> QED
  BY <1>3, <1>4

-----------------------------------------------------------------------------
(* The loop of le_advertising_data_matches over the AD structures, for      *)
(* every data: the equation of its recursion.                               *)
DataScan(f, on, p, data) ==
    f = [pos \in 1..(Len(data) + 1) |->
            IF NoStructure(data, pos) THEN Ignored
            ELSE IF StructureAt(on, p, data, pos).wake THEN StructureAt(on, p, data, pos)
            ELSE f[NextStructure(data, pos)]]

(* The place after a structure is further on, and at most just past the     *)
(* end.                                                                     *)
LEMMA StructuresAdvance ==
    ASSUME NEW data \in Seq(Nat), NEW pos \in 1..(Len(data) + 1), ~NoStructure(data, pos)
    PROVE  /\ pos \in 1..Len(data) /\ data[pos] \in Nat /\ Len(data) \in Nat
           /\ NextStructure(data, pos) \in (pos + 2)..(Len(data) + 1)
<1>1. Len(data) \in Nat
  BY LenProperties
<1>2. pos \in 1..Len(data)
  BY <1>1 DEF NoStructure
<1>3. data[pos] \in Nat
  BY <1>2, ElementOfSeq
<1> QED
  BY <1>1, <1>2, <1>3 DEF NoStructure, NextStructure

(* DataMatches is the first value of a solution of its equation.            *)
LEMMA DataScans ==
    ASSUME NEW on, NEW p, NEW data \in Seq(Nat)
    PROVE  \E f : DataScan(f, on, p, data) /\ DataMatches(on, p, data) = f[1]
<1> DEFINE P == 1..(Len(data) + 1)
           stop == {pos \in P : NoStructure(data, pos) \/ StructureAt(on, p, data, pos).wake}
           val == [pos \in P |-> IF NoStructure(data, pos) THEN Ignored
                                 ELSE StructureAt(on, p, data, pos)]
           next == [pos \in P |-> NextStructure(data, pos)]
           rank == [pos \in P |-> Len(data) + 1 - pos]
<1>1. Len(data) \in Nat
  BY LenProperties
<1>2. Len(data) \in Nat /\ rank \in [P -> 0..Len(data)]
  BY <1>1
<1>3. \A pos \in P \ stop : next[pos] \in P /\ rank[next[pos]] < rank[pos]
  <2> SUFFICES ASSUME NEW pos \in P, ~NoStructure(data, pos)
               PROVE  next[pos] \in P /\ rank[next[pos]] < rank[pos]
    OBVIOUS
  <2>1. /\ next[pos] = NextStructure(data, pos)
        /\ NextStructure(data, pos) \in (pos + 2)..(Len(data) + 1)
    BY StructuresAdvance
  <2> QED
    BY <1>1, <2>1
<1>4. \A pos \in P :
         (pos \in stop) <=> (NoStructure(data, pos) \/ StructureAt(on, p, data, pos).wake)
  OBVIOUS
<1>5. \A pos \in P :
         val[pos] = IF NoStructure(data, pos) THEN Ignored ELSE StructureAt(on, p, data, pos)
  OBVIOUS
<1>6. \A pos \in P : next[pos] = NextStructure(data, pos)
  OBVIOUS
<1> HIDE DEF rank, stop, val, next
<1>7. PICK h : Scans(h, P, stop, val, next)
  BY <1>2, <1>3, ScanExists
<1>8. \A pos \in P : h[pos] = IF pos \in stop THEN val[pos] ELSE h[next[pos]]
  BY <1>7, Zenon DEF Scans
<1>9. h = [pos \in P |-> h[pos]]
  BY <1>7, Zenon DEF Scans
<1>10. \A pos \in P :
         h[pos] = IF NoStructure(data, pos) THEN Ignored
                  ELSE IF StructureAt(on, p, data, pos).wake THEN StructureAt(on, p, data, pos)
                  ELSE h[NextStructure(data, pos)]
  <2> SUFFICES ASSUME NEW pos \in P
               PROVE  h[pos] = IF NoStructure(data, pos) THEN Ignored
                               ELSE IF StructureAt(on, p, data, pos).wake
                               THEN StructureAt(on, p, data, pos)
                               ELSE h[NextStructure(data, pos)]
    BY Zenon
  <2> QED
    BY <1>4, <1>5, <1>6, <1>8, Zenon
<1>11. \E f : DataScan(f, on, p, data)
  <2>1. h = [pos \in P |-> IF NoStructure(data, pos) THEN Ignored
                  ELSE IF StructureAt(on, p, data, pos).wake THEN StructureAt(on, p, data, pos)
                  ELSE h[NextStructure(data, pos)]]
    BY <1>9, <1>10, Zenon
  <2> QED
    BY <2>1, Zenon DEF DataScan
<1> DEFINE g == CHOOSE f : f = [pos \in 1..(Len(data) + 1) |->
            IF NoStructure(data, pos) THEN Ignored
            ELSE IF StructureAt(on, p, data, pos).wake THEN StructureAt(on, p, data, pos)
            ELSE f[NextStructure(data, pos)]]
<1>12. DataMatches(on, p, data) = g[1]
  BY Zenon DEF DataMatches
<1>13. DataScan(g, on, p, data)
  BY <1>11, Zenon DEF DataScan
<1> QED
  BY <1>12, <1>13, Zenon

(* A chain of structures: each begins where the one before it says. *)
Chain(data, q, n) ==
    /\ q[1] = 1
    /\ \A i \in 1..n : ~NoStructure(data, q[i]) /\ q[i + 1] = NextStructure(data, q[i])

(* A chain stays in the data, or ends just past it.                         *)
LEMMA ChainInside ==
    ASSUME NEW data \in Seq(Nat), NEW n \in Nat, NEW q, Chain(data, q, n)
    PROVE  \A i \in 1..(n + 1) : q[i] \in 1..(Len(data) + 1)
<1> DEFINE Bad == {i \in 1..(n + 1) : q[i] \notin 1..(Len(data) + 1)}
<1>1. Bad = {}
  <2> SUFFICES ASSUME Bad # {} PROVE FALSE
    OBVIOUS
  <2>1. PICK i \in Bad : \A j \in Bad : i <= j
    <3>1. Bad \subseteq Nat
      OBVIOUS
    <3> HIDE DEF Bad
    <3> QED
      BY <3>1, LeastExists
  <2>2. Len(data) \in Nat
    BY LenProperties
  <2>3. i # 1
    BY <2>2 DEF Chain
  <2>4. i - 1 \in 1..n /\ i - 1 \notin Bad /\ (i - 1) + 1 = i
    BY <2>1, <2>3
  <2>5. q[i - 1] \in 1..(Len(data) + 1)
    BY <2>4
  <2>6. ~NoStructure(data, q[i - 1]) /\ q[i] = NextStructure(data, q[i - 1])
    BY <2>4 DEF Chain
  <2>7. q[i] \in (q[i - 1] + 2)..(Len(data) + 1)
    BY <2>5, <2>6, StructuresAdvance
  <2> QED
    BY <2>2, <2>5, <2>7
<1> QED
  BY <1>1

(* le_advertising_data_matches, whatever the bytes: of the AD structures    *)
(* that follow each other from the first byte on, the first that is a       *)
(* reason decides, and if none is, the data are ignored; nothing is read    *)
(* past their end.                                                          *)
THEOREM FirstStructureDecides ==
    ASSUME NEW on, NEW p, NEW data \in Seq(Nat), NEW n \in Nat, NEW q, NEW answers,
           Chain(data, q, n), NoStructure(data, q[n + 1]),
           \A i \in 1..n : answers[i] = StructureAt(on, p, data, q[i])
    PROVE  Decides(DataMatches(on, p, data), answers, n)
<1>1. PICK f : DataScan(f, on, p, data) /\ DataMatches(on, p, data) = f[1]
  BY DataScans
<1>2. \A i \in 1..(n + 1) : q[i] \in 1..(Len(data) + 1)
  BY ChainInside
<1>3. \A pos \in 1..(Len(data) + 1) :
         f[pos] = IF NoStructure(data, pos) THEN Ignored
                  ELSE IF StructureAt(on, p, data, pos).wake THEN StructureAt(on, p, data, pos)
                  ELSE f[NextStructure(data, pos)]
  BY <1>1, Zenon DEF DataScan
<1> DEFINE r == [i \in 1..(n + 1) |-> f[q[i]]]
<1>4. \A i \in 1..n : i \in 1..(n + 1) /\ i + 1 \in 1..(n + 1)
  OBVIOUS
<1>5. 1 \in 1..(n + 1) /\ n + 1 \in 1..(n + 1)
  OBVIOUS
<1>6. \A i \in 1..n : r[i] = IF answers[i].wake THEN answers[i] ELSE r[i + 1]
  <2> SUFFICES ASSUME NEW i \in 1..n
               PROVE  r[i] = IF answers[i].wake THEN answers[i] ELSE r[i + 1]
    OBVIOUS
  <2>1. r[i] = f[q[i]] /\ r[i + 1] = f[q[i + 1]]
    BY <1>4
  <2>2. ~NoStructure(data, q[i]) /\ q[i + 1] = NextStructure(data, q[i])
    BY DEF Chain
  <2>3. q[i] \in 1..(Len(data) + 1) /\ answers[i] = StructureAt(on, p, data, q[i])
    BY <1>2, <1>4
  <2>4. f[q[i]] = IF NoStructure(data, q[i]) THEN Ignored
                  ELSE IF StructureAt(on, p, data, q[i]).wake THEN StructureAt(on, p, data, q[i])
                  ELSE f[NextStructure(data, q[i])]
    BY <1>3, <2>3, Zenon
  <2> HIDE DEF r
  <2> QED
    BY <2>1, <2>2, <2>3, <2>4
<1>7. r[n + 1] = Ignored
  <2>1. r[n + 1] = f[q[n + 1]] /\ q[n + 1] \in 1..(Len(data) + 1)
    BY <1>2, <1>5
  <2> HIDE DEF r
  <2> QED
    BY <1>3, <2>1, Zenon
<1>8. r[1] = DataMatches(on, p, data)
  BY <1>1, <1>5 DEF Chain
<1> HIDE DEF r
<1>9. Decides(r[1], answers, n)
  BY <1>6, <1>7, ChainDecides
<1> QED
  BY <1>8, <1>9, Zenon

-----------------------------------------------------------------------------
(* The loops of le_advertising_report_matches and                           *)
(* le_extended_advertising_report_matches over the reports of a packet, for *)
(* every packet: the equation of their recursion.                           *)
ReportScan(f, on, known, layout, params) ==
    f = [left \in 0..params[2] |->
          [pos \in Nat |->
              IF left = 0 \/ NoReport(layout, params, pos) THEN Ignored
              ELSE IF ReportMatches(on, known, layout, params, pos).wake
              THEN ReportMatches(on, known, layout, params, pos)
              ELSE f[left - 1][NextReport(layout, params, pos)]]]

(* ReportsMatch is a value of a solution of its equation.                   *)
LEMMA ReportScans ==
    ASSUME NEW on, NEW known, NEW layout, NEW params, params[2] \in Nat
    PROVE  \E f : /\ ReportScan(f, on, known, layout, params)
                  /\ ReportsMatch(on, known, layout, params) = f[params[2]][2]
<1> DEFINE c == params[2]
           Answer(pos) == ReportMatches(on, known, layout, params, pos)
           stop == {pos \in Nat : NoReport(layout, params, pos) \/ Answer(pos).wake}
           val == [pos \in Nat |-> IF NoReport(layout, params, pos) THEN Ignored
                                   ELSE Answer(pos)]
           next == [pos \in Nat |-> NextReport(layout, params, pos)]
<1>1. \A pos \in Nat :
         /\ (pos \in stop) <=> (NoReport(layout, params, pos) \/ Answer(pos).wake)
         /\ val[pos] = IF NoReport(layout, params, pos) THEN Ignored ELSE Answer(pos)
         /\ next[pos] = NextReport(layout, params, pos)
  BY Zenon
<1>2. c \in Nat
  OBVIOUS
<1> HIDE DEF stop, val, next, c
<1>3. PICK h : CountedScans(h, c, Nat, stop, val, next)
  BY <1>2, CountedScanExists
<1> DEFINE Line(left) == [pos \in Nat |->
              IF left = 0 \/ NoReport(layout, params, pos) THEN Ignored
              ELSE IF Answer(pos).wake THEN Answer(pos)
              ELSE h[left - 1][NextReport(layout, params, pos)]]
           Line0(left) == [x \in Nat |-> IF left = 0 THEN Ignored ELSE IF x \in stop THEN val[x]
                                         ELSE h[left - 1][next[x]]]
<1>4. h = [left \in 0..c |-> Line0(left)]
  BY <1>3, Zenon DEF CountedScans
<1>5. \A left \in 0..c : Line0(left) = Line(left)
  <2> SUFFICES ASSUME NEW left \in 0..c PROVE Line0(left) = Line(left)
    BY Zenon
  <2> DEFINE x0(pos) == IF left = 0 THEN Ignored ELSE IF pos \in stop THEN val[pos]
                                         ELSE h[left - 1][next[pos]]
             x1(pos) == IF left = 0 \/ NoReport(layout, params, pos) THEN Ignored
                        ELSE IF Answer(pos).wake THEN Answer(pos)
                        ELSE h[left - 1][NextReport(layout, params, pos)]
  <2>1. \A pos \in Nat : x0(pos) = x1(pos)
    <3> SUFFICES ASSUME NEW pos \in Nat PROVE x0(pos) = x1(pos)
      BY Zenon
    <3>1. /\ (pos \in stop) <=> (NoReport(layout, params, pos) \/ Answer(pos).wake)
          /\ val[pos] = IF NoReport(layout, params, pos) THEN Ignored ELSE Answer(pos)
          /\ next[pos] = NextReport(layout, params, pos)
      BY <1>1, Zenon
    <3> HIDE DEF Answer
    <3> QED
      BY <3>1
  <2> HIDE DEF x0, x1
  <2>2. [pos \in Nat |-> x0(pos)] = [pos \in Nat |-> x1(pos)]
    BY <2>1
  <2> QED
    BY <2>2, Zenon DEF x0, x1
<1>6. h = [left \in 0..c |-> Line(left)]
  <2> HIDE DEF Line, Line0
  <2> QED
    BY <1>4, <1>5
<1>7. \E f : ReportScan(f, on, known, layout, params)
  BY <1>6, Zenon DEF ReportScan, c
<1> DEFINE g == CHOOSE f : f = [left \in 0..params[2] |->
          [pos \in Nat |->
              IF left = 0 \/ NoReport(layout, params, pos) THEN Ignored
              ELSE IF ReportMatches(on, known, layout, params, pos).wake
              THEN ReportMatches(on, known, layout, params, pos)
              ELSE f[left - 1][NextReport(layout, params, pos)]]]
<1>8. ReportsMatch(on, known, layout, params) = g[params[2]][2]
  BY Zenon DEF ReportsMatch
<1>9. ReportScan(g, on, known, layout, params)
  BY <1>7, Zenon DEF ReportScan
<1> QED
  BY <1>8, <1>9, Zenon

(* A chain of reports: each whole, and beginning where the one before ends. *)
ReportChain(layout, params, q, n) ==
    /\ q[1] = 2
    /\ \A i \in 1..n : /\ ~NoReport(layout, params, q[i])
                       /\ q[i + 1] = NextReport(layout, params, q[i])

(* A whole report lies in the parameters, and a place follows it.           *)
LEMMA ReportsAdvance ==
    ASSUME NEW layout \in {Legacy, Extended}, NEW params \in Seq(Nat), NEW pos \in Nat,
           ~NoReport(layout, params, pos)
    PROVE  /\ layout.header \in Nat /\ layout.trailer \in Nat /\ Len(params) \in Nat
           /\ pos + layout.header \in 1..Len(params) /\ params[pos + layout.header] \in Nat
           /\ NextReport(layout, params, pos) \in Nat
<1>1. Len(params) \in Nat
  BY LenProperties
<1>2. layout.header \in {9, 24} /\ layout.trailer \in {0, 1}
  BY DEF Legacy, Extended
<1>3. pos + layout.header \in 1..Len(params)
  BY <1>1, <1>2, SMTT(30) DEF NoReport
<1>4. params[pos + layout.header] \in Nat
  BY <1>3, ElementOfSeq
<1> HIDE DEF Legacy, Extended
<1>5. NextReport(layout, params, pos) \in Nat
  <2> DEFINE h == layout.header
             t == layout.trailer
             d == params[pos + h]
  <2>1. h \in Nat /\ t \in Nat /\ d \in Nat
    BY <1>2, <1>4
  <2> HIDE DEF h, t, d
  <2>2. pos + h + d + t \in Nat
    BY <2>1
  <2> QED
    BY <2>2, Zenon DEF NextReport, h, t, d
<1> QED
  BY ONLY <1>1, <1>2, <1>3, <1>4, <1>5

(* So a chain of reports goes from place to place.                          *)
LEMMA ReportChainPlaces ==
    ASSUME NEW layout \in {Legacy, Extended}, NEW params \in Seq(Nat), NEW n \in Nat, NEW q,
           ReportChain(layout, params, q, n)
    PROVE  \A i \in 1..(n + 1) : q[i] \in Nat
<1> DEFINE Bad == {i \in 1..(n + 1) : q[i] \notin Nat}
<1>1. Bad = {}
  <2> SUFFICES ASSUME Bad # {} PROVE FALSE
    OBVIOUS
  <2>1. PICK i \in Bad : \A j \in Bad : i <= j
    <3>1. Bad \subseteq Nat
      OBVIOUS
    <3> HIDE DEF Bad
    <3> QED
      BY <3>1, LeastExists
  <2>2. i # 1
    BY DEF ReportChain
  <2>3. i - 1 \in 1..n /\ i - 1 \notin Bad /\ (i - 1) + 1 = i
    BY <2>1, <2>2
  <2>4. q[i - 1] \in Nat
    BY <2>3
  <2>5. ~NoReport(layout, params, q[i - 1]) /\ q[i] = NextReport(layout, params, q[i - 1])
    BY <2>3 DEF ReportChain
  <2>6. q[i] \in Nat
    BY <2>4, <2>5, ReportsAdvance
  <2> QED
    BY <2>6
<1> QED
  BY <1>1

(* Both loops, whatever the parameters: of the reports that follow each     *)
(* other, as many as are whole and claimed, the first that is a reason      *)
(* decides, and no other is looked at behind it.                            *)
THEOREM FirstReportDecides ==
    ASSUME NEW on, NEW known, NEW layout \in {Legacy, Extended}, NEW params \in Seq(Nat),
           params[2] \in Nat, NEW n \in 0..params[2], NEW q, NEW answers,
           ReportChain(layout, params, q, n),
           n = params[2] \/ NoReport(layout, params, q[n + 1]),
           \A i \in 1..n : answers[i] = ReportMatches(on, known, layout, params, q[i])
    PROVE  Decides(ReportsMatch(on, known, layout, params), answers, n)
<1> DEFINE c == params[2]
<1>1. c \in Nat /\ n \in 0..c /\ n \in Nat
  OBVIOUS
<1>2. PICK f : /\ ReportScan(f, on, known, layout, params)
               /\ ReportsMatch(on, known, layout, params) = f[c][2]
  BY ReportScans
<1>3. \A i \in 1..(n + 1) : q[i] \in Nat
  BY <1>1, ReportChainPlaces
<1> DEFINE Line(left) == [pos \in Nat |->
              IF left = 0 \/ NoReport(layout, params, pos) THEN Ignored
              ELSE IF ReportMatches(on, known, layout, params, pos).wake
              THEN ReportMatches(on, known, layout, params, pos)
              ELSE f[left - 1][NextReport(layout, params, pos)]]
<1>4. \A left \in 0..c : f[left] = Line(left)
  BY <1>2, Zenon DEF ReportScan
<1>5. \A left \in 0..c : \A pos \in Nat :
         f[left][pos] = IF left = 0 \/ NoReport(layout, params, pos) THEN Ignored
                        ELSE IF ReportMatches(on, known, layout, params, pos).wake
                        THEN ReportMatches(on, known, layout, params, pos)
                        ELSE f[left - 1][NextReport(layout, params, pos)]
  <2> SUFFICES ASSUME NEW left \in 0..c, NEW pos \in Nat
               PROVE  f[left][pos] = Line(left)[pos]
    BY Zenon
  <2> HIDE DEF Line
  <2> QED
    BY <1>4, Zenon
<1> DEFINE r == [i \in 1..(n + 1) |-> f[c + 1 - i][q[i]]]
<1> HIDE DEF c, Line
<1>6. \A i \in 1..n : /\ i \in 1..(n + 1) /\ i + 1 \in 1..(n + 1)
                      /\ c + 1 - i \in 0..c /\ c + 1 - i # 0
                      /\ c + 1 - (i + 1) = (c + 1 - i) - 1
  BY <1>1
<1>7. 1 \in 1..(n + 1) /\ n + 1 \in 1..(n + 1) /\ c + 1 - (n + 1) \in 0..c /\ c + 1 - 1 = c
  BY <1>1
<1>8. \A i \in 1..n : r[i] = IF answers[i].wake THEN answers[i] ELSE r[i + 1]
  <2> SUFFICES ASSUME NEW i \in 1..n
               PROVE  r[i] = IF answers[i].wake THEN answers[i] ELSE r[i + 1]
    OBVIOUS
  <2> DEFINE left == c + 1 - i
  <2>1. left \in 0..c /\ left # 0 /\ r[i] = f[left][q[i]] /\ r[i + 1] = f[left - 1][q[i + 1]]
    BY <1>6
  <2>2. ~NoReport(layout, params, q[i]) /\ q[i + 1] = NextReport(layout, params, q[i])
    BY DEF ReportChain
  <2>3. q[i] \in Nat /\ answers[i] = ReportMatches(on, known, layout, params, q[i])
    BY <1>3, <1>6
  <2> HIDE DEF r, left
  <2>4. f[left][q[i]] = IF left = 0 \/ NoReport(layout, params, q[i]) THEN Ignored
                        ELSE IF ReportMatches(on, known, layout, params, q[i]).wake
                        THEN ReportMatches(on, known, layout, params, q[i])
                        ELSE f[left - 1][NextReport(layout, params, q[i])]
    BY <1>5, <2>1, <2>3, Zenon
  <2> QED
    BY <2>1, <2>2, <2>3, <2>4
<1>9. r[n + 1] = Ignored
  <2> DEFINE left == c + 1 - (n + 1)
  <2>1. left \in 0..c /\ r[n + 1] = f[left][q[n + 1]] /\ q[n + 1] \in Nat
    BY <1>3, <1>7
  <2>2. left = 0 \/ NoReport(layout, params, q[n + 1])
    BY <1>1 DEF c
  <2> HIDE DEF r, left
  <2>3. f[left][q[n + 1]] = IF left = 0 \/ NoReport(layout, params, q[n + 1]) THEN Ignored
                        ELSE IF ReportMatches(on, known, layout, params, q[n + 1]).wake
                        THEN ReportMatches(on, known, layout, params, q[n + 1])
                        ELSE f[left - 1][NextReport(layout, params, q[n + 1])]
    BY <1>5, <2>1, Zenon
  <2> QED
    BY <2>1, <2>2, <2>3
<1>10. r[1] = ReportsMatch(on, known, layout, params)
  BY <1>2, <1>7 DEF ReportChain
<1> HIDE DEF r
<1>11. Decides(r[1], answers, n)
  BY <1>1, <1>8, <1>9, ChainDecides
<1> QED
  BY <1>10, <1>11, Zenon

-----------------------------------------------------------------------------
(* The AD structures of the reference.  What lies behind the length and     *)
(* type.                                                                    *)
Payload(b, d) ==
    /\ d \in Seq(Nat) /\ Len(d) = Len(b) - 2
    /\ \A k \in 1..(Len(b) - 2) : d[k] = b[k + 2]

(* It is what StructureAt hands to StructureMatches, of a structure that    *)
(* was put at a place of the data.                                          *)
LEMMA PayloadIs ==
    ASSUME NEW data \in Seq(Nat), NEW from \in Nat, NEW b \in Seq(Nat), Len(b) >= 2,
           from + Len(b) <= Len(data),
           \A k \in 1..Len(b) : data[from + k] = b[k]
    PROVE  Payload(b, SubSeq(data, from + 3, from + Len(b)))
<1> DEFINE m == from + 3
           n == from + Len(b)
           d == SubSeq(data, m, n)
<1>1. Len(b) \in Nat /\ Len(data) \in Nat
  BY LenProperties
<1>2. m \in Int /\ n \in Int /\ m \in Nat /\ n \in Nat
  BY <1>1
<1>3. \A i \in m..n : data[i] \in Nat
  <2>1. \A i \in m..n : i \in 1..Len(data)
    BY <1>1, <1>2
  <2> QED
    BY <2>1, ElementOfSeq
<1> HIDE DEF m, n
<1>4. /\ d \in Seq(Nat) /\ Len(d) = IF m <= n THEN n - m + 1 ELSE 0
      /\ \A i \in 1..(n - m + 1) : d[i] = data[m + i - 1]
  BY ONLY <1>2, <1>3, SubSeqProperties
<1> HIDE DEF d
<1>5. Len(d) = Len(b) - 2
  <2>1. Len(d) = IF m <= n THEN n - m + 1 ELSE 0
    BY <1>4
  <2>2. m = from + 3 /\ n = from + Len(b)
    BY DEF m, n
  <2>3. CASE Len(b) = 2
    <3>1. ~(m <= n)
      BY <2>2, <2>3
    <3> QED
      BY <2>1, <2>3, <3>1
  <2>4. CASE Len(b) # 2
    <3> DEFINE l == Len(b)
    <3>1. l \in Nat /\ l >= 2 /\ l # 2
      BY <1>1, <2>4
    <3>2. l \in Nat /\ l >= 3
      <4> HIDE DEF l
      <4> QED
        BY <3>1
    <3>3. m = from + 3 /\ n = from + l
      BY <2>2
    <3> HIDE DEF l
    <3>4. m <= n /\ n - m + 1 = l - 2
      BY <3>2, <3>3
    <3> USE DEF l
    <3> QED
      BY <2>1, <3>4
  <2> QED
    BY <2>3, <2>4
<1>6. ASSUME NEW k \in 1..(Len(b) - 2) PROVE d[k] = b[k + 2]
  <2>1. k \in 1..(n - m + 1) /\ m + k - 1 = from + (k + 2) /\ k + 2 \in 1..Len(b)
    BY <1>1 DEF m, n
  <2> QED
    BY <1>4, <2>1
<1> QED
  BY <1>4, <1>5, <1>6 DEF Payload, d, m, n

(* What the options that a reason is given under make of it. *)
Reading(p, reasons) ==
    [wake |-> reasons # {}, learn |-> IF "stadia" \in reasons THEN {p} ELSE {}]

(* The structures, by their lengths and bytes. *)
Rows(b, by) ==
    \/ Len(b) = 1 /\ b[1] = 0 /\ b = <<0>> /\ by = {}
    \/ Len(b) = 2 /\ b[1] = 1 /\ b[2] = 9 /\ by = {}
    \/ Len(b) = 3 /\ b[1] = 2 /\ b[2] = 9 /\ b[3] = 65 /\ by = {}
    \/ Len(b) = 3 /\ b[1] = 2 /\ b[2] = 9 /\ b[3] = 83 /\ by = {"stadia", "name"}
    \/ Len(b) = 4 /\ b[1] = 3 /\ b[2] = 8 /\ b[3] = 65 /\ b[4] = 83 /\ by = {"name"}
    \/ Len(b) = 6 /\ b[1] = 5 /\ b[2] = 3 /\ b[3] = 0 /\ b[4] = 0 /\ b[5] = 18 /\ b[6] = 24
           /\ by = {"hid"}
    \/ Len(b) = 6 /\ b[1] = 5 /\ b[2] = 2 /\ b[3] = 0 /\ b[4] = 18 /\ b[5] = 24 /\ b[6] = 0
           /\ by = {}
    \/ Len(b) = 4 /\ b[1] = 3 /\ b[2] = 22 /\ b[3] = 18 /\ b[4] = 24 /\ by = {"hid"}
    \/ Len(b) = 4 /\ b[1] = 3 /\ b[2] = 25 /\ b[3] = 193 /\ b[4] = 3 /\ by = {"hid"}
    \/ Len(b) = 4 /\ b[1] = 3 /\ b[2] = 25 /\ b[3] = 128 /\ b[4] = 3 /\ by = {}

(* The structures of the reference are these rows.                          *)
LEMMA StructureRows ==
    ASSUME NEW st \in Structure
    PROVE  st.bytes \in Seq(Nat) /\ Rows(st.bytes, st.by)
<1> DEFINE b == st.bytes
<1>1. CASE st = [bytes |-> <<0>>, by |-> {}]
  BY <1>1 DEF Rows
<1>2. CASE st = [bytes |-> <<1, 9>>, by |-> {}]
  BY <1>2 DEF Rows
<1>3. CASE st = [bytes |-> <<2, 9, 83>>, by |-> {"stadia", "name"}]
  BY <1>3 DEF Rows
<1>4. CASE st = [bytes |-> <<3, 8, 65, 83>>, by |-> {"name"}]
  BY <1>4 DEF Rows
<1>5. CASE st = [bytes |-> <<5, 3, 0, 0, 18, 24>>, by |-> {"hid"}]
  BY <1>5 DEF Rows
<1>6. CASE st = [bytes |-> <<5, 2, 0, 18, 24, 0>>, by |-> {}]
  BY <1>6 DEF Rows
<1>7. CASE st = [bytes |-> <<3, 22, 18, 24>>, by |-> {"hid"}]
  BY <1>7 DEF Rows
<1>8. CASE st = [bytes |-> <<3, 25, 193, 3>>, by |-> {"hid"}]
  BY <1>8 DEF Rows
<1>9. CASE st = [bytes |-> <<3, 25, 128, 3>>, by |-> {}]
  BY <1>9 DEF Rows
<1>10. CASE st = [bytes |-> <<2, 9, 65>>, by |-> {}]
  BY <1>10 DEF Rows
<1> QED
  BY <1>1, <1>2, <1>3, <1>4, <1>5, <1>6, <1>7, <1>8, <1>9, <1>10, Zenon
     DEF Structure, StadiaWord

(* The length byte of a structure counts the bytes behind it.               *)
LEMMA StructuresRead ==
    ASSUME NEW st \in Structure
    PROVE  /\ st.bytes \in Seq(Nat) /\ Len(st.bytes) \in Nat /\ Len(st.bytes) >= 1
           /\ st.bytes = <<0>> => st.bytes[1] = 0 /\ Len(st.bytes) = 1
           /\ st.bytes # <<0>> => st.bytes[1] = Len(st.bytes) - 1 /\ Len(st.bytes) >= 2
           /\ st.by \in {{}, {"stadia", "name"}, {"name"}, {"hid"}}
<1> DEFINE b == st.bytes
<1>1. b \in Seq(Nat) /\ Rows(b, st.by)
  BY StructureRows
<1>2. b = <<0>> => b[1] = 0
  OBVIOUS
<1> HIDE DEF b
<1>3. st.by \in {{}, {"stadia", "name"}, {"name"}, {"hid"}}
  BY <1>1, Zenon DEF Rows
<1> DEFINE n == Len(b)
           m == b[1]
<1>4. \/ n = 1 /\ m = 0 /\ b = <<0>>
      \/ (n = 2 /\ m = 1) \/ (n = 3 /\ m = 2) \/ (n = 4 /\ m = 3) \/ (n = 6 /\ m = 5)
  BY <1>1, Zenon DEF Rows
<1> HIDE DEF n, m
<1>5. n \in Nat /\ n >= 1
  BY <1>4
<1>6. b = <<0>> => m = 0 /\ n = 1
  BY <1>2, <1>4 DEF m
<1>7. b # <<0>> => m = n - 1 /\ n >= 2
  BY <1>4
<1> USE DEF n, m
<1> QED
  BY <1>1, <1>3, <1>5, <1>6, <1>7 DEF b

(* The structures are a reason under the options that they name.            *)
LEMMA StructuresMatch ==
    ASSUME NEW on, NEW p, NEW st \in Structure, st.bytes # << 0 >>, NEW d, Payload(st.bytes, d)
    PROVE  StructureMatches(on, p, st.bytes[2], d) = Reading(p, st.by \cap on)
<1> DEFINE b == st.bytes
           t == b[2]
<1> SUFFICES /\ IsStadia(t, d) <=> "stadia" \in st.by
             /\ IsHid(t, d) <=> "hid" \in st.by
             /\ IsController(t, d) <=> "name" \in st.by
  <2>1. st.by \in {{}, {"stadia", "name"}, {"name"}, {"hid"}}
    BY StructuresRead
  <2> DEFINE by == st.by
  <2> HIDE DEF t, by
  <2>2. StructureMatches(on, p, t, d) = Reading(p, by \cap on)
    BY <2>1 DEF by, StructureMatches, Reading, Ignored, Wakes
  <2> QED
    BY <2>2 DEF t, by
<1>1. Rows(b, st.by) /\ b # <<0>>
  BY StructureRows
<1> HIDE DEF b
<1>2. Len(d) = Len(b) - 2 /\ DOMAIN d = 1..Len(d) /\ \A k \in 1..(Len(b) - 2) : d[k] = b[k + 2]
  BY DEF Payload, b
<1>3. d = <<>> => Len(d) = 0
  OBVIOUS
<1>4. CASE Len(b) = 2 /\ b[1] = 1 /\ b[2] = 9 /\ st.by = {}
  BY <1>2, <1>4 DEF IsStadia, IsHid, IsController
<1>5. CASE Len(b) = 3 /\ b[1] = 2 /\ b[2] = 9 /\ b[3] = 83 /\ st.by = {"stadia", "name"}
  <2>1. Len(d) = 1 /\ d[1] = 83
    BY <1>2, <1>5
  <2> QED
    BY <1>2, <1>3, <1>5, <2>1 DEF IsStadia, IsHid, IsController, StadiaWord, GamepadWord
<1>6. CASE Len(b) = 4 /\ b[1] = 3 /\ b[2] = 8 /\ b[3] = 65 /\ b[4] = 83 /\ st.by = {"name"}
  <2>1. Len(d) = 2 /\ d[1] = 65 /\ d[2] = 83
    BY <1>2, <1>6
  <2> QED
    BY <1>2, <1>3, <1>6, <2>1 DEF IsStadia, IsHid, IsController, StadiaWord, GamepadWord
<1>7. CASE /\ Len(b) = 6 /\ b[1] = 5 /\ b[2] = 3 /\ b[3] = 0 /\ b[4] = 0 /\ b[5] = 18 /\ b[6] = 24
           /\ st.by = {"hid"}
  <2>1. Len(d) = 4 /\ d[3] = 18 /\ d[4] = 24
    BY <1>2, <1>7
  <2>2. 3 \in 1..(Len(d) - 1) /\ 3 % 2 = 1 /\ Uint16(d, 3) = HidService
    BY <2>1 DEF Uint16, HidService
  <2> QED
    BY <1>7, <2>2 DEF IsStadia, IsHid, IsController
<1>8. CASE /\ Len(b) = 6 /\ b[1] = 5 /\ b[2] = 2 /\ b[3] = 0 /\ b[4] = 18 /\ b[5] = 24 /\ b[6] = 0
           /\ st.by = {}
  <2>1. Len(d) = 4 /\ d[1] = 0 /\ d[2] = 18 /\ d[3] = 24 /\ d[4] = 0
    BY <1>2, <1>8
  <2>2. \A i \in 1..(Len(d) - 1) : i % 2 = 1 => i \in {1, 3}
    BY <2>1
  <2>3. Uint16(d, 1) # HidService /\ Uint16(d, 3) # HidService
    BY <2>1 DEF Uint16, HidService
  <2> QED
    BY <1>8, <2>2, <2>3 DEF IsStadia, IsHid, IsController
<1>9. CASE Len(b) = 4 /\ b[1] = 3 /\ b[2] = 22 /\ b[3] = 18 /\ b[4] = 24 /\ st.by = {"hid"}
  <2>1. Len(d) = 2 /\ d[1] = 18 /\ d[2] = 24
    BY <1>2, <1>9
  <2>2. Len(d) >= 2 /\ Uint16(d, 1) = HidService
    BY <2>1 DEF Uint16, HidService
  <2> QED
    BY <1>9, <2>2 DEF IsStadia, IsHid, IsController
<1>10. CASE Len(b) = 4 /\ b[1] = 3 /\ b[2] = 25 /\ b[3] = 193 /\ b[4] = 3 /\ st.by = {"hid"}
  <2>1. Len(d) = 2 /\ d[1] = 193 /\ d[2] = 3
    BY <1>2, <1>10
  <2>2. Len(d) >= 2 /\ Uint16(d, 1) \div 64 = HidCategory
    BY <2>1 DEF Uint16, HidCategory
  <2> QED
    BY <1>10, <2>2 DEF IsStadia, IsHid, IsController
<1>11. CASE Len(b) = 4 /\ b[1] = 3 /\ b[2] = 25 /\ b[3] = 128 /\ b[4] = 3 /\ st.by = {}
  <2>1. Len(d) = 2 /\ d[1] = 128 /\ d[2] = 3
    BY <1>2, <1>11
  <2>2. Uint16(d, 1) \div 64 # HidCategory
    BY <2>1 DEF Uint16, HidCategory
  <2> QED
    BY <1>11, <2>2 DEF IsStadia, IsHid, IsController
<1>12. CASE Len(b) = 3 /\ b[1] = 2 /\ b[2] = 9 /\ b[3] = 65 /\ st.by = {}
  <2>1. Len(d) = 1 /\ d[1] = 65
    BY <1>2, <1>12
  <2> QED
    BY <1>2, <1>12, <2>1 DEF IsStadia, IsHid, IsController, StadiaWord, GamepadWord
<1> QED
  BY <1>1, <1>4, <1>5, <1>6, <1>7, <1>8, <1>9, <1>10, <1>11, <1>12, Zenon DEF Rows

(* The Min of the community modules, of a set of numbers with a least one.  *)
LEMMA MinIs ==
    ASSUME NEW T, T \subseteq Nat, NEW m \in T, \A k \in T : m <= k
    PROVE  Min(T) = m
<1>1. \A x \in T : (\A y \in T : x <= y) => x = m
  OBVIOUS
<1> QED
  BY <1>1 DEF Min

(* Places that each lie a length behind the one before never fall.          *)
LEMMA Rising ==
    ASSUME NEW m \in Nat, NEW e, NEW len,
           \A i \in 0..m : e[i] \in Nat,
           \A i \in 1..m : e[i] = e[i - 1] + len[i] /\ len[i] \in Nat
    PROVE  \A i, j \in 0..m : i <= j => e[i] <= e[j]
<1> SUFFICES ASSUME NEW i \in 0..m, NEW j \in 0..m, i <= j
             PROVE  e[i] <= e[j]
  OBVIOUS
<1> DEFINE Bad == {k \in i..m : ~(e[i] <= e[k])}
<1>1. Bad = {}
  <2> SUFFICES ASSUME Bad # {} PROVE FALSE
    OBVIOUS
  <2>1. PICK k \in Bad : \A n \in Bad : k <= n
    <3>1. Bad \subseteq Nat
      OBVIOUS
    <3> HIDE DEF Bad
    <3> QED
      BY <3>1, LeastExists
  <2>2. k \in i..m /\ k # i /\ ~(e[i] <= e[k])
    OBVIOUS
  <2>3. k - 1 \in i..m /\ k - 1 \notin Bad /\ k \in 1..m
    BY <2>1, <2>2
  <2>4. e[i] <= e[k - 1] /\ e[k] = e[k - 1] + len[k] /\ len[k] \in Nat
    BY <2>3
  <2>5. e[k] \in Nat /\ e[k - 1] \in Nat /\ e[i] \in Nat
    BY <2>3
  <2> QED
    BY <2>2, <2>4, <2>5
<1> QED
  BY <1>1

(* Any number of structures in a report, with any address and event.        *)
Report == [event : Nat, type : Nat, addr : Nat, ads : Seq(Structure), cut : {0, 1}]

(* Its structures as sequences of bytes.                                    *)
Parts(r) == [i \in DOMAIN r.ads |-> r.ads[i].bytes]

(* Where the structures of a report lie, and how much is left of its data.  *)
LEMMA DataIs ==
    ASSUME NEW r \in Report
    PROVE  /\ Len(r.ads) \in Nat /\ Data(r) \in Seq(Nat) /\ AllData(r) \in Seq(Nat)
           /\ Len(AllData(r)) \in Nat
           /\ Len(Data(r)) = IF Len(AllData(r)) = 0 THEN 0 ELSE Len(AllData(r)) - r.cut
           /\ \A k \in 1..Len(Data(r)) : Data(r)[k] = AllData(r)[k]
           /\ Len(Parts(r)) = Len(r.ads) /\ Places(AllData(r), Parts(r))
           /\ \A i \in 1..Len(r.ads) : r.ads[i] \in Structure /\ Parts(r)[i] = r.ads[i].bytes
<1>1. r.ads \in Seq(Structure) /\ r.cut \in {0, 1}
  BY DEF Report
<1>2. /\ Len(r.ads) \in Nat /\ DOMAIN r.ads = 1..Len(r.ads)
      /\ \A i \in 1..Len(r.ads) : r.ads[i] \in Structure
  BY <1>1, LenProperties, ElementOfSeq
<1>3. Parts(r) \in Seq(Seq(Nat)) /\ Len(Parts(r)) = Len(r.ads)
      /\ \A i \in 1..Len(r.ads) : Parts(r)[i] = r.ads[i].bytes
  <2> DEFINE n == Len(r.ads)
             t == [i \in 1..n |-> r.ads[i].bytes]
  <2>1. \A i \in 1..n : r.ads[i].bytes \in Seq(Nat)
    BY <1>2, StructuresRead
  <2>2. n \in Nat
    BY <1>2
  <2>3. Parts(r) = t
    BY <1>2 DEF Parts
  <2> HIDE DEF n
  <2>4. t \in Seq(Seq(Nat)) /\ Len(t) = n /\ \A i \in 1..n : t[i] = r.ads[i].bytes
    BY <2>1, <2>2
  <2> QED
    BY <2>3, <2>4, Zenon DEF n
<1>4. AllData(r) \in Seq(Nat) /\ Places(AllData(r), Parts(r))
  <2>1. AllData(r) = FlattenSeq(Parts(r))
    BY Zenon DEF AllData, Parts
  <2> QED
    BY <1>3, <2>1, FlattenPlaces
<1> DEFINE all == AllData(r)
           l == Len(all)
           d == SubSeq(all, 1, l - r.cut)
<1>5. l \in Nat /\ all \in Seq(Nat)
  BY <1>4, LenProperties
<1>6. Data(r) = d
  BY Zenon DEF Data
<1> HIDE DEF all
<1>7. /\ d \in Seq(Nat)
      /\ Len(d) = IF 1 <= l - r.cut THEN l - r.cut - 1 + 1 ELSE 0
      /\ \A k \in 1..(l - r.cut - 1 + 1) : d[k] = all[1 + k - 1]
  <2> DEFINE n == l - r.cut
  <2>1. n \in Int /\ 1 \in Int
    BY <1>1, <1>5
  <2>2. \A k \in 1..n : all[k] \in Nat
    <3>1. \A k \in 1..n : k \in 1..l
      BY <1>1, <1>5
    <3> QED
      BY <1>5, <3>1, ElementOfSeq
  <2> HIDE DEF n
  <2>3. /\ SubSeq(all, 1, n) \in Seq(Nat)
        /\ Len(SubSeq(all, 1, n)) = IF 1 <= n THEN n - 1 + 1 ELSE 0
        /\ \A k \in 1..(n - 1 + 1) : SubSeq(all, 1, n)[k] = all[1 + k - 1]
    BY <2>1, <2>2, SubSeqProperties
  <2> QED
    BY <2>3 DEF n
<1> HIDE DEF d, l
<1>8. Len(d) = IF l = 0 THEN 0 ELSE l - r.cut
  BY <1>1, <1>5, <1>7
<1>9. \A k \in 1..Len(d) : d[k] = all[k]
  BY <1>1, <1>5, <1>7, <1>8
<1> QED
  BY <1>2, <1>3, <1>4, <1>5, <1>6, <1>7, <1>8, <1>9 DEF l, all

(* The structures that count are the first ones, up to some number. *)
LEMMA CountingIs ==
    ASSUME NEW r \in Report
    PROVE  \E n \in 0..Len(r.ads) :
              /\ \A i \in 1..Len(r.ads) : Counts(r, i) <=> i <= n
              /\ n < Len(r.ads) => r.ads[n + 1].bytes = <<0>> \/ (n + 1 = Len(r.ads) /\ r.cut = 1)
<1> DEFINE m == Len(r.ads)
           T == {n \in 0..m : \A i \in (n + 1)..m : ~Counts(r, i)}
<1>1. m \in Nat /\ r.cut \in {0, 1}
  BY DataIs DEF Report
<1>2. PICK n \in T : \A k \in T : n <= k
  <2>1. m \in T /\ T \subseteq Nat
    BY <1>1
  <2> HIDE DEF T
  <2> QED
    BY <2>1, LeastExists
<1>3. n \in 0..m /\ \A i \in (n + 1)..m : ~Counts(r, i)
  OBVIOUS
<1>4. n # 0 => Counts(r, n)
  <2> SUFFICES ASSUME n # 0, ~Counts(r, n) PROVE FALSE
    OBVIOUS
  <2>1. n - 1 \in 0..m /\ \A i \in ((n - 1) + 1)..m : i = n \/ i \in (n + 1)..m
    BY <1>1, <1>3
  <2>2. n - 1 \in T
    BY <1>3, <2>1
  <2> HIDE DEF T
  <2> QED
    BY <1>2, <1>3, <2>2
<1> HIDE DEF T
<1>5. ASSUME NEW i \in 1..n PROVE Counts(r, i)
  <2>1. n # 0 /\ n \in Nat /\ i \in 1..m /\ (i < m \/ i = n)
    BY <1>1, <1>3
  <2>2. Counts(r, n)
    BY <1>4, <2>1
  <2>3. i < m \/ r.cut = 0
    BY <2>1, <2>2 DEF Counts
  <2>4. \A j \in 1..i : r.ads[j].bytes # <<0>>
    <3>1. \A j \in 1..i : j \in 1..n
      BY <1>3
    <3> QED
      BY <2>2, <3>1 DEF Counts
  <2> QED
    BY <2>3, <2>4 DEF Counts
<1>6. \A i \in 1..m : Counts(r, i) <=> i <= n
  <2> SUFFICES ASSUME NEW i \in 1..m PROVE Counts(r, i) <=> i <= n
    OBVIOUS
  <2>1. i \in 1..n \/ i \in (n + 1)..m
    BY <1>1, <1>3
  <2>2. i \in 1..n <=> i <= n
    BY <1>1, <1>3
  <2> QED
    BY <1>3, <1>5, <2>1, <2>2
<1>7. n < m => r.ads[n + 1].bytes = <<0>> \/ (n + 1 = m /\ r.cut = 1)
  <2> SUFFICES ASSUME n < m, ~(n + 1 = m /\ r.cut = 1) PROVE r.ads[n + 1].bytes = <<0>>
    OBVIOUS
  <2>1. n + 1 \in (n + 1)..m /\ (n + 1 < m \/ r.cut = 0)
    BY <1>1, <1>3
  <2>2. \E j \in 1..(n + 1) : r.ads[j].bytes = <<0>>
    BY <1>3, <2>1 DEF Counts
  <2>3. PICK j \in 1..(n + 1) : r.ads[j].bytes = <<0>>
    BY <2>2
  <2>4. \A i \in 1..n : r.ads[i].bytes # <<0>>
    <3> SUFFICES ASSUME NEW i \in 1..n PROVE r.ads[i].bytes # <<0>>
      OBVIOUS
    <3>1. i \in 1..i
      BY <1>3
    <3> QED
      BY <1>5, <3>1 DEF Counts
  <2>5. j = n + 1
    BY <1>3, <2>3, <2>4
  <2> QED
    BY <2>3, <2>5
<1> QED
  BY <1>3, <1>6, <1>7 DEF m

(* Where structure i of a report begins in its data. *)
Begin(r, i) == 1 + End(Parts(r), i - 1)

(* The structures begin one behind the other, inside of the data.           *)
LEMMA BeginIs ==
    ASSUME NEW r \in Report
    PROVE  /\ Begin(r, 1) = 1 /\ Begin(r, Len(r.ads) + 1) = Len(AllData(r)) + 1
           /\ \A i \in 1..Len(r.ads) :
                  /\ Begin(r, i) \in Nat /\ Begin(r, i) >= 1
                  /\ Begin(r, i + 1) = Begin(r, i) + Len(r.ads[i].bytes)
                  /\ Begin(r, i + 1) <= Len(AllData(r)) + 1
                  /\ i < Len(r.ads) => Begin(r, i + 1) <= Len(AllData(r))
                  /\ \A k \in 1..Len(r.ads[i].bytes) :
                        AllData(r)[Begin(r, i) - 1 + k] = r.ads[i].bytes[k]
<1> DEFINE m == Len(r.ads)
           s == Parts(r)
           e == [i \in 0..m |-> End(s, i)]
           len == [i \in 1..m |-> Len(s[i])]
           all == AllData(r)
<1>1. m \in Nat /\ Len(s) = m
  BY DataIs
<1>2. Places(all, s)
  BY DataIs
<1>3. \A i \in 1..m : s[i] = r.ads[i].bytes /\ Len(s[i]) \in Nat /\ Len(s[i]) >= 1
  BY DataIs, StructuresRead
<1>4. /\ End(s, 0) = 0 /\ Len(all) = End(s, m)
      /\ \A i \in 0..m : End(s, i) \in Nat
      /\ \A i \in 1..m : /\ End(s, i) = End(s, i - 1) + Len(s[i])
                         /\ \A k \in 1..Len(s[i]) : all[End(s, i - 1) + k] = s[i][k]
  BY <1>1, <1>2 DEF Places
<1> HIDE DEF s, m, all
<1>5. \A i, j \in 0..m : i <= j => End(s, i) <= End(s, j)
  <2>1. \A i \in 0..m : e[i] = End(s, i) /\ e[i] \in Nat
    BY <1>4
  <2>2. \A i \in 1..m : i \in 0..m /\ i - 1 \in 0..m /\ len[i] = Len(s[i])
    BY <1>1
  <2> HIDE DEF e, len
  <2>3. \A i \in 1..m : e[i] = e[i - 1] + len[i] /\ len[i] \in Nat
    BY <1>3, <1>4, <2>1, <2>2
  <2>4. \A i, j \in 0..m : i <= j => e[i] <= e[j]
    BY <1>1, <2>1, <2>3, Rising
  <2> QED
    BY <2>1, <2>4
<1>6. \A i \in 1..m : i \in 0..m /\ i - 1 \in 0..m /\ i <= m /\ (i + 1) - 1 = i
  BY <1>1
<1>7. Begin(r, 1) = 1 /\ Begin(r, m + 1) = Len(all) + 1
  <2>1. 1 - 1 = 0 /\ (m + 1) - 1 = m
    BY <1>1
  <2> QED
    BY <1>4, <2>1 DEF Begin, s
<1>8. \A i \in 1..m : Begin(r, i) = 1 + End(s, i - 1) /\ Begin(r, i + 1) = 1 + End(s, i)
  BY <1>6 DEF Begin, s
<1>9. ASSUME NEW i \in 1..m
      PROVE  /\ Begin(r, i) \in Nat /\ Begin(r, i) >= 1
             /\ Begin(r, i + 1) = Begin(r, i) + Len(s[i])
             /\ Begin(r, i + 1) <= Len(all) + 1
             /\ i < m => Begin(r, i + 1) <= Len(all)
             /\ \A k \in 1..Len(s[i]) : all[Begin(r, i) - 1 + k] = s[i][k]
  <2>1. /\ End(s, i) \in Nat /\ End(s, i - 1) \in Nat /\ Len(s[i]) \in Nat
        /\ End(s, i) = End(s, i - 1) + Len(s[i])
    BY <1>3, <1>4, <1>6
  <2>2. End(s, i) <= End(s, m) /\ Len(all) = End(s, m) /\ End(s, m) \in Nat
    BY <1>1, <1>4, <1>5, <1>6
  <2>3. i < m => End(s, i) < End(s, m)
    <3> SUFFICES ASSUME i < m PROVE End(s, i) < End(s, m)
      OBVIOUS
    <3>1. i + 1 \in 1..m /\ i + 1 \in 0..m /\ (i + 1) - 1 = i /\ m \in 0..m
      BY <1>1
    <3>2. End(s, i + 1) = End(s, i) + Len(s[i + 1]) /\ Len(s[i + 1]) >= 1 /\ Len(s[i + 1]) \in Nat
      BY <1>3, <1>4, <3>1
    <3>3. End(s, i + 1) <= End(s, m) /\ End(s, i + 1) \in Nat
      BY <1>1, <1>4, <1>5, <3>1
    <3> QED
      BY <2>1, <2>2, <3>2, <3>3
  <2>4. Begin(r, i) = 1 + End(s, i - 1) /\ Begin(r, i + 1) = 1 + End(s, i)
    BY <1>8
  <2>5. Begin(r, i) - 1 = End(s, i - 1)
    BY <2>1, <2>4
  <2>6. \A k \in 1..Len(s[i]) : all[Begin(r, i) - 1 + k] = s[i][k]
    BY <1>4, <2>5
  <2> QED
    BY <2>1, <2>2, <2>3, <2>4, <2>6, SMTT(30)
<1> QED
  BY <1>3, <1>7, <1>9 DEF m, all

(* The structures that count are read where they were put, and behind them  *)
(* there is none.                                                           *)
LEMMA CountingRead ==
    ASSUME NEW r \in Report, NEW n \in 0..Len(r.ads),
           \A i \in 1..Len(r.ads) : Counts(r, i) <=> i <= n,
           n < Len(r.ads) => r.ads[n + 1].bytes = << 0 >> \/ (n + 1 = Len(r.ads) /\ r.cut = 1)
    PROVE  /\ \A i \in 1..n : /\ ~NoStructure(Data(r), Begin(r, i))
                              /\ NextStructure(Data(r), Begin(r, i)) = Begin(r, i + 1)
           /\ NoStructure(Data(r), Begin(r, n + 1))
           /\ \A on, p : \A i \in 1..n :
                  StructureAt(on, p, Data(r), Begin(r, i)) = Reading(p, r.ads[i].by \cap on)
<1> DEFINE m == Len(r.ads)
           all == AllData(r)
           data == Data(r)
           l == Len(all)
           b(i) == r.ads[i].bytes
<1>1. m \in Nat /\ l \in Nat /\ r.cut \in {0, 1} /\ data \in Seq(Nat)
  BY DataIs DEF Report
<1>2. Len(data) = IF l = 0 THEN 0 ELSE l - r.cut
  BY DataIs
<1>3. \A k \in 1..Len(data) : data[k] = all[k]
  BY DataIs
<1>4. /\ Begin(r, 1) = 1 /\ Begin(r, m + 1) = l + 1
      /\ \A i \in 1..m :
            /\ Begin(r, i) \in Nat /\ Begin(r, i) >= 1
            /\ Begin(r, i + 1) = Begin(r, i) + Len(b(i))
            /\ Begin(r, i + 1) <= l + 1
            /\ i < m => Begin(r, i + 1) <= l
            /\ \A k \in 1..Len(b(i)) : all[Begin(r, i) - 1 + k] = b(i)[k]
  BY BeginIs
<1>5. \A i \in 1..m :
         /\ r.ads[i] \in Structure /\ b(i) \in Seq(Nat) /\ Len(b(i)) \in Nat /\ Len(b(i)) >= 1
         /\ b(i) = <<0>> => b(i)[1] = 0 /\ Len(b(i)) = 1
         /\ b(i) # <<0>> => b(i)[1] = Len(b(i)) - 1 /\ Len(b(i)) >= 2
  BY DataIs, StructuresRead
<1>6. n \in 0..m /\ \A i \in 1..m : Counts(r, i) <=> i <= n
  OBVIOUS
<1>7. n < m => b(n + 1) = <<0>> \/ (n + 1 = m /\ r.cut = 1)
  OBVIOUS
<1> HIDE DEF m, all, data, l, b
<1>8. ASSUME NEW i \in 1..n
      PROVE  /\ i \in 1..m /\ b(i) # <<0>>
             /\ Begin(r, i) \in Nat /\ Begin(r, i) >= 1 /\ Len(b(i)) \in Nat /\ Len(b(i)) >= 2
             /\ Begin(r, i + 1) = Begin(r, i) + Len(b(i))
             /\ Begin(r, i + 1) <= Len(data) + 1
             /\ \A k \in 1..Len(b(i)) : data[Begin(r, i) - 1 + k] = b(i)[k]
  <2>1. i \in 1..m /\ i <= n /\ i \in 1..i
    BY <1>1, <1>6
  <2>2. (i < m \/ r.cut = 0) /\ b(i) # <<0>>
    BY <1>6, <2>1 DEF Counts, b, m
  <2>3. /\ Begin(r, i) \in Nat /\ Begin(r, i) >= 1 /\ Len(b(i)) \in Nat /\ Len(b(i)) >= 2
        /\ Begin(r, i + 1) = Begin(r, i) + Len(b(i))
        /\ Begin(r, i + 1) <= l + 1
        /\ i < m => Begin(r, i + 1) <= l
    BY <1>4, <1>5, <2>1, <2>2
  <2>4. Begin(r, i + 1) <= Len(data) + 1
    <3> DEFINE x == Begin(r, i + 1)
               y == Begin(r, i)
               w == Len(b(i))
    <3>1. y \in Nat /\ w \in Nat /\ x = y + w /\ y >= 1 /\ w >= 2 /\ x <= l + 1 /\ (i < m => x <= l)
      BY <2>3
    <3> HIDE DEF x, y, w
    <3>2. x <= Len(data) + 1
      BY <1>1, <1>2, <2>2, <3>1
    <3> QED
      BY <3>2 DEF x
  <2>5. Len(data) \in Nat
    BY <1>1, LenProperties
  <2>6. ASSUME NEW k \in 1..Len(b(i)) PROVE data[Begin(r, i) - 1 + k] = b(i)[k]
    <3>1. Begin(r, i) - 1 + k \in 1..Len(data)
      <4> DEFINE x == Begin(r, i + 1)
                 y == Begin(r, i)
                 w == Len(b(i))
                 z == Len(data)
      <4>1. y \in Nat /\ w \in Nat /\ x = y + w /\ y >= 1 /\ x <= z + 1 /\ z \in Nat /\ k \in 1..w
        BY <2>3, <2>4, <2>5
      <4> HIDE DEF x, y, w, z
      <4>2. y - 1 + k \in 1..z
        BY <4>1
      <4> QED
        BY <4>2 DEF y, z
    <3> QED
      BY <1>3, <1>4, <2>1, <3>1
  <2> QED
    BY <2>1, <2>2, <2>3, <2>4, <2>6
<1>9. ASSUME NEW i \in 1..n
      PROVE  /\ ~NoStructure(data, Begin(r, i))
             /\ NextStructure(data, Begin(r, i)) = Begin(r, i + 1)
             /\ \A on, p : StructureAt(on, p, data, Begin(r, i)) = Reading(p, r.ads[i].by \cap on)
  <2> DEFINE y == Begin(r, i)
             w == Len(b(i))
             z == Len(data)
  <2>1. /\ y \in Nat /\ y >= 1 /\ w \in Nat /\ w >= 2 /\ Begin(r, i + 1) = y + w
        /\ y + w <= z + 1 /\ b(i) # <<0>> /\ i \in 1..m
        /\ \A k \in 1..w : data[y - 1 + k] = b(i)[k]
    BY <1>8
  <2>2. z \in Nat
    BY <1>1, LenProperties
  <2>3. r.ads[i] \in Structure /\ b(i) \in Seq(Nat) /\ b(i)[1] = w - 1
    BY <1>5, <2>1
  <2> HIDE DEF y, w, z
  <2>4. 1 \in 1..w /\ 2 \in 1..w /\ y - 1 + 1 = y /\ y - 1 + 2 = y + 1
    BY <2>1
  <2>5. data[y] = w - 1 /\ data[y + 1] = b(i)[2]
    BY <2>1, <2>3, <2>4
  <2>6. ~(y > z) /\ w - 1 # 0 /\ ~(w - 1 > z - y) /\ y + 1 + (w - 1) = y + w
    BY <2>1, <2>2
  <2>7. ~NoStructure(data, y)
    BY <2>5, <2>6 DEF NoStructure, z
  <2>8. NextStructure(data, y) = y + w
    BY <2>5, <2>6 DEF NextStructure
  <2>9. Payload(b(i), SubSeq(data, y + 2, y + (w - 1)))
    <3> DEFINE from == y - 1
    <3>1. from \in Nat /\ from + w <= z /\ from + 3 = y + 2 /\ from + w = y + (w - 1)
      BY <2>1, <2>2
    <3>2. Len(b(i)) = w /\ Len(data) = z
      BY DEF w, z
    <3>3. \A k \in 1..w : data[from + k] = b(i)[k]
      BY <2>1
    <3> HIDE DEF from
    <3>4. Payload(b(i), SubSeq(data, from + 3, from + Len(b(i))))
      BY <1>1, <2>1, <2>3, <3>1, <3>2, <3>3, PayloadIs
    <3> QED
      BY <3>1, <3>2, <3>4
  <2>10. ASSUME NEW on, NEW p
         PROVE  StructureAt(on, p, data, y) = Reading(p, r.ads[i].by \cap on)
    <3>1. StructureAt(on, p, data, y)
             = StructureMatches(on, p, b(i)[2], SubSeq(data, y + 2, y + (w - 1)))
      BY <2>5, Zenon DEF StructureAt
    <3> QED
      BY <2>1, <2>3, <2>9, <3>1, StructuresMatch DEF b
  <2> QED
    BY <2>1, <2>7, <2>8, <2>10 DEF y
<1>10. NoStructure(data, Begin(r, n + 1))
  <2> DEFINE y == Begin(r, n + 1)
             z == Len(data)
  <2>1. CASE n = m
    <3>1. y = l + 1 /\ z <= l
      BY <1>1, <1>2, <1>4, <2>1
    <3>2. y > z
      BY <1>1, <1>2, <3>1
    <3> QED
      BY <3>2 DEF NoStructure
  <2>2. CASE n # m
    <3> DEFINE w == Len(b(n + 1))
    <3>1. n + 1 \in 1..m /\ n < m
      BY <1>1, <1>6, <2>2
    <3>2. /\ y \in Nat /\ y >= 1 /\ Begin(r, (n + 1) + 1) = y + w
          /\ \A k \in 1..w : all[y - 1 + k] = b(n + 1)[k]
      BY <1>4, <3>1
    <3>3. /\ w \in Nat /\ w >= 1
          /\ b(n + 1) = <<0>> => b(n + 1)[1] = 0
          /\ b(n + 1) # <<0>> => b(n + 1)[1] = w - 1 /\ w >= 2
      BY <1>5, <3>1
    <3>4. z \in Nat
      BY <1>1, LenProperties
    <3>5. all[y] = b(n + 1)[1]
      <4>1. 1 \in 1..w /\ y - 1 + 1 = y
        BY <3>2, <3>3
      <4> QED
        BY <3>2, <4>1
    <3>6. CASE y > z
      BY <3>6 DEF NoStructure
    <3>7. CASE y <= z
      <4>1. data[y] = b(n + 1)[1]
        BY <1>3, <3>2, <3>4, <3>5, <3>7
      <4>2. CASE b(n + 1) = <<0>>
        BY <3>3, <4>1, <4>2 DEF NoStructure
      <4>3. CASE b(n + 1) # <<0>>
        <5>1. data[y] = w - 1 /\ w >= 2
          BY <3>3, <4>1, <4>3
        <5>2. n + 1 = m /\ r.cut = 1
          BY <1>7, <3>1, <4>3
        <5>3. y + w = l + 1
          BY <1>4, <3>2, <5>2
        <5> HIDE DEF y, w, z
        <5>4. z = IF l = 0 THEN 0 ELSE l - 1
          BY <1>2, <5>2 DEF z
        <5>5. w - 1 > z - y
          BY <1>1, <3>2, <3>3, <3>4, <3>7, <5>1, <5>3, <5>4
        <5> QED
          BY <5>1, <5>5 DEF NoStructure, z, y
      <4> QED
        BY <4>2, <4>3
    <3> QED
      BY <3>2, <3>4, <3>6, <3>7
  <2> QED
    BY <2>1, <2>2
<1> QED
  BY <1>9, <1>10 DEF data

-----------------------------------------------------------------------------
(* The data of a report. What the first of some numbered reasons is.        *)
FirstReason(T, reasons) == IF T = {} THEN {} ELSE reasons[Min(T)]

(* The first answer that wakes is that of the first reason.                 *)
LEMMA DecidesFirst ==
    ASSUME NEW n \in Nat, NEW answer, NEW answers, Decides(answer, answers, n), NEW p,
           NEW reasons, \A i \in 1..n : answers[i] = Reading(p, reasons[i])
    PROVE  answer = Reading(p, FirstReason({i \in 1..n : reasons[i] # {}}, reasons))
<1> DEFINE T == {i \in 1..n : reasons[i] # {}}
<1>1. \A i \in 1..n : answers[i].wake <=> i \in T
  <2> SUFFICES ASSUME NEW i \in 1..n PROVE answers[i].wake <=> i \in T
    OBVIOUS
  <2>1. answers[i] = Reading(p, reasons[i])
    OBVIOUS
  <2> DEFINE x == reasons[i]
  <2>2. Reading(p, x).wake = (x # {})
    BY Zenon DEF Reading
  <2> HIDE DEF x
  <2>3. answers[i].wake <=> x # {}
    BY <2>1, <2>2 DEF x
  <2> QED
    BY <2>3 DEF x
<1>2. CASE answer = Ignored /\ \A k \in 1..n : ~answers[k].wake
  <2>1. T = {}
    BY <1>1, <1>2
  <2>2. Reading(p, {}) = Ignored
    BY DEF Reading, Ignored
  <2> HIDE DEF T
  <2>3. FirstReason(T, reasons) = {}
    BY <2>1 DEF FirstReason
  <2> QED
    BY <1>2, <2>2, <2>3 DEF T
<1>3. CASE \E m \in 1..n : /\ answers[m].wake /\ answer = answers[m]
                           /\ \A k \in 1..(m - 1) : ~answers[k].wake
  <2>1. PICK m \in 1..n : /\ answers[m].wake /\ answer = answers[m]
                          /\ \A k \in 1..(m - 1) : ~answers[k].wake
    BY <1>3
  <2>2. m \in T /\ T \subseteq Nat /\ T \subseteq 1..n
    BY <1>1, <2>1
  <2>3. \A k \in T : m <= k
    <3> SUFFICES ASSUME NEW k \in T, ~(m <= k) PROVE FALSE
      OBVIOUS
    <3>1. k \in 1..n /\ k \in 1..(m - 1)
      BY <2>2
    <3> QED
      BY <1>1, <2>1, <3>1
  <2> HIDE DEF T
  <2>4. Min(T) = m
    BY <2>2, <2>3, MinIs
  <2>5. FirstReason(T, reasons) = reasons[m]
    BY <2>2, <2>4 DEF FirstReason
  <2> QED
    BY <2>1, <2>5 DEF T
<1> QED
  BY <1>2, <1>3 DEF Decides

(* le_advertising_data_matches, of any number of structures of the          *)
(* reference in any order, the last of them whole or cut: the wake and the  *)
(* lesson are those of the first structure that counts and is a reason      *)
(* (DataReasons).                                                           *)
THEOREM DataReadAsMeant ==
    ASSUME NEW on, NEW p, NEW r \in Report
    PROVE  DataMatches(on, p, Data(r)) = Reading(p, DataReasons(on, r))
<1> DEFINE m == Len(r.ads)
           data == Data(r)
<1>1. m \in Nat /\ data \in Seq(Nat) /\ DOMAIN r.ads = 1..m
  <2>1. r.ads \in Seq(Structure)
    BY DEF Report
  <2> QED
    BY <2>1, DataIs, LenProperties
<1>2. PICK n \in 0..m : /\ \A i \in 1..m : Counts(r, i) <=> i <= n
                        /\ n < m => r.ads[n + 1].bytes = <<0>> \/ (n + 1 = m /\ r.cut = 1)
  BY CountingIs
<1> HIDE DEF data
<1>3. /\ \A i \in 1..n : /\ ~NoStructure(data, Begin(r, i))
                         /\ NextStructure(data, Begin(r, i)) = Begin(r, i + 1)
      /\ NoStructure(data, Begin(r, n + 1))
      /\ \A i \in 1..n : StructureAt(on, p, data, Begin(r, i)) = Reading(p, r.ads[i].by \cap on)
  BY <1>2, CountingRead DEF data
<1> HIDE DEF m
<1> DEFINE q == [i \in 1..(n + 1) |-> Begin(r, i)]
           answers == [i \in 1..n |-> StructureAt(on, p, data, q[i])]
           reasons == [i \in 1..n |-> r.ads[i].by \cap on]
           T == {i \in 1..n : reasons[i] # {}}
<1>4. n \in Nat /\ \A i \in 1..n : i \in 1..(n + 1) /\ i + 1 \in 1..(n + 1)
  BY <1>1, <1>2
<1>5. 1 \in 1..(n + 1) /\ n + 1 \in 1..(n + 1)
  BY <1>4
<1>6. /\ q[1] = Begin(r, 1) /\ q[n + 1] = Begin(r, n + 1)
      /\ \A i \in 1..n : q[i] = Begin(r, i) /\ q[i + 1] = Begin(r, i + 1)
  BY <1>4, <1>5
<1>7. /\ \A i \in 1..n : answers[i] = StructureAt(on, p, data, q[i])
      /\ \A i \in 1..n : reasons[i] = r.ads[i].by \cap on
  OBVIOUS
<1> HIDE DEF q, answers, reasons
<1>8. Chain(data, q, n) /\ NoStructure(data, q[n + 1])
  <2>1. Begin(r, 1) = 1
    BY BeginIs
  <2> QED
    BY <1>3, <1>6, <2>1 DEF Chain
<1>9. Decides(DataMatches(on, p, data), answers, n)
  BY <1>1, <1>4, <1>7, <1>8, FirstStructureDecides
<1>10. \A i \in 1..n : answers[i] = Reading(p, reasons[i])
  BY <1>3, <1>6, <1>7
<1>11. DataMatches(on, p, data) = Reading(p, FirstReason(T, reasons))
  BY <1>4, <1>9, <1>10, DecidesFirst
<1>12. FirstReason(T, reasons) = DataReasons(on, r)
  <2> DEFINE hits == {i \in DOMAIN r.ads : Counts(r, i) /\ r.ads[i].by \cap on # {}}
  <2>1. hits = T
    <3>1. \A i \in 1..n : i \in 1..m
      BY <1>1, <1>2
    <3>2. \A i \in 1..m : i <= n => i \in 1..n
      BY <1>1, <1>2
    <3>3. \A i \in hits : i \in T
      BY <1>1, <1>2, <1>7, <3>2
    <3>4. \A i \in T : i \in hits
      <4> SUFFICES ASSUME NEW i \in T PROVE i \in hits
        OBVIOUS
      <4>1. i \in 1..n /\ r.ads[i].by \cap on # {} /\ i \in 1..m /\ i <= n
        BY <1>2, <1>7, <3>1
      <4> QED
        BY <1>1, <1>2, <4>1
    <3> QED
      BY <3>3, <3>4
  <2>2. DataReasons(on, r) = IF hits = {} THEN {} ELSE r.ads[Min(hits)].by \cap on
    BY Zenon DEF DataReasons
  <2>3. CASE T = {}
    BY <2>1, <2>2, <2>3 DEF FirstReason
  <2>4. CASE T # {}
    <3>1. T \subseteq 1..n /\ T \subseteq Nat
      BY <1>4
    <3> HIDE DEF T
    <3>2. PICK k \in T : \A i \in T : k <= i
      BY <2>4, <3>1, LeastExists
    <3>3. Min(T) = k /\ k \in 1..n
      BY <3>1, <3>2, MinIs
    <3> QED
      BY <1>7, <2>1, <2>2, <2>4, <3>3 DEF FirstReason
  <2> QED
    BY <2>3, <2>4
<1> QED
  BY <1>11, <1>12 DEF data

-----------------------------------------------------------------------------
(* Reports in bytes. The numbers of the two layouts that the proofs need.   *)
LEMMA LayoutIs ==
    ASSUME NEW layout \in {Legacy, Extended}
    PROVE  /\ layout.header \in Nat /\ layout.trailer \in {0, 1}
           /\ layout.addrType \in 2..layout.header /\ layout.addr \in 2..layout.header
           /\ layout.header \in {9, 24} /\ layout.subevent \in {2, 13}
BY DEF Legacy, Extended

(* A header has the fields of the report at the places of the layout.       *)
LEMMA HeaderIs ==
    ASSUME NEW layout \in {Legacy, Extended}, NEW r \in Report
    PROVE  /\ Header(layout, r) \in Seq(Nat) /\ Len(Header(layout, r)) = layout.header
           /\ Header(layout, r)[1] = r.event
           /\ Header(layout, r)[layout.addrType] = r.type
           /\ Header(layout, r)[layout.addr] = r.addr
           /\ Header(layout, r)[layout.header] = Len(Data(r))
<1> DEFINE l == Len(Data(r))
           At(i) == CASE i = 1 -> r.event
                      [] i = layout.addrType -> r.type
                      [] i = layout.header -> l
                      [] i \in layout.addr..(layout.addr + 5) -> r.addr
                      [] layout = Extended /\ i = 2 -> 0
                      [] OTHER -> 127
           h == [i \in 1..layout.header |-> At(i)]
<1>1. l \in Nat
  <2>1. Data(r) \in Seq(Nat)
    BY DataIs
  <2> QED
    BY <2>1, LenProperties
<1>2. r.event \in Nat /\ r.type \in Nat /\ r.addr \in Nat
  BY DEF Report
<1> HIDE DEF l
<1>3. /\ layout.header \in Nat /\ layout.header >= 9
      /\ \A i \in 1..layout.header : At(i) \in Nat
      /\ At(1) = r.event /\ At(layout.addrType) = r.type /\ At(layout.addr) = r.addr
      /\ At(layout.header) = l
  <2>1. CASE layout = Legacy
    <3>1. layout.header = 9 /\ layout.addrType = 2 /\ layout.addr = 3
      BY <2>1 DEF Legacy
    <3>2. layout # Extended
      BY <3>1 DEF Extended
    <3> QED
      BY <1>1, <1>2, <3>1, <3>2
  <2>2. CASE layout = Extended
    <3>1. layout.header = 24 /\ layout.addrType = 3 /\ layout.addr = 4
      BY <2>2 DEF Extended
    <3> QED
      BY <1>1, <1>2, <2>2, <3>1
  <2> QED
    BY <2>1, <2>2
<1>4. Header(layout, r) = h
  BY Zenon DEF Header, l
<1> HIDE DEF At
<1>5. h \in Seq(Nat) /\ Len(h) = layout.header /\ \A i \in 1..layout.header : h[i] = At(i)
  BY <1>3
<1>6. 1 \in 1..layout.header /\ layout.addrType \in 1..layout.header
      /\ layout.addr \in 1..layout.header /\ layout.header \in 1..layout.header
  BY <1>3, LayoutIs
<1> HIDE DEF h
<1> QED
  BY <1>3, <1>4, <1>5, <1>6 DEF l

(* A report in bytes: its header, its data, its trailer.                    *)
LEMMA ReportBytesAre ==
    ASSUME NEW layout \in {Legacy, Extended}, NEW r \in Report
    PROVE  /\ ReportBytes(layout, r) \in Seq(Nat) /\ Len(Data(r)) \in Nat
           /\ Len(ReportBytes(layout, r)) = layout.header + Len(Data(r)) + layout.trailer
           /\ ReportBytes(layout, r)[1] = r.event
           /\ ReportBytes(layout, r)[layout.addrType] = r.type
           /\ ReportBytes(layout, r)[layout.addr] = r.addr
           /\ ReportBytes(layout, r)[layout.header] = Len(Data(r))
           /\ \A k \in 1..Len(Data(r)) : ReportBytes(layout, r)[layout.header + k] = Data(r)[k]
<1> DEFINE h == Header(layout, r)
           d == Data(r)
           t == [i \in 1..layout.trailer |-> 200]
           hd == h \o d
           n == layout.header
           l == Len(d)
           m == layout.trailer
<1>1. h \in Seq(Nat) /\ d \in Seq(Nat)
  BY HeaderIs, DataIs
<1>2. m \in Nat /\ n \in Nat /\ n >= 1 /\ Len(h) = n /\ l \in Nat
  <2>1. m \in {0, 1} /\ n \in {9, 24}
    BY LayoutIs
  <2>2. Len(h) = n
    BY HeaderIs
  <2>3. l \in Nat
    BY <1>1, LenProperties
  <2> HIDE DEF m, n
  <2> QED
    BY <2>1, <2>2, <2>3
<1>3. t \in Seq(Nat) /\ Len(t) = m
  BY <1>2
<1>4. ReportBytes(layout, r) = hd \o t
  BY Zenon DEF ReportBytes
<1> HIDE DEF h, d, t, m, n
<1>5. /\ hd \in Seq(Nat) /\ Len(hd) = Len(h) + Len(d)
      /\ \A i \in 1..(Len(h) + Len(d)) : hd[i] = IF i <= Len(h) THEN h[i] ELSE d[i - Len(h)]
  BY <1>1, ConcatProperties
<1> HIDE DEF hd
<1> DEFINE all == hd \o t
<1>6. /\ all \in Seq(Nat) /\ Len(all) = Len(hd) + Len(t)
      /\ \A i \in 1..(Len(hd) + Len(t)) : all[i] = IF i <= Len(hd) THEN hd[i] ELSE t[i - Len(hd)]
  BY <1>3, <1>5, ConcatProperties
<1> HIDE DEF all, l
<1>7. Len(d) = l
  BY DEF l
<1>8. Len(all) = n + l + m
  BY <1>2, <1>3, <1>5, <1>6, <1>7
<1>9. \A i \in 1..n : all[i] = h[i]
  <2> SUFFICES ASSUME NEW i \in 1..n PROVE all[i] = h[i]
    OBVIOUS
  <2>1. i \in 1..(n + l) /\ i \in 1..(n + l + m) /\ i <= n /\ i <= n + l
    BY <1>2
  <2>2. hd[i] = h[i] /\ Len(hd) = n + l
    BY <1>2, <1>5, <1>7, <2>1
  <2> QED
    BY <1>2, <1>3, <1>6, <2>1, <2>2
<1>10. \A k \in 1..l : all[n + k] = d[k]
  <2> SUFFICES ASSUME NEW k \in 1..l PROVE all[n + k] = d[k]
    OBVIOUS
  <2>1. n + k \in 1..(n + l) /\ n + k \in 1..(n + l + m) /\ ~(n + k <= n) /\ n + k <= n + l
        /\ n + k - n = k
    BY <1>2
  <2>2. hd[n + k] = d[k] /\ Len(hd) = n + l
    BY <1>2, <1>5, <1>7, <2>1
  <2> QED
    BY <1>2, <1>3, <1>6, <2>1, <2>2
<1>11. /\ h[1] = r.event /\ h[layout.addrType] = r.type /\ h[layout.addr] = r.addr
       /\ h[layout.header] = l
  BY HeaderIs DEF h, l, d
<1>12. 1 \in 1..n /\ layout.addrType \in 1..n /\ layout.addr \in 1..n /\ layout.header \in 1..n
  BY <1>2, LayoutIs DEF n
<1>13. ReportBytes(layout, r) = all
  BY <1>4 DEF all
<1>14. /\ all[1] = r.event /\ all[layout.addrType] = r.type /\ all[layout.addr] = r.addr
       /\ all[layout.header] = l
  BY <1>9, <1>11, <1>12
<1> QED
  BY <1>2, <1>6, <1>8, <1>10, <1>13, <1>14 DEF l, d, n, m

-----------------------------------------------------------------------------
(* The parameters of a packet: the packet without the first two bytes. *)
Params(packet) == SubSeq(packet, 3, Len(packet))

(* They are the packet, moved by two.                                       *)
LEMMA ParamsOf ==
    ASSUME NEW s \in Seq(Nat), NEW n \in Nat, Len(s) = n + 2
    PROVE  /\ Params(s) \in Seq(Nat) /\ Len(Params(s)) = n
           /\ \A i \in 1..n : Params(s)[i] = s[i + 2]
<1> DEFINE m == n + 2
           p == SubSeq(s, 3, m)
<1>1. 3 \in Int /\ m \in Int
  OBVIOUS
<1>2. \A i \in 3..m : s[i] \in Nat
  <2>1. \A i \in 3..m : i \in 1..Len(s)
    OBVIOUS
  <2> QED
    BY <2>1, ElementOfSeq
<1> HIDE DEF m
<1>3. /\ p \in Seq(Nat) /\ Len(p) = IF 3 <= m THEN m - 3 + 1 ELSE 0
      /\ \A i \in 1..(m - 3 + 1) : p[i] = s[3 + i - 1]
  BY <1>1, <1>2, SubSeqProperties
<1> HIDE DEF p
<1>4. m = n + 2
  BY DEF m
<1>5. Len(p) = n
  BY <1>3, <1>4
<1>6. ASSUME NEW i \in 1..n PROVE p[i] = s[i + 2]
  <2>1. i \in 1..(m - 3 + 1) /\ 3 + i - 1 = i + 2
    BY <1>4
  <2> QED
    BY <1>3, <2>1
<1>7. Params(s) = p
  BY <1>4 DEF Params, p
<1> QED
  BY <1>3, <1>5, <1>6, <1>7

(* What the parser finds in a packet that keeps the first bytes of reports. *)
Unpacked(packet, bytes, subevent, claimed, kept) ==
    /\ packet \in Seq(Nat)
    /\ Params(packet) \in Seq(Nat) /\ Len(Params(packet)) = 2 + kept
    /\ Params(packet)[1] = subevent /\ Params(packet)[2] = claimed
    /\ \A k \in 1..kept : Params(packet)[2 + k] = bytes[k]
    /\ Len(packet) = 4 + kept /\ packet[1] = 62

(* A packet of the reference has these parameters.                          *)
LEMMA ParamsAre ==
    ASSUME NEW bytes \in Seq(Nat), NEW kept \in 0..Len(bytes), NEW subevent \in Nat,
           NEW claimed \in Nat, NEW packet,
           packet = <<62, 255, subevent, claimed>> \o SubSeq(bytes, 1, kept)
    PROVE  Unpacked(packet, bytes, subevent, claimed, kept)
<1> DEFINE a == <<62, 255, subevent, claimed>>
           b == SubSeq(bytes, 1, kept)
<1>1. a \in Seq(Nat) /\ Len(a) = 4 /\ a[1] = 62 /\ a[3] = subevent /\ a[4] = claimed
  OBVIOUS
<1>2. b \in Seq(Nat) /\ Len(b) = kept /\ \A k \in 1..kept : b[k] = bytes[k]
  BY PrefixIs
<1>3. kept \in Nat
  BY LenProperties
<1> DEFINE c == a \o b
<1>4. packet = c
  OBVIOUS
<1> HIDE DEF a, b
<1>5. /\ c \in Seq(Nat) /\ Len(c) = Len(a) + Len(b)
       /\ \A i \in 1..(Len(a) + Len(b)) : c[i] = IF i <= Len(a) THEN a[i] ELSE b[i - Len(a)]
  <2>1. a \in Seq(Nat) /\ b \in Seq(Nat)
    BY <1>1, <1>2
  <2> QED
    BY <2>1, ConcatProperties, Zenon
<1> HIDE DEF c
<1>6. /\ packet \in Seq(Nat) /\ Len(packet) = Len(a) + Len(b)
      /\ \A i \in 1..(Len(a) + Len(b)) : packet[i] = IF i <= Len(a) THEN a[i] ELSE b[i - Len(a)]
  BY <1>4, <1>5
<1>7. Len(packet) = 4 + kept
  BY ONLY <1>1, <1>2, <1>6
<1>8. \A i \in 1..(4 + kept) : packet[i] = IF i <= 4 THEN a[i] ELSE b[i - 4]
  <2>1. Len(a) = 4 /\ Len(b) = kept
    BY <1>1, <1>2
  <2> QED
    BY ONLY <1>6, <2>1
<1> DEFINE p == Params(packet)
           n == 2 + kept
<1>9. n \in Nat /\ Len(packet) = n + 2
  BY <1>3, <1>7
<1> HIDE DEF n
<1>10. p \in Seq(Nat) /\ Len(p) = n /\ \A i \in 1..n : p[i] = packet[i + 2]
  BY ONLY <1>6, <1>9, ParamsOf
<1> HIDE DEF p
<1>11. \A i \in 1..(2 + kept) : p[i] = packet[i + 2]
  BY <1>10 DEF n
<1>12. p[1] = subevent /\ p[2] = claimed /\ packet[1] = 62
  <2>1. 1 \in 1..(2 + kept) /\ 2 \in 1..(2 + kept) /\ 1 + 2 = 3 /\ 2 + 2 = 4
    BY <1>3
  <2>2. 1 \in 1..(4 + kept) /\ 3 \in 1..(4 + kept) /\ 4 \in 1..(4 + kept)
    BY <1>3
  <2>3. p[1] = packet[3] /\ p[2] = packet[4]
    BY ONLY <1>11, <2>1
  <2>4. packet[1] = a[1] /\ packet[3] = a[3] /\ packet[4] = a[4]
    BY <1>8, <2>2
  <2> QED
    BY <1>1, <2>3, <2>4
<1>13. \A k \in 1..kept : p[2 + k] = bytes[k]
  <2> SUFFICES ASSUME NEW k \in 1..kept PROVE p[2 + k] = bytes[k]
    OBVIOUS
  <2>1. /\ 2 + k \in 1..(2 + kept) /\ (2 + k) + 2 = 4 + k /\ 4 + k \in 1..(4 + kept)
        /\ ~(4 + k <= 4) /\ (4 + k) - 4 = k
    BY <1>3
  <2>2. p[2 + k] = packet[4 + k]
    BY <1>11, <2>1
  <2>3. packet[4 + k] = b[k]
    BY <1>8, <2>1
  <2> QED
    BY <1>2, <2>2, <2>3
<1> QED
  BY <1>6, <1>7, <1>10, <1>12, <1>13 DEF n, p, Unpacked

(* The reports as sequences of bytes, and how many bytes the first i take. *)
Packs(layout, reports) == [i \in DOMAIN reports |-> ReportBytes(layout, reports[i])]
Upto(layout, reports, i) == End(Packs(layout, reports), i)

(* They are as many, and have the bytes of each.                            *)
LEMMA PacksAre ==
    ASSUME NEW layout \in {Legacy, Extended}, NEW reports \in Seq(Report)
    PROVE  /\ Len(reports) \in Nat /\ \A i \in 1..Len(reports) : reports[i] \in Report
           /\ Packs(layout, reports) \in Seq(Seq(Nat))
           /\ Len(Packs(layout, reports)) = Len(reports)
           /\ \A i \in 1..Len(reports) : Packs(layout, reports)[i] = ReportBytes(layout, reports[i])
<1> DEFINE n == Len(reports)
           t == [i \in 1..n |-> ReportBytes(layout, reports[i])]
<1>1. n \in Nat /\ DOMAIN reports = 1..n /\ \A i \in 1..n : reports[i] \in Report
  BY LenProperties, ElementOfSeq
<1>2. \A i \in 1..n : ReportBytes(layout, reports[i]) \in Seq(Nat)
  BY <1>1, ReportBytesAre
<1>3. Packs(layout, reports) = t
  BY <1>1 DEF Packs
<1> HIDE DEF n
<1>4. t \in Seq(Seq(Nat)) /\ Len(t) = n /\ \A i \in 1..n : t[i] = ReportBytes(layout, reports[i])
  BY <1>1, <1>2
<1> HIDE DEF t
<1> QED
  BY <1>1, <1>3, <1>4 DEF n

(* The reports lie one behind the other in their bytes.                     *)
LEMMA ReportsLie ==
    ASSUME NEW layout \in {Legacy, Extended}, NEW reports \in Seq(Report)
    PROVE  /\ ReportsBytes(layout, reports) \in Seq(Nat)
           /\ Upto(layout, reports, 0) = 0
           /\ Len(ReportsBytes(layout, reports)) = Upto(layout, reports, Len(reports))
           /\ \A i \in 0..Len(reports) : Upto(layout, reports, i) \in Nat
           /\ \A i \in 1..Len(reports) :
                  /\ Upto(layout, reports, i) = Upto(layout, reports, i - 1) + layout.header
                                                  + Len(Data(reports[i])) + layout.trailer
                  /\ \A k \in 1..(layout.header + Len(Data(reports[i])) + layout.trailer) :
                        ReportsBytes(layout, reports)[Upto(layout, reports, i - 1) + k]
                            = ReportBytes(layout, reports[i])[k]
<1> DEFINE n == Len(reports)
           s == Packs(layout, reports)
           bytes == ReportsBytes(layout, reports)
           size(i) == layout.header + Len(Data(reports[i])) + layout.trailer
           rb(i) == ReportBytes(layout, reports[i])
<1>1. n \in Nat /\ s \in Seq(Seq(Nat)) /\ Len(s) = n
  BY PacksAre
<1>2. \A i \in 1..n : reports[i] \in Report /\ s[i] = rb(i)
  BY PacksAre
<1>3. \A i \in 1..n : Len(rb(i)) = size(i)
  BY <1>2, ReportBytesAre
<1>4. bytes = FlattenSeq(s)
  BY Zenon DEF ReportsBytes, Packs
<1> HIDE DEF s, bytes, size, rb, n
<1>5. bytes \in Seq(Nat) /\ Places(bytes, s)
  BY <1>1, <1>4, FlattenPlaces
<1>6. /\ End(s, 0) = 0 /\ Len(bytes) = End(s, n)
      /\ \A i \in 0..n : End(s, i) \in Nat
      /\ \A i \in 1..n : /\ Len(s[i]) \in Nat /\ End(s, i) = End(s, i - 1) + Len(s[i])
                         /\ \A k \in 1..Len(s[i]) : bytes[End(s, i - 1) + k] = s[i][k]
  BY <1>1, <1>5 DEF Places
<1>7. ASSUME NEW i \in 1..n
      PROVE  /\ End(s, i) = End(s, i - 1) + layout.header + Len(Data(reports[i])) + layout.trailer
             /\ \A k \in 1..(layout.header + Len(Data(reports[i])) + layout.trailer) :
                    bytes[End(s, i - 1) + k] = rb(i)[k]
  <2>1. /\ Len(s[i]) \in Nat /\ End(s, i) = End(s, i - 1) + Len(s[i])
        /\ \A k \in 1..Len(s[i]) : bytes[End(s, i - 1) + k] = s[i][k]
    BY <1>6
  <2>2. s[i] = rb(i) /\ Len(rb(i)) = layout.header + Len(Data(reports[i])) + layout.trailer
    BY <1>2, <1>3 DEF size
  <2>3. i - 1 \in 0..n /\ End(s, i - 1) \in Nat
    BY <1>1, <1>6
  <2>4. layout.header \in Nat /\ layout.trailer \in Nat /\ Len(Data(reports[i])) \in Nat
    <3>1. layout.trailer \in {0, 1} /\ layout.header \in Nat
      BY LayoutIs
    <3>2. Len(Data(reports[i])) \in Nat
      BY <1>2, ReportBytesAre
    <3> QED
      BY <3>1, <3>2
  <2> DEFINE x == End(s, i - 1)
             h == layout.header
             l == Len(Data(reports[i]))
             t == layout.trailer
  <2>5. x \in Nat /\ h \in Nat /\ l \in Nat /\ t \in Nat /\ End(s, i) = x + (h + l + t)
    BY <2>1, <2>2, <2>3, <2>4
  <2> HIDE DEF x, h, l, t
  <2>6. End(s, i) = x + h + l + t
    BY <2>5
  <2> USE DEF x, h, l, t
  <2> QED
    BY <2>1, <2>2, <2>6
<1> QED
  BY <1>5, <1>6, <1>7 DEF Upto, s, bytes, n, rb

(* The extents of the first reports are those of the whole. *)
LEMMA ExtentIs ==
    ASSUME NEW layout \in {Legacy, Extended}, NEW reports \in Seq(Report), NEW n \in 1..Len(reports)
    PROVE  Extent(layout, reports, n) = Upto(layout, reports, n) - layout.trailer
<1> DEFINE t == SubSeq(reports, 1, n)
           s == Packs(layout, reports)
           u == SubSeq(s, 1, n)
<1>1. n \in 0..Len(reports) /\ Len(reports) \in Nat /\ n \in Nat
  BY PacksAre
<1>2. t \in Seq(Report) /\ Len(t) = n /\ \A i \in 1..n : t[i] = reports[i]
  BY <1>1, PrefixIs
<1>3. s \in Seq(Seq(Nat)) /\ Len(s) = Len(reports)
      /\ \A i \in 1..Len(reports) : s[i] = ReportBytes(layout, reports[i])
  BY PacksAre
<1> HIDE DEF t, s
<1>4. u \in Seq(Seq(Nat)) /\ Len(u) = n /\ \A i \in 1..n : u[i] = s[i]
  BY <1>1, <1>3, PrefixIs
<1> HIDE DEF u
<1> DEFINE v == Packs(layout, t)
<1>5. v \in Seq(Seq(Nat)) /\ Len(v) = n /\ \A i \in 1..n : v[i] = ReportBytes(layout, t[i])
  BY <1>2, PacksAre
<1>6. \A i \in 1..n : i \in 1..Len(reports)
  BY <1>1
<1> HIDE DEF v
<1>7. \A i \in 1..Len(u) : u[i] = v[i]
  BY <1>2, <1>3, <1>4, <1>5, <1>6
<1>8. u = v
  <2>1. Len(u) = Len(v)
    BY <1>4, <1>5
  <2> QED
    BY <1>4, <1>5, <1>7, <2>1, SeqEqual, Zenon
<1>9. ReportsBytes(layout, t) = FlattenSeq(v)
  BY Zenon DEF ReportsBytes, v, Packs
<1>10. Len(ReportsBytes(layout, t)) = Upto(layout, reports, n)
  BY <1>8, <1>9 DEF Upto, End, u, s
<1> QED
  BY <1>10 DEF Extent, t

(* Where report i begins in the parameters, and whether it is there as a    *)
(* whole.                                                                   *)
Starts(layout, reports, i) == 2 + Upto(layout, reports, i - 1)
Whole(layout, reports, kept, i) == Upto(layout, reports, i) - layout.trailer <= kept

(* What a report makes of a packet. *)
Verdict(on, known, layout, r) ==
    IF ByAddress(on, known, layout, r) THEN Wakes ELSE Reading(AddressOf(r), DataReasons(on, r))

(* The parameters behind the subevent and the claim.                        *)
Keeps(params, bytes, kept) ==
    /\ params \in Seq(Nat) /\ kept \in 0..Len(bytes) /\ Len(params) = 2 + kept
    /\ \A k \in 1..kept : params[2 + k] = bytes[k]

(* A report is found to be whole when it is, read where it was put, and the *)
(* next one looked for where it begins.                                     *)
LEMMA ReportRead ==
    ASSUME NEW layout \in {Legacy, Extended}, NEW reports \in Seq(Report), NEW params, NEW kept,
           Keeps(params, ReportsBytes(layout, reports), kept), NEW i \in 1..Len(reports)
    PROVE  /\ NoReport(layout, params, Starts(layout, reports, i))
                 <=> ~Whole(layout, reports, kept, i)
           /\ Whole(layout, reports, kept, i) =>
                 /\ NextReport(layout, params, Starts(layout, reports, i))
                      = Starts(layout, reports, i + 1)
                 /\ \A on, known :
                       ReportMatches(on, known, layout, params, Starts(layout, reports, i))
                         = Verdict(on, known, layout, reports[i])
<1> DEFINE bytes == ReportsBytes(layout, reports)
           r == reports[i]
           rb == ReportBytes(layout, r)
           x == Upto(layout, reports, i - 1)
           y == Upto(layout, reports, i)
           h == layout.header
           t == layout.trailer
           l == Len(Data(r))
           pos == Starts(layout, reports, i)
<1>1. r \in Report /\ Len(reports) \in Nat
  BY PacksAre
<1>2. /\ rb \in Seq(Nat) /\ l \in Nat
      /\ rb[1] = r.event /\ rb[layout.addrType] = r.type /\ rb[layout.addr] = r.addr /\ rb[h] = l
      /\ \A k \in 1..l : rb[h + k] = Data(r)[k]
  BY <1>1, ReportBytesAre
<1>3. /\ h \in Nat /\ h >= 1 /\ t \in Nat
      /\ layout.addrType \in 1..h /\ layout.addr \in 1..h
  <2>1. h \in {9, 24} /\ t \in {0, 1} /\ layout.addrType \in 2..h /\ layout.addr \in 2..h
    BY LayoutIs
  <2> HIDE DEF h, t
  <2> QED
    BY <2>1
<1>4. /\ bytes \in Seq(Nat) /\ Len(bytes) = Upto(layout, reports, Len(reports))
      /\ x \in Nat /\ y = x + h + l + t
      /\ \A k \in 1..(h + l + t) : bytes[x + k] = rb[k]
  <2>1. i - 1 \in 0..Len(reports)
    BY <1>1
  <2>2. x \in Nat
    BY <2>1, ReportsLie
  <2> QED
    BY <2>2, ReportsLie
<1>5. pos = 2 + x /\ Starts(layout, reports, i + 1) = 2 + y
  <2>1. (i + 1) - 1 = i
    OBVIOUS
  <2> QED
    BY <2>1 DEF Starts
<1>6. Whole(layout, reports, kept, i) <=> y - t <= kept
  BY DEF Whole
<1>7. /\ params \in Seq(Nat) /\ kept \in Nat /\ Len(params) = 2 + kept
      /\ \A k \in 1..kept : params[2 + k] = bytes[k]
  <2>1. Len(bytes) \in Nat
    BY <1>4, LenProperties
  <2> QED
    BY <2>1 DEF Keeps
<1> HIDE DEF bytes, r, rb, x, y, h, t, l, pos
<1>8. y - t = x + h + l
  BY <1>2, <1>3, <1>4
<1>9. \A k \in 1..(h + l) : x + k <= kept => params[pos + k] = rb[k]
  <2> SUFFICES ASSUME NEW k \in 1..(h + l), x + k <= kept PROVE params[pos + k] = rb[k]
    OBVIOUS
  <2>1. x + k \in 1..kept /\ k \in 1..(h + l + t) /\ pos + k = 2 + (x + k)
    BY <1>2, <1>3, <1>4, <1>5, <1>7
  <2> QED
    BY <1>4, <1>7, <2>1
<1>10. CASE x + h > kept
  <2>1. pos + h > 2 + kept
    BY <1>3, <1>4, <1>5, <1>7, <1>10
  <2>2. NoReport(layout, params, pos)
    BY <1>7, <2>1 DEF NoReport, h
  <2>3. ~(y - t <= kept)
    BY <1>2, <1>3, <1>4, <1>7, <1>8, <1>10
  <2> QED
    BY <1>6, <2>2, <2>3 DEF pos
<1>11. CASE x + h <= kept
  <2>1. params[pos + h] = l
    <3>1. h \in 1..(h + l)
      BY <1>2, <1>3
    <3>2. params[pos + h] = rb[h]
      BY <1>9, <1>11, <3>1
    <3> QED
      BY <1>2, <3>2
  <2>2. ~(pos + h > 2 + kept)
    BY <1>3, <1>4, <1>5, <1>7, <1>11
  <2>3. (pos + h + l > 2 + kept) <=> ~(y - t <= kept)
    BY <1>2, <1>3, <1>4, <1>5, <1>7, <1>8
  <2>4. NoReport(layout, params, pos) <=> ~(y - t <= kept)
    <3>1. NoReport(layout, params, pos)
             <=> (pos + h > Len(params) \/ pos + h + params[pos + h] > Len(params))
      BY Zenon DEF NoReport, h
    <3> QED
      BY <1>7, <2>1, <2>2, <2>3, <3>1
  <2>5. ASSUME y - t <= kept
        PROVE  NextReport(layout, params, pos) = 2 + y
    <3>1. NextReport(layout, params, pos) = pos + h + l + t
      BY <2>1, Zenon DEF NextReport, h, t
    <3> QED
      BY <1>2, <1>3, <1>4, <1>5, <3>1
  <2>6. ASSUME y - t <= kept, NEW on, NEW known
        PROVE  ReportMatches(on, known, layout, params, pos) = Verdict(on, known, layout, r)
    <3> DEFINE d == SubSeq(params, pos + h + 1, pos + h + l)
    <3>1. \A k \in 1..(h + l) : params[pos + k] = rb[k]
      <4> SUFFICES ASSUME NEW k \in 1..(h + l) PROVE params[pos + k] = rb[k]
        OBVIOUS
      <4>1. x + k <= kept
        BY <1>2, <1>3, <1>4, <1>7, <1>8, <2>6
      <4> QED
        BY <1>9, <4>1
    <3>2. /\ 1 \in 1..(h + l) /\ layout.addrType \in 1..(h + l) /\ layout.addr \in 1..(h + l)
          /\ \A k \in 1..l : h + k \in 1..(h + l)
      BY <1>2, <1>3
    <3>3. /\ params[pos + 1] = r.event /\ params[pos + layout.addrType] = r.type
          /\ params[pos + layout.addr] = r.addr
      BY <1>2, <3>1, <3>2
    <3>4. d = Data(r)
      <4> DEFINE m == pos + h + 1
                 n == pos + h + l
      <4>1. m \in Int /\ n \in Int /\ m \in Nat
        BY <1>2, <1>3, <1>4, <1>5
      <4>2. \A k \in m..n : params[k] \in Nat
        <5>1. \A k \in m..n : k \in 1..Len(params)
          BY <1>2, <1>3, <1>4, <1>5, <1>7, <1>8, <2>6
        <5> QED
          BY <1>7, <5>1, ElementOfSeq
      <4>3. n - m + 1 = l /\ (m <= n <=> l >= 1) /\ \A k \in 1..l : m + k - 1 = pos + (h + k)
        BY <1>2, <1>3, <1>4, <1>5
      <4> HIDE DEF m, n
      <4> DEFINE e == SubSeq(params, m, n)
      <4>4. /\ e \in Seq(Nat) /\ Len(e) = IF m <= n THEN n - m + 1 ELSE 0
            /\ \A k \in 1..(n - m + 1) : e[k] = params[m + k - 1]
        BY <4>1, <4>2, SubSeqProperties
      <4> HIDE DEF e
      <4>5. Len(e) = l
        BY <1>2, <4>3, <4>4
      <4>6. \A k \in 1..l : e[k] = Data(r)[k]
        <5> SUFFICES ASSUME NEW k \in 1..l PROVE e[k] = Data(r)[k]
          OBVIOUS
        <5>1. e[k] = params[pos + (h + k)]
          BY <4>3, <4>4
        <5>2. params[pos + (h + k)] = rb[h + k]
          BY <3>1, <3>2
        <5> QED
          BY <1>2, <5>1, <5>2
      <4>7. Data(r) \in Seq(Nat) /\ Len(Data(r)) = l
        BY <1>1, DataIs DEF l
      <4>8. e = Data(r)
        BY <4>4, <4>5, <4>6, <4>7, SeqEqual, Zenon
      <4> QED
        BY <4>8 DEF e, m, n
    <3> HIDE DEF d
    <3>5. ReportMatches(on, known, layout, params, pos)
            = IF ByAddress(on, known, layout, r) THEN Wakes
              ELSE DataMatches(on, AddressOf(r), d)
      <4>1. Peer16(params[pos + layout.addrType], params[pos + layout.addr]) = AddressOf(r)
        BY <3>3 DEF AddressOf
      <4>2. d = SubSeq(params, pos + layout.header + 1,
                       pos + layout.header + params[pos + layout.header])
        BY <2>1 DEF d, h
      <4> QED
        BY <3>3, <4>1, <4>2, Zenon DEF ReportMatches, ByAddress
    <3>6. DataMatches(on, AddressOf(r), Data(r)) = Reading(AddressOf(r), DataReasons(on, r))
      BY <1>1, DataReadAsMeant
    <3> QED
      BY <3>4, <3>5, <3>6, Zenon DEF Verdict
  <2> QED
    BY <1>5, <1>6, <2>4, <2>5, <2>6 DEF pos, r
<1> QED
  BY <1>3, <1>4, <1>7, <1>10, <1>11

(* No report is found behind the last.                                      *)
LEMMA BehindTheLast ==
    ASSUME NEW layout \in {Legacy, Extended}, NEW reports \in Seq(Report), NEW params, NEW kept,
           Keeps(params, ReportsBytes(layout, reports), kept)
    PROVE  NoReport(layout, params, Starts(layout, reports, Len(reports) + 1))
<1> DEFINE x == Upto(layout, reports, Len(reports))
           h == layout.header
<1>1. h \in {9, 24} /\ Len(reports) \in Nat /\ (Len(reports) + 1) - 1 = Len(reports)
  BY LayoutIs, PacksAre
<1>2. x \in Nat /\ Len(ReportsBytes(layout, reports)) = x
  BY <1>1, ReportsLie
<1>3. kept \in 0..x /\ Len(params) = 2 + kept
  BY <1>2 DEF Keeps
<1>4. Starts(layout, reports, Len(reports) + 1) = 2 + x
  BY <1>1 DEF Starts
<1> HIDE DEF x
<1>5. (2 + x) + h > Len(params)
  BY <1>1, <1>2, <1>3
<1> QED
  BY <1>4, <1>5 DEF NoReport

(* The reports that are searched: those that are whole, up to the claim.    *)
Searched(layout, reports, kept, claimed, n) ==
    /\ n <= claimed
    /\ n = claimed \/ n = Len(reports) \/ ~Whole(layout, reports, kept, n + 1)
    /\ \A i \in 1..Len(reports) : i <= claimed /\ Whole(layout, reports, kept, i) <=> i <= n

(* They are the first ones, up to some number.                              *)
LEMMA SearchedAre ==
    ASSUME NEW layout \in {Legacy, Extended}, NEW reports \in Seq(Report), NEW kept \in Nat,
           NEW claimed \in Nat
    PROVE  \E n \in 0..Len(reports) : Searched(layout, reports, kept, claimed, n)
<1> DEFINE m == Len(reports)
           W(i) == Whole(layout, reports, kept, i)
           T == {n \in 0..m : n = claimed \/ n = m \/ ~W(n + 1)}
<1>1. m \in Nat
  BY PacksAre
<1>2. PICK n \in T : \A k \in T : n <= k
  <2>1. m \in T /\ T \subseteq Nat
    BY <1>1
  <2> HIDE DEF T
  <2> QED
    BY <2>1, LeastExists
<1>3. n \in 0..m /\ (n = claimed \/ n = m \/ ~W(n + 1))
  OBVIOUS
<1>4. n <= claimed
  <2>1. claimed <= m => claimed \in T
    BY <1>1
  <2> HIDE DEF T
  <2> QED
    BY <1>1, <1>2, <1>3, <2>1
<1>5. \A i \in 1..n : W(i)
  <2> SUFFICES ASSUME NEW i \in 1..n, ~W(i) PROVE FALSE
    OBVIOUS
  <2>1. i - 1 \in 0..m /\ (i - 1) + 1 = i /\ ~(n <= i - 1)
    BY <1>1, <1>3
  <2>2. i - 1 \in T
    BY <2>1
  <2> HIDE DEF T
  <2> QED
    BY <1>2, <2>1, <2>2
<1> HIDE DEF T
<1>6. \A i, j \in 1..m : i <= j /\ W(j) => W(i)
  <2> DEFINE e == [i \in 0..m |-> Upto(layout, reports, i)]
             len == [i \in 1..m |-> layout.header + Len(Data(reports[i])) + layout.trailer]
  <2>1. \A i \in 0..m : e[i] = Upto(layout, reports, i) /\ e[i] \in Nat
    BY ReportsLie
  <2>2. \A i \in 1..m : len[i] \in Nat
    <3> SUFFICES ASSUME NEW i \in 1..m
                 PROVE  layout.header + Len(Data(reports[i])) + layout.trailer \in Nat
      OBVIOUS
    <3>1. reports[i] \in Report
      BY PacksAre
    <3>2. Len(Data(reports[i])) \in Nat
      BY <3>1, ReportBytesAre
    <3>3. layout.header \in Nat /\ layout.trailer \in {0, 1}
      BY LayoutIs
    <3> QED
      BY <3>2, <3>3
  <2>3. \A i \in 1..m : e[i] = e[i - 1] + len[i]
    <3> SUFFICES ASSUME NEW i \in 1..m PROVE e[i] = e[i - 1] + len[i]
      OBVIOUS
    <3>1. i \in 0..m /\ i - 1 \in 0..m
      BY <1>1
    <3>2. e[i] = Upto(layout, reports, i) /\ e[i - 1] = Upto(layout, reports, i - 1)
      BY <3>1
    <3>3. Upto(layout, reports, i) = Upto(layout, reports, i - 1) + layout.header
                                                  + Len(Data(reports[i])) + layout.trailer
      BY ReportsLie
    <3>4. reports[i] \in Report
      BY PacksAre
    <3>5. Len(Data(reports[i])) \in Nat /\ Upto(layout, reports, i - 1) \in Nat
      BY <3>1, <3>4, ReportsLie, ReportBytesAre
    <3>6. layout.header \in Nat /\ layout.trailer \in {0, 1}
      BY LayoutIs
    <3>7. Upto(layout, reports, i - 1) + layout.header + Len(Data(reports[i])) + layout.trailer
            = Upto(layout, reports, i - 1)
                + (layout.header + Len(Data(reports[i])) + layout.trailer)
      BY <3>5, <3>6
    <3> QED
      BY <3>2, <3>3, <3>7
  <2> HIDE DEF e, len
  <2>4. \A i, j \in 0..m : i <= j => e[i] <= e[j]
    BY <1>1, <2>1, <2>2, <2>3, Rising
  <2> SUFFICES ASSUME NEW i \in 1..m, NEW j \in 1..m, i <= j, W(j) PROVE W(i)
    OBVIOUS
  <2>5. i \in 0..m /\ j \in 0..m
    BY <1>1
  <2>6. e[i] <= e[j] /\ e[i] \in Nat /\ e[j] \in Nat /\ layout.trailer \in {0, 1}
    BY <2>1, <2>4, <2>5, LayoutIs
  <2>7. e[j] - layout.trailer <= kept
    BY <2>1, <2>5 DEF Whole
  <2>8. e[i] - layout.trailer <= kept
    BY <2>6, <2>7
  <2> QED
    BY <2>1, <2>5, <2>8 DEF Whole
<1> HIDE DEF W
<1>7. \A i \in 1..m : i <= claimed /\ W(i) <=> i <= n
  <2> SUFFICES ASSUME NEW i \in 1..m PROVE i <= claimed /\ W(i) <=> i <= n
    OBVIOUS
  <2>1. CASE i <= n
    <3>1. i \in 1..n /\ i <= claimed
      BY <1>1, <1>3, <1>4, <2>1
    <3> QED
      BY <1>5, <2>1, <3>1
  <2>2. CASE ~(i <= n)
    <3>1. n # m /\ n + 1 \in 1..m /\ n + 1 <= i
      BY <1>1, <1>3, <2>2
    <3>2. CASE n = claimed
      BY <2>2, <3>2
    <3>3. CASE ~W(n + 1)
      BY <1>6, <2>2, <3>1, <3>3
    <3> QED
      BY <1>3, <3>1, <3>2, <3>3
  <2> QED
    BY <2>1, <2>2
<1> QED
  BY <1>3, <1>4, <1>7 DEF W, m, Searched

(* What Expected says, of the verdicts of the reports searched. *)
Best(T, verdicts) == IF T = {} THEN Ignored ELSE verdicts[Min(T)]

(* The answer that decides is the best one.                                 *)
LEMMA DecidesBest ==
    ASSUME NEW n \in Nat, NEW answer, NEW answers, Decides(answer, answers, n)
    PROVE  answer = Best({i \in 1..n : answers[i].wake}, answers)
<1> DEFINE T == {i \in 1..n : answers[i].wake}
<1>1. CASE answer = Ignored /\ \A k \in 1..n : ~answers[k].wake
  <2>1. T = {}
    BY <1>1
  <2> HIDE DEF T
  <2> QED
    BY <1>1, <2>1 DEF Best, T
<1>2. CASE \E m \in 1..n : /\ answers[m].wake /\ answer = answers[m]
                           /\ \A k \in 1..(m - 1) : ~answers[k].wake
  <2>1. PICK m \in 1..n : /\ answers[m].wake /\ answer = answers[m]
                          /\ \A k \in 1..(m - 1) : ~answers[k].wake
    BY <1>2
  <2>2. m \in T /\ T \subseteq Nat /\ T \subseteq 1..n
    BY <2>1
  <2>3. \A k \in T : m <= k
    <3> SUFFICES ASSUME NEW k \in T, ~(m <= k) PROVE FALSE
      OBVIOUS
    <3>1. k \in 1..n /\ k \in 1..(m - 1) /\ answers[k].wake
      BY <2>2
    <3> QED
      BY <2>1, <3>1
  <2> HIDE DEF T
  <2>4. Min(T) = m
    BY <2>2, <2>3, MinIs
  <2>5. Best(T, answers) = answers[m]
    BY <2>2, <2>4 DEF Best
  <2> QED
    BY <2>1, <2>5 DEF T
<1> QED
  BY <1>1, <1>2 DEF Decides

(* When a verdict wakes, and what it then is.                               *)
LEMMA VerdictWakes ==
    ASSUME NEW on, NEW known, NEW layout, NEW r
    PROVE  /\ Verdict(on, known, layout, r).wake
                <=> ByAddress(on, known, layout, r) \/ DataReasons(on, r) # {}
           /\ ByAddress(on, known, layout, r) \/ DataReasons(on, r) # {} =>
                Verdict(on, known, layout, r)
                  = [wake  |-> TRUE,
                     learn |-> IF /\ ~ByAddress(on, known, layout, r)
                                  /\ "stadia" \in DataReasons(on, r)
                               THEN {AddressOf(r)} ELSE {}]
<1> DEFINE a == ByAddress(on, known, layout, r)
           d == DataReasons(on, r)
           p == AddressOf(r)
<1> HIDE DEF a, d, p
<1>1. CASE a
  <2>1. Verdict(on, known, layout, r) = Wakes
    BY <1>1 DEF Verdict, a
  <2>2. Wakes.wake /\ Wakes = [wake |-> TRUE, learn |-> {}]
    BY DEF Wakes
  <2> QED
    BY <1>1, <2>1, <2>2 DEF a
<1>2. CASE ~a
  <2>1. Verdict(on, known, layout, r) = Reading(p, d)
    BY <1>2 DEF Verdict, a, d, p
  <2>2. Reading(p, d).wake = (d # {})
    BY Zenon DEF Reading
  <2>3. d # {} => Reading(p, d) = [wake |-> TRUE, learn |-> IF "stadia" \in d THEN {p} ELSE {}]
    BY DEF Reading
  <2> QED
    BY <1>2, <2>1, <2>2, <2>3 DEF a, d, p
<1> QED
  BY <1>1, <1>2

(* The subevent of the packet chooses the layout of its reports.            *)
LEMMA PacketDispatch ==
    ASSUME NEW on, NEW known, NEW layout \in {Legacy, Extended}, NEW packet,
           Len(packet) \in Nat, Len(packet) >= 4, packet[1] = 62,
           Params(packet)[1] = layout.subevent
    PROVE  PacketMatches(on, known, packet)
             = IF layout = Legacy /\ "any" \in on THEN Wakes
               ELSE ReportsMatch(on, known, layout, Params(packet))
<1> DEFINE params == Params(packet)
<1>1. ~(Len(packet) >= 2 /\ packet[1] = 4) /\ ~(Len(packet) < 4 \/ packet[1] # 62)
  OBVIOUS
<1>2. PacketMatches(on, known, packet)
        = CASE params[1] = 2 -> IF "any" \in on THEN Wakes
                               ELSE ReportsMatch(on, known, Legacy, params)
           [] params[1] = 11 -> IF DirectedMatches(on, params) THEN Wakes ELSE Ignored
           [] params[1] = 13 -> ReportsMatch(on, known, Extended, params)
           [] OTHER -> Ignored
  BY <1>1, Zenon DEF PacketMatches, Params
<1> HIDE DEF params
<1>3. CASE layout = Legacy
  <2>1. params[1] = 2
    BY <1>3 DEF Legacy, params
  <2> QED
    BY <1>2, <1>3, <2>1 DEF params
<1>4. CASE layout = Extended
  <2>1. params[1] = 13 /\ layout # Legacy
    <3>1. layout.subevent = 13 /\ Legacy.subevent = 2
      BY <1>4 DEF Legacy, Extended
    <3> QED
      BY <3>1 DEF params
  <2> QED
    BY <1>2, <1>4, <2>1 DEF params
<1> QED
  BY <1>3, <1>4

(* wake_policy_packet_matches, of any number of reports in either layout,   *)
(* in a packet that claims any number of them and keeps any part of their   *)
(* bytes, under any build options and any table of peers: the verdict and   *)
(* the lesson are the expected ones (Agree).                                *)
THEOREM PacketsReadAsMeant ==
    ASSUME NEW on, NEW known, NEW layout \in {Legacy, Extended}, NEW reports \in Seq(Report),
           NEW claimed \in Nat, NEW kept \in 0..Len(ReportsBytes(layout, reports))
    PROVE  Agree(on, known, layout, reports, ReportsBytes(layout, reports), claimed, kept)
<1> DEFINE bytes == ReportsBytes(layout, reports)
           packet == PacketOf(layout, bytes, claimed, kept)
           params == Params(packet)
           m == Len(reports)
           W(i) == Whole(layout, reports, kept, i)
           V(i) == Verdict(on, known, layout, reports[i])
           S(i) == Starts(layout, reports, i)
<1>1. bytes \in Seq(Nat) /\ m \in Nat
  BY ReportsLie, PacksAre
<1>2. kept \in Nat /\ kept \in 0..Len(bytes)
  BY <1>1, LenProperties
<1> HIDE DEF bytes
<1>3. /\ params \in Seq(Nat) /\ Len(params) = 2 + kept
      /\ params[1] = layout.subevent /\ params[2] = claimed
      /\ \A k \in 1..kept : params[2 + k] = bytes[k]
      /\ Len(packet) = 4 + kept /\ packet[1] = 62
  <2> DEFINE s == layout.subevent
  <2>1. s \in {2, 13}
    BY LayoutIs
  <2>2. s \in Nat
    BY <2>1
  <2>3. packet = <<62, 255, s, claimed>> \o SubSeq(bytes, 1, kept)
    BY Zenon DEF PacketOf
  <2> HIDE DEF packet, s
  <2>4. Unpacked(packet, bytes, s, claimed, kept)
    BY <1>1, <1>2, <2>2, <2>3, ParamsAre
  <2> QED
    BY <2>4 DEF s, Unpacked
<1> HIDE DEF packet
<1>4. PacketMatches(on, known, packet)
        = IF layout = Legacy /\ "any" \in on THEN Wakes ELSE ReportsMatch(on, known, layout, params)
  <2>1. Len(packet) \in Nat /\ Len(packet) >= 4
    BY <1>2, <1>3
  <2> QED
    BY <1>3, <2>1, PacketDispatch, ZenonT(30)
<1> HIDE DEF params
<1>5. Keeps(params, bytes, kept)
  BY <1>2, <1>3 DEF Keeps
<1>6. PICK n \in 0..m : Searched(layout, reports, kept, claimed, n)
  BY <1>2, SearchedAre
<1>7. /\ n \in 0..m /\ n <= claimed
      /\ n = claimed \/ n = m \/ ~W(n + 1)
      /\ \A i \in 1..m : i <= claimed /\ W(i) <=> i <= n
  BY <1>6 DEF Searched
<1>8. /\ n \in Nat /\ n \in 0..claimed /\ 1 \in 1..(n + 1) /\ n + 1 \in 1..(n + 1)
      /\ \A i \in 1..n : i \in 1..m /\ W(i) /\ i \in 1..(n + 1) /\ i + 1 \in 1..(n + 1)
  <2>1. n \in Nat /\ n \in 0..claimed /\ 1 \in 1..(n + 1) /\ n + 1 \in 1..(n + 1)
    BY <1>1, <1>7
  <2>2. \A i \in 1..n : i \in 1..m /\ i <= n /\ i \in 1..(n + 1) /\ i + 1 \in 1..(n + 1)
    BY <1>1, <1>7
  <2> HIDE DEF W
  <2> QED
    BY <1>7, <2>1, <2>2
<1>9. \A i \in 1..m :
         /\ NoReport(layout, params, S(i)) <=> ~W(i)
         /\ W(i) => /\ NextReport(layout, params, S(i)) = S(i + 1)
                    /\ ReportMatches(on, known, layout, params, S(i)) = V(i)
  BY <1>5, ReportRead DEF bytes
<1>10. NoReport(layout, params, S(m + 1))
  BY <1>5, BehindTheLast DEF bytes
<1>11. S(1) = 2
  <2>1. 1 - 1 = 0 /\ Upto(layout, reports, 0) = 0
    BY ReportsLie
  <2> QED
    BY <2>1 DEF Starts
<1> HIDE DEF m, W, V, S
<1> DEFINE q == [i \in 1..(n + 1) |-> S(i)]
           answers == [i \in 1..n |-> ReportMatches(on, known, layout, params, q[i])]
           T == {i \in 1..n : answers[i].wake}
<1>12. /\ q[1] = S(1) /\ q[n + 1] = S(n + 1)
       /\ \A i \in 1..n : q[i] = S(i) /\ q[i + 1] = S(i + 1)
  BY <1>8
<1>13. \A i \in 1..n : answers[i] = ReportMatches(on, known, layout, params, q[i])
  OBVIOUS
<1> HIDE DEF q, answers
<1>14. ReportChain(layout, params, q, n)
  BY <1>8, <1>9, <1>11, <1>12 DEF ReportChain
<1>15. n = claimed \/ NoReport(layout, params, q[n + 1])
  <2>1. CASE n = m
    BY <1>10, <1>12, <2>1
  <2>2. CASE n # m /\ n # claimed
    <3>1. n + 1 \in 1..m /\ ~W(n + 1)
      BY <1>1, <1>7, <2>2 DEF m
    <3> QED
      BY <1>9, <1>12, <3>1
  <2> QED
    BY <2>1, <2>2
<1>16. Decides(ReportsMatch(on, known, layout, params), answers, n)
  <2>1. /\ params[2] \in Nat /\ n \in 0..params[2] /\ params \in Seq(Nat)
        /\ n = params[2] \/ NoReport(layout, params, q[n + 1])
    BY <1>3, <1>8, <1>15
  <2> QED
    BY <1>13, <1>14, <2>1, FirstReportDecides
<1>17. ReportsMatch(on, known, layout, params) = Best(T, answers)
  BY <1>8, <1>16, DecidesBest
<1>18. \A i \in 1..n : answers[i] = V(i)
  BY <1>8, <1>9, <1>12, <1>13
<1> DEFINE B(i) == ByAddress(on, known, layout, reports[i])
           D(i) == DataReasons(on, reports[i])
           waking == {i \in 1..claimed : /\ i <= Len(reports) /\ Extent(layout, reports, i) <= kept
                                         /\ B(i) \/ D(i) # {}}
<1>19. \A i : /\ V(i).wake <=> B(i) \/ D(i) # {}
              /\ B(i) \/ D(i) # {} =>
                   V(i) = [wake  |-> TRUE,
                           learn |-> IF ~B(i) /\ "stadia" \in D(i)
                                     THEN {AddressOf(reports[i])} ELSE {}]
  BY VerdictWakes DEF V
<1>20. waking = T
  <2>1. \A i \in 1..m : (Extent(layout, reports, i) <= kept) <=> W(i)
    BY ExtentIs DEF Whole, W, m
  <2>2. \A i \in 1..claimed : i <= Len(reports) /\ Extent(layout, reports, i) <= kept <=> i \in 1..n
    <3> SUFFICES ASSUME NEW i \in 1..claimed
                 PROVE  i <= Len(reports) /\ Extent(layout, reports, i) <= kept <=> i \in 1..n
      OBVIOUS
    <3>1. CASE i <= Len(reports)
      <4>1. i \in 1..m /\ i <= claimed /\ (i <= n <=> i \in 1..n)
        BY <1>1, <1>8, <3>1 DEF m
      <4> QED
        BY <1>7, <2>1, <3>1, <4>1
    <3>2. CASE ~(i <= Len(reports))
      BY <1>1, <1>7, <3>2 DEF m
    <3> QED
      BY <3>1, <3>2
  <2>3. \A i \in 1..n : i \in 1..claimed /\ (answers[i].wake <=> B(i) \/ D(i) # {})
    <3> SUFFICES ASSUME NEW i \in 1..n
                 PROVE  i \in 1..claimed /\ (answers[i].wake <=> B(i) \/ D(i) # {})
      OBVIOUS
    <3>1. i \in 1..claimed
      BY <1>8
    <3>2. answers[i] = V(i)
      BY <1>18
    <3>3. V(i).wake <=> B(i) \/ D(i) # {}
      BY <1>19, Zenon
    <3> QED
      BY <3>1, <3>2, <3>3
  <2> HIDE DEF B, D
  <2>4. \A i \in waking : i \in T
    BY <2>2, <2>3
  <2>5. \A i \in T : i \in waking
    BY <2>2, <2>3
  <2> QED
    BY <2>4, <2>5
<1>21. Expected(on, known, layout, reports, claimed, kept)
         = IF layout = Legacy /\ "any" \in on THEN Wakes ELSE Best(T, answers)
  <2>1. Expected(on, known, layout, reports, claimed, kept)
          = IF layout = Legacy /\ "any" \in on THEN Wakes
            ELSE IF waking = {} THEN Ignored
            ELSE [wake  |-> TRUE,
                  learn |-> IF ~B(Min(waking)) /\ "stadia" \in D(Min(waking))
                            THEN {AddressOf(reports[Min(waking)])} ELSE {}]
    BY Zenon DEF Expected
  <2> HIDE DEF waking
  <2>2. CASE T = {}
    BY <1>20, <2>1, <2>2 DEF Best
  <2>3. CASE T # {}
    <3>1. T \subseteq Nat /\ T \subseteq 1..n
      BY <1>8
    <3>2. PICK k \in T : \A i \in T : k <= i
      <4> HIDE DEF T
      <4> QED
        BY <2>3, <3>1, LeastExists
    <3>3. k \in 1..n /\ answers[k].wake
      OBVIOUS
    <3> HIDE DEF T
    <3>4. Min(T) = k
      BY <3>1, <3>2, MinIs
    <3>5. answers[k] = V(k) /\ (B(k) \/ D(k) # {})
      BY <1>18, <1>19, <3>3
    <3>6. Best(T, answers) = [wake  |-> TRUE,
                              learn |-> IF ~B(k) /\ "stadia" \in D(k)
                                        THEN {AddressOf(reports[k])} ELSE {}]
      BY <1>19, <2>3, <3>4, <3>5 DEF Best
    <3> QED
      BY <1>20, <2>1, <2>3, <3>4, <3>6
  <2> QED
    BY <2>2, <2>3
<1>22. PacketMatches(on, known, packet) = Expected(on, known, layout, reports, claimed, kept)
  BY <1>4, <1>17, <1>21
<1> QED
  BY <1>22 DEF Agree, packet, bytes

(* The bytes of directed reports: sixteen of each, the event first. *)
LEMMA DirectedLie ==
    ASSUME NEW events \in Seq(Nat)
    PROVE  /\ Len(events) \in Nat /\ DirectedBytes(events) \in Seq(Nat)
           /\ Len(DirectedBytes(events)) = 16 * Len(events)
           /\ \A n \in 1..Len(events) : DirectedBytes(events)[16 * n - 15] = events[n]
<1> DEFINE m == Len(events)
           one(i) == <<events[i]>> \o [k \in 1..15 |-> 1]
           s == [i \in 1..m |-> one(i)]
           bytes == DirectedBytes(events)
           e == [i \in 0..m |-> End(s, i)]
<1>1. m \in Nat /\ DOMAIN events = 1..m /\ \A i \in 1..m : events[i] \in Nat
  BY LenProperties, ElementOfSeq
<1>2. \A i \in 1..m : one(i) \in Seq(Nat) /\ Len(one(i)) = 16 /\ one(i)[1] = events[i]
  <2> SUFFICES ASSUME NEW i \in 1..m
               PROVE  one(i) \in Seq(Nat) /\ Len(one(i)) = 16 /\ one(i)[1] = events[i]
    OBVIOUS
  <2> DEFINE a == <<events[i]>>
             b == [k \in 1..15 |-> 1]
             c == a \o b
  <2>1. a \in Seq(Nat) /\ Len(a) = 1 /\ a[1] = events[i]
    BY <1>1
  <2>2. b \in Seq(Nat) /\ Len(b) = 15
    OBVIOUS
  <2> HIDE DEF a, b
  <2>3. /\ c \in Seq(Nat) /\ Len(c) = Len(a) + Len(b)
        /\ \A k \in 1..(Len(a) + Len(b)) : c[k] = IF k <= Len(a) THEN a[k] ELSE b[k - Len(a)]
    BY <2>1, <2>2, ConcatProperties
  <2> HIDE DEF c
  <2>4. Len(a) + Len(b) = 16 /\ 1 \in 1..(Len(a) + Len(b)) /\ 1 <= Len(a)
    BY <2>1, <2>2
  <2>5. Len(c) = 16 /\ c[1] = a[1]
    <3>1. Len(c) = 16
      BY <2>3, <2>4
    <3>2. c[1] = a[1]
      BY <2>3, <2>4
    <3> QED
      BY <3>1, <3>2
  <2> QED
    BY <2>1, <2>3, <2>5 DEF c, a, b
<1>3. bytes = FlattenSeq(s)
  BY <1>1, Zenon DEF DirectedBytes
<1> HIDE DEF one, bytes, m
<1>4. s \in Seq(Seq(Nat)) /\ Len(s) = m /\ \A i \in 1..m : s[i] = one(i)
  BY <1>1, <1>2
<1> HIDE DEF s
<1>5. bytes \in Seq(Nat) /\ Places(bytes, s)
  BY <1>3, <1>4, FlattenPlaces
<1>6. /\ End(s, 0) = 0 /\ Len(bytes) = End(s, m)
      /\ \A i \in 1..m : /\ End(s, i) = End(s, i - 1) + Len(s[i])
                         /\ \A k \in 1..Len(s[i]) : bytes[End(s, i - 1) + k] = s[i][k]
  BY <1>4, <1>5 DEF Places
<1>7. \A i \in 1..m : /\ End(s, i) = End(s, i - 1) + 16
                      /\ bytes[End(s, i - 1) + 1] = events[i]
  <2> SUFFICES ASSUME NEW i \in 1..m
               PROVE  End(s, i) = End(s, i - 1) + 16 /\ bytes[End(s, i - 1) + 1] = events[i]
    OBVIOUS
  <2>1. Len(s[i]) = 16 /\ s[i][1] = events[i] /\ 1 \in 1..16
    BY <1>2, <1>4
  <2> QED
    BY <1>6, <2>1
<1> HIDE DEF e
<1> DEFINE Bad == {i \in 0..m : End(s, i) # 16 * i}
<1>8. Bad = {}
  <2> SUFFICES ASSUME Bad # {} PROVE FALSE
    OBVIOUS
  <2>1. PICK i \in Bad : \A j \in Bad : i <= j
    <3>1. Bad \subseteq Nat
      OBVIOUS
    <3> HIDE DEF Bad
    <3> QED
      BY <3>1, LeastExists
  <2>2. i \in 0..m /\ i # 0 /\ End(s, i) # 16 * i
    BY <1>6
  <2>3. i \in 1..m /\ i - 1 \in 0..m /\ i - 1 \notin Bad
    BY <1>1, <2>1, <2>2
  <2>4. End(s, i - 1) = 16 * (i - 1)
    BY <2>3
  <2>5. End(s, i) = 16 * (i - 1) + 16
    BY <1>7, <2>3, <2>4
  <2> QED
    BY <2>2, <2>3, <2>5
<1>9. Len(bytes) = 16 * m
  <2>1. m \in 0..m
    BY <1>1
  <2> QED
    BY <1>6, <1>8, <2>1
<1>10. \A n \in 1..m : bytes[16 * n - 15] = events[n]
  <2> SUFFICES ASSUME NEW n \in 1..m PROVE bytes[16 * n - 15] = events[n]
    OBVIOUS
  <2>1. n - 1 \in 0..m /\ n - 1 \notin Bad
    BY <1>1, <1>8
  <2>2. End(s, n - 1) = 16 * (n - 1)
    BY <2>1
  <2>3. 16 * (n - 1) + 1 = 16 * n - 15
    BY <1>1
  <2> QED
    BY <1>7, <2>2, <2>3
<1> QED
  BY <1>1, <1>5, <1>9, <1>10 DEF m, bytes

(* Whether a packet of directed reports wakes when one that is there as a   *)
(* whole and claimed is connectable.                                        *)
DirectedRead(known, events, claimed, kept) ==
    PacketMatches({"directed"}, known,
                  <<62, 255, 11, claimed>> \o SubSeq(DirectedBytes(events), 1, kept)).wake
        <=> \E n \in 1..claimed : 16 * n <= kept /\ events[n] = 1

(* le_directed_advertising_report_matches, of any number of reports, of     *)
(* which any are claimed and any part is kept: a connectable one that is    *)
(* there as a whole and claimed wakes, and nothing else.                    *)
THEOREM DirectedReadAsMeant ==
    ASSUME NEW known, NEW events \in Seq(Nat), NEW claimed \in Nat,
           NEW kept \in 0..Len(DirectedBytes(events))
    PROVE  DirectedRead(known, events, claimed, kept)
<1> DEFINE bytes == DirectedBytes(events)
           packet == <<62, 255, 11, claimed>> \o SubSeq(bytes, 1, kept)
           params == Params(packet)
           on == {"directed"}
           m == Len(events)
<1>1. /\ m \in Nat /\ bytes \in Seq(Nat) /\ Len(bytes) = 16 * m
      /\ \A n \in 1..m : bytes[16 * n - 15] = events[n]
  BY DirectedLie
<1>2. kept \in 0..Len(bytes) /\ kept \in Nat /\ kept <= 16 * m
  BY <1>1
<1> HIDE DEF bytes
<1>3. Unpacked(packet, bytes, 11, claimed, kept)
  <2>1. packet = <<62, 255, 11, claimed>> \o SubSeq(bytes, 1, kept) /\ 11 \in Nat
    OBVIOUS
  <2> HIDE DEF packet
  <2> QED
    BY <1>1, <1>2, <2>1, ParamsAre
<1> HIDE DEF packet
<1>4. /\ Len(params) = 2 + kept /\ params[1] = 11 /\ params[2] = claimed
      /\ \A k \in 1..kept : params[2 + k] = bytes[k]
      /\ Len(packet) = 4 + kept /\ packet[1] = 62
  BY <1>3 DEF Unpacked
<1> HIDE DEF params, on, m
<1>5. PacketMatches(on, known, packet) = IF DirectedMatches(on, params) THEN Wakes ELSE Ignored
  <2>1. ~(Len(packet) >= 2 /\ packet[1] = 4) /\ ~(Len(packet) < 4 \/ packet[1] # 62)
    BY <1>2, <1>4
  <2>2. PacketMatches(on, known, packet)
          = CASE params[1] = 2 -> IF "any" \in on THEN Wakes
                                 ELSE ReportsMatch(on, known, Legacy, params)
             [] params[1] = 11 -> IF DirectedMatches(on, params) THEN Wakes ELSE Ignored
             [] params[1] = 13 -> ReportsMatch(on, known, Extended, params)
             [] OTHER -> Ignored
    BY <2>1, Zenon DEF PacketMatches, Params, params
  <2> QED
    BY <1>4, <2>2
<1>6. \A n \in 1..claimed :
         2 + 16 * n <= Len(params) /\ params[16 * n - 13] = 1 <=> 16 * n <= kept /\ events[n] = 1
  <2> TAKE n \in 1..claimed
  <2>1. 2 + 16 * n <= Len(params) <=> 16 * n <= kept
    BY <1>2, <1>4
  <2>2. ASSUME 16 * n <= kept PROVE params[16 * n - 13] = events[n]
    <3>1. m \in Nat /\ n \in Nat /\ n >= 1 /\ kept \in Nat /\ kept <= 16 * m /\ 16 * n <= kept
      BY <1>1, <1>2, <2>2
    <3>2. n \in 1..m
      BY <3>1
    <3>3. 16 * n - 15 \in 1..kept /\ 2 + (16 * n - 15) = 16 * n - 13
      BY <3>1
    <3> QED
      BY <1>1, <1>4, <3>2, <3>3
  <2> QED
    BY <2>1, <2>2
<1>7. DirectedMatches(on, params) <=> \E n \in 1..claimed : 16 * n <= kept /\ events[n] = 1
  <2>1. "directed" \in on
    BY DEF on
  <2>2. DirectedMatches(on, params)
          <=> \E n \in 1..claimed : 2 + 16 * n <= Len(params) /\ params[16 * n - 13] = 1
    BY <1>4, <2>1 DEF DirectedMatches
  <2> QED
    BY <1>6, <2>2
<1>8. Wakes.wake /\ ~Ignored.wake
  BY DEF Wakes, Ignored
<1>9. PacketMatches(on, known, packet).wake <=> DirectedMatches(on, params)
  BY <1>5, <1>8
<1> QED
  BY <1>7, <1>9, Zenon DEF packet, bytes, on, DirectedRead

-----------------------------------------------------------------------------
(* So what WakePolicy asks of the bounded packets is true for any table.    *)
(* The reports of StructuresAgree are reports.                              *)
LEMMA SinglesAreReports ==
    ASSUME NEW reports \in Single
    PROVE  reports \in Seq(Report)
<1>1. PICK a \in Structure, b \in Structure, cut \in {0, 1} :
         reports = <<[event |-> 3, type |-> 0, addr |-> 1, ads |-> <<a, b>>, cut |-> cut]>>
  BY DEF Single
<1> DEFINE r == [event |-> 3, type |-> 0, addr |-> 1, ads |-> <<a, b>>, cut |-> cut]
<1>2. <<a, b>> \in Seq(Structure)
  <2> HIDE DEF Structure
  <2> QED
    OBVIOUS
<1>3. r \in Report
  BY <1>2 DEF Report
<1> HIDE DEF r
<1>4. <<r>> \in Seq(Report)
  BY <1>3
<1> QED
  BY <1>1, <1>4 DEF r

(* Every pair of structures, whole or cut, is read as it was meant.         *)
LEMMA StructuresDoAgree == StructuresAgree
<1> SUFFICES ASSUME NEW layout \in {Legacy, Extended}, NEW reports \in Single,
                    NEW on \in SUBSET {"stadia", "hid", "name", "any"}
             PROVE  Agree(on, {}, layout, reports, ReportsBytes(layout, reports), 1,
                          Len(ReportsBytes(layout, reports)))
  BY Zenon DEF StructuresAgree
<1>1. reports \in Seq(Report)
  BY SinglesAreReports
<1> DEFINE bytes == ReportsBytes(layout, reports)
<1>2. bytes \in Seq(Nat)
  BY <1>1, ReportsLie
<1>3. Len(bytes) \in 0..Len(bytes)
  <2>1. Len(bytes) \in Nat
    BY <1>2, LenProperties
  <2> QED
    BY <2>1
<1> QED
  BY <1>1, <1>3, PacketsReadAsMeant

(* The reports of SequencesAgree are reports.                               *)
LEMMA SeveralAreReports ==
    ASSUME NEW reports \in Several
    PROVE  reports \in Seq(Report)
<1>1. Plain \in Structure /\ Stadia \in Structure
  BY DEF Plain, Stadia, Structure
<1>2. <<>> \in Seq(Structure) /\ <<Plain>> \in Seq(Structure) /\ <<Stadia>> \in Seq(Structure)
      /\ <<Plain, Stadia>> \in Seq(Structure)
  <2> HIDE DEF Plain, Stadia, Structure
  <2> QED
    BY <1>1
<1>3. Few \subseteq Report
  <2> HIDE DEF Plain, Stadia, Structure
  <2> QED
    BY <1>2 DEF Few, Report
<1>4. PICK a \in Few, b \in Few : reports = <<a, b, a>>
  BY DEF Several
<1>5. a \in Report /\ b \in Report
  BY <1>3
<1>6. <<a, b, a>> \in Seq(Report)
  BY <1>5
<1> QED
  BY <1>4, <1>6

(* Every cut and claim of three reports is read as it was meant.            *)
LEMMA SequencesDoAgree ==
    ASSUME NEW known
    PROVE  SequencesAgree(known)
<1> SUFFICES ASSUME NEW layout \in {Legacy, Extended}, NEW reports \in Several,
                    NEW on \in {{"known", "connectable"}, {"known", "stadia"}},
                    NEW claimed \in {2, 3}, NEW kept \in 0..Len(ReportsBytes(layout, reports))
             PROVE  Agree(on, known, layout, reports, ReportsBytes(layout, reports), claimed, kept)
  BY Zenon DEF SequencesAgree
<1>1. reports \in Seq(Report) /\ claimed \in Nat
  BY SeveralAreReports
<1> QED
  BY <1>1, PacketsReadAsMeant

(* So are directed reports.                                                 *)
LEMMA DirectedDoAgree == DirectedAgree
<1> SUFFICES ASSUME NEW events \in [1..2 -> {0, 1}], NEW claimed \in 1..3,
                    NEW kept \in 0..Len(DirectedBytes(events))
             PROVE  PacketMatches({"directed"}, {},
                        <<62, 255, 11, claimed>> \o SubSeq(DirectedBytes(events), 1, kept)).wake
                      <=> \E n \in 1..claimed : 16 * n <= kept /\ events[n] = 1
  BY Zenon DEF DirectedAgree
<1>1. events \in Seq(Nat)
  <2>1. events \in [1..2 -> Nat]
    OBVIOUS
  <2> QED
    BY <2>1, SeqDef
<1>2. claimed \in Nat
  OBVIOUS
<1>3. DirectedRead({}, events, claimed, kept)
  BY <1>1, <1>2, DirectedReadAsMeant
<1> QED
  BY <1>3, Zenon DEF DirectedRead
=============================================================================
