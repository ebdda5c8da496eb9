---------------------------- MODULE HeartbeatProofs ----------------------------
(***************************************************************************)
(* Theorems about the heartbeat file, for every number of time stamps.     *)
(***************************************************************************)
EXTENDS Heartbeat, SequenceTheorems, WellFoundedInduction, TLAPS

(* The place of the i-th line of a full ring buffer whose oldest line is at l. *)
Place(l, i) == IF l + i - 1 < hbstamps THEN l + i - 1 ELSE l + i - 1 - hbstamps

(* As long as the ring buffer is not full it begins at its physical start. *)
NotYetRound == nrts < hbstamps => lastts = nrts

-----------------------------------------------------------------------------
(* Remainders *)

LEMMA SmallRemainder ==
    ASSUME NEW a \in Nat, NEW b \in Nat \ {0}, a < b
    PROVE  a % b = a
OBVIOUS

LEMMA NextRemainder ==
    ASSUME NEW a \in Nat, NEW b \in Nat \ {0}, a < b
    PROVE  (a + b) % b = a
OBVIOUS

LEMMA RemainderType ==
    ASSUME NEW a \in Nat, NEW b \in Nat \ {0}
    PROVE  a % b \in 0 .. b - 1
OBVIOUS

(* A set of numbers with a bound has a greatest element. *)
LEMMA Greatest ==
    ASSUME NEW n \in Nat, NEW K \in SUBSET (1 .. n), K # {}
    PROVE  \E k \in K : \A j \in K : j <= k
<1> DEFINE T == {n - k : k \in K}
<1>1. T \subseteq Nat /\ T # {}
  <2>1. \A k \in K : k \in 1 .. n /\ n - k \in Nat
    OBVIOUS
  <2>2. T \subseteq Nat
    BY <2>1
  <2>3. PICK k : k \in K
    OBVIOUS
  <2>4. n - k \in T
    BY <2>3
  <2> QED
    BY <2>2, <2>4
<1>2. PICK x \in T : \A y \in T : ~(<<y, x>> \in OpToRel(<, Nat))
  BY <1>1, NatLessThanWellFounded, WFMin
<1>3. PICK k \in K : x = n - k
  OBVIOUS
<1>4. ASSUME NEW j \in K PROVE j <= k
  <2>1. n - j \in T /\ ~(<<n - j, x>> \in OpToRel(<, Nat))
    BY <1>2
  <2>2. ~(n - j < x)
    BY <1>1, <2>1 DEF OpToRel
  <2> QED
    BY <1>3, <2>2
<1> QED
  BY <1>4
-----------------------------------------------------------------------------
(* Type correctness *)

LEMMA FileType == ASSUME Init PROVE file \in Seq(Line) /\ Len(file) <= OldStamps
<1>1. PICK n \in 0 .. OldStamps : file \in [1 .. n -> Line]
  BY DEF Init
<1> QED
  BY <1>1, SizeAssumption

LEMMA PutType ==
    ASSUME TypeOK, NEW t \in Stamp, Put(t)
    PROVE  /\ lastts' \in Index /\ nrts' \in 0 .. hbstamps
           /\ timestamps' \in [Index -> Line \cup {Blank}]
<1>1. lastts' \in Index
  BY SizeAssumption, RemainderType DEF Put, NextIndex, TypeOK, Index
<1>2. nrts' \in 0 .. hbstamps
  BY SizeAssumption DEF Put, NextCount, TypeOK
<1>3. timestamps' \in [Index -> Line \cup {Blank}]
  BY DEF Put, TypeOK, Line
<1> QED
  BY <1>1, <1>2, <1>3

(* A line that was read, or nothing *)
LEMMA LastAtType ==
    ASSUME NEW s \in Seq(Line), NEW i \in Index
    PROVE  LastAt(s, i) \in Line \cup {Blank}
<1> DEFINE K == {k \in 1 .. Len(s) : (k - 1) % hbstamps = i}
<1>1. CASE K = {}
  BY <1>1 DEF LastAt
<1>2. CASE K # {}
  <2>1. \E k \in K : \A j \in K : j <= k
    BY <1>2, Greatest, LenProperties
  <2>2. PICK k \in K : LastAt(s, i) = s[k]
    BY <1>2, <2>1 DEF LastAt
  <2> QED
    BY <2>2, ElementOfSeq
<1> QED
  BY <1>1, <1>2

(* A place that the file reaches gets a line. *)
LEMMA LastAtLine ==
    ASSUME NEW s \in Seq(Line), NEW i \in Index, i + 1 \in 1 .. Len(s)
    PROVE  LastAt(s, i) \in Line
<1> DEFINE K == {k \in 1 .. Len(s) : (k - 1) % hbstamps = i}
<1>1. i + 1 \in K
  BY SizeAssumption, SmallRemainder DEF Index
<1>2. \E k \in K : \A j \in K : j <= k
  BY <1>1, Greatest, LenProperties
<1>3. PICK k \in K : LastAt(s, i) = s[k]
  BY <1>1, <1>2 DEF LastAt
<1> QED
  BY <1>3, ElementOfSeq

LEMMA FunctionIsSeq ==
    ASSUME NEW S, NEW n \in Nat, NEW f \in [1 .. n -> S]
    PROVE  f \in Seq(S) /\ Len(f) = n
OBVIOUS

(* A full buffer, from its logical start to its logical end *)
Unroll(l, ts) ==
    [i \in 1 .. hbstamps - l |-> ts[l + i - 1]] \o [i \in 1 .. l |-> ts[i - 1]]

LEMMA Unrolled ==
    ASSUME NEW l \in Index, NEW ts, \A i \in Index : ts[i] \in Line
    PROVE  /\ Unroll(l, ts) \in Seq(Line) /\ Len(Unroll(l, ts)) = hbstamps
           /\ \A i \in 1 .. hbstamps : Unroll(l, ts)[i] = ts[Place(l, i)]
<1> USE SizeAssumption DEF Index
<1> DEFINE s1 == [i \in 1 .. hbstamps - l |-> ts[l + i - 1]]
           s2 == [i \in 1 .. l |-> ts[i - 1]]
<1>1. s1 \in Seq(Line) /\ Len(s1) = hbstamps - l
  <2>1. hbstamps - l \in Nat /\ s1 \in [1 .. hbstamps - l -> Line]
    OBVIOUS
  <2> QED
    BY <2>1, FunctionIsSeq
<1>2. s2 \in Seq(Line) /\ Len(s2) = l
  <2>1. l \in Nat /\ s2 \in [1 .. l -> Line]
    OBVIOUS
  <2> QED
    BY <2>1, FunctionIsSeq
<1>3. \A i \in 1 .. hbstamps - l : s1[i] = ts[l + i - 1]
  OBVIOUS
<1>4. \A i \in 1 .. l : s2[i] = ts[i - 1]
  OBVIOUS
<1> HIDE DEF s1, s2
<1>5. /\ s1 \o s2 \in Seq(Line) /\ Len(s1 \o s2) = Len(s1) + Len(s2)
      /\ \A i \in 1 .. Len(s1) + Len(s2) :
            (s1 \o s2)[i] = IF i <= Len(s1) THEN s1[i] ELSE s2[i - Len(s1)]
  BY <1>1, <1>2, ConcatProperties
<1>6. Len(s1) + Len(s2) = hbstamps
  BY <1>1, <1>2
<1>7. ASSUME NEW i \in 1 .. hbstamps PROVE (s1 \o s2)[i] = ts[Place(l, i)]
  <2>1. (s1 \o s2)[i] = IF i <= hbstamps - l THEN s1[i] ELSE s2[i - (hbstamps - l)]
    BY <1>1, <1>5, <1>6
  <2>2. CASE i <= hbstamps - l
    BY <1>3, <2>1, <2>2 DEF Place
  <2>3. CASE ~(i <= hbstamps - l)
    <3>1. i - (hbstamps - l) \in 1 .. l /\ i - (hbstamps - l) - 1 = Place(l, i)
      BY <2>3 DEF Place
    <3>2. (s1 \o s2)[i] = s2[i - (hbstamps - l)]
      BY <2>1, <2>3
    <3> QED
      BY <1>4, <3>1, <3>2
  <2> QED
    BY <2>2, <2>3
<1>8. /\ s1 \o s2 \in Seq(Line) /\ Len(s1 \o s2) = hbstamps
      /\ \A i \in 1 .. hbstamps : (s1 \o s2)[i] = ts[Place(l, i)]
  BY <1>5, <1>6, <1>7
<1> QED
  BY <1>8 DEF s1, s2, Unroll

(* What write_heartbeat() writes is the buffer's lines in their order. *)
LEMMA ImageProperties ==
    ASSUME NEW l \in Index, NEW n \in 0 .. hbstamps, NEW ts,
           lastts' = l, nrts' = n, timestamps' = ts,
           \A i \in 0 .. n - 1 : ts[i] \in Line
    PROVE  /\ Oldest \in Seq(Line) /\ Newest \in Seq(Line)
           /\ Image \in Seq(Line) /\ Len(Image) = n
           /\ n = hbstamps => \A i \in 1 .. n : Image[i] = ts[Place(l, i)]
           /\ n < hbstamps => \A i \in 1 .. n : Image[i] = ts[i - 1]
<1> USE SizeAssumption
<1>1. CASE n = hbstamps
  <2>1. \A i \in Index : ts[i] \in Line
    BY <1>1 DEF Index
  <2>2. /\ Oldest = [i \in 1 .. hbstamps - l |-> ts[l + i - 1]]
        /\ Newest = [i \in 1 .. l |-> ts[i - 1]]
    BY <1>1 DEF Oldest, Newest
  <2>3. hbstamps - l \in Nat /\ Oldest \in [1 .. hbstamps - l -> Line]
    BY <2>1, <2>2 DEF Index
  <2>4. l \in Nat /\ Newest \in [1 .. l -> Line]
    BY <2>1, <2>2 DEF Index
  <2>5. Image = Unroll(l, ts)
    BY <2>2 DEF Image, Unroll
  <2>6. Oldest \in Seq(Line) /\ Newest \in Seq(Line)
    BY <2>3, <2>4, FunctionIsSeq
  <2> QED
    BY <1>1, <2>1, <2>5, <2>6, Unrolled
<1>2. CASE n < hbstamps
  <2>1. Oldest = [i \in 1 .. n |-> ts[i - 1]] /\ Newest = << >>
    BY <1>2 DEF Oldest, Newest
  <2>2. n \in Nat /\ Oldest \in [1 .. n -> Line]
    BY <2>1
  <2>3. Oldest \in Seq(Line) /\ Len(Oldest) = n /\ Newest \in Seq(Line)
    BY <2>1, <2>2, FunctionIsSeq, EmptySeq
  <2>4. Image = Oldest
    BY <2>1, <2>3, ConcatEmptySeq DEF Image
  <2> QED
    BY <1>2, <2>1, <2>3, <2>4
<1> QED
  BY <1>1, <1>2

(* Written over a file that is no longer, it is the file. *)
LEMMA OverwrittenProperties ==
    ASSUME NEW img \in Seq(Line), file \in Seq(Line)
    PROVE  /\ Overwritten(img) \in Seq(Line)
           /\ Len(file) <= Len(img) => Overwritten(img) = img
<1> DEFINE rest == SubSeq(file, Len(img) + 1, Len(file))
<1>1. rest \in Seq(Line)
  BY SubSeqProperties, LenProperties, ElementOfSeq
<1>2. Len(file) <= Len(img) => rest = << >>
  BY SubSeqEmpty, LenProperties
<1> QED
  BY <1>1, <1>2, ConcatProperties, ConcatEmptySeq DEF Overwritten

(* What a failing fwrite() got out is a beginning of what it was given, but for a last
   line that may be torn. *)
LEMMA PartProperties ==
    ASSUME NEW s \in Seq(Line), NEW a \in PartOf(s)
    PROVE  /\ a \in Seq(Line) /\ Len(a) <= Len(s)
           /\ \A i \in 1 .. Len(a) : a[i] = Torn \/ a[i] = s[i]
<1>1. Len(s) \in Nat
  BY LenProperties
<1>2. ASSUME NEW k \in 0 .. Len(s)
      PROVE  /\ SubSeq(s, 1, k) \in Seq(Line) /\ Len(SubSeq(s, 1, k)) = k
             /\ \A i \in 1 .. k : SubSeq(s, 1, k)[i] = s[i]
  <2>1. \A i \in 1 .. k : s[i] \in Line
    BY <1>1, ElementOfSeq
  <2> QED
    BY <1>1, <2>1, SubSeqProperties
<1>3. CASE \E k \in 0 .. Len(s) : a = SubSeq(s, 1, k)
  BY <1>1, <1>2, <1>3
<1>4. CASE \E k \in 0 .. Len(s) - 1 : a = Append(SubSeq(s, 1, k), Torn)
  <2>1. PICK k \in 0 .. Len(s) - 1 : a = Append(SubSeq(s, 1, k), Torn)
    BY <1>4
  <2> DEFINE b == SubSeq(s, 1, k)
  <2>2. /\ b \in Seq(Line) /\ Len(b) = k /\ k \in Nat /\ k + 1 <= Len(s)
        /\ \A i \in 1 .. k : b[i] = s[i]
    BY <1>1, <1>2
  <2>3. Torn \in Line
    BY DEF Line
  <2>4. a = Append(b, Torn)
    BY <2>1
  <2> HIDE DEF b
  <2>5. /\ a \in Seq(Line) /\ Len(a) = k + 1 /\ a[k + 1] = Torn
        /\ \A i \in 1 .. k : a[i] = b[i]
    BY <2>2, <2>3, <2>4, AppendProperties
  <2>6. \A i \in 1 .. k + 1 : i \in 1 .. k \/ i = k + 1
    BY <2>2
  <2> QED
    BY <2>2, <2>5, <2>6
<1> QED
  BY <1>3, <1>4 DEF PartOf

(* Lengths, when new lines are written over an old file *)
LEMMA LengthOver ==
    ASSUME NEW n \in Nat, NEW f \in Nat, NEW m \in Nat, NEW r \in Nat, NEW w, n <= m,
           r = IF n + 1 <= f THEN f - n ELSE 0, w = n + r
    PROVE  /\ f <= w /\ (f <= m => w <= m)
           /\ \A i \in 1 .. w : n < i => i - n \in 1 .. r /\ i <= f
OBVIOUS

(* A line of a damaged file: torn, or from some place j of what was to be written, or
   from the file that was there. *)
Salvaged(w, img, i) ==
    \/ w[i] = Torn
    \/ \E j \in i .. Len(img) : w[i] = img[j]
    \/ i <= Len(file) /\ w[i] = file[i]

(* Two writes of which each may stop early leave nothing but such lines. *)
LEMMA DamageProperties ==
    ASSUME NEW s1 \in Seq(Line), NEW s2 \in Seq(Line), NEW a \in PartOf(s1), NEW b \in PartOf(s2),
           file \in Seq(Line)
    PROVE  /\ Overwritten(a \o b) \in Seq(Line)
           /\ Len(file) <= Len(Overwritten(a \o b))
           /\ Len(file) <= Len(s1 \o s2) => Len(Overwritten(a \o b)) <= Len(s1 \o s2)
           /\ \A i \in 1 .. Len(Overwritten(a \o b)) : Salvaged(Overwritten(a \o b), s1 \o s2, i)
<1> DEFINE img == s1 \o s2
           new == a \o b
           rest == SubSeq(file, Len(new) + 1, Len(file))
           w == new \o rest
<1>1. /\ a \in Seq(Line) /\ Len(a) <= Len(s1)
      /\ \A i \in 1 .. Len(a) : a[i] = Torn \/ a[i] = s1[i]
  BY PartProperties
<1>2. /\ b \in Seq(Line) /\ Len(b) <= Len(s2)
      /\ \A i \in 1 .. Len(b) : b[i] = Torn \/ b[i] = s2[i]
  BY PartProperties
<1>3. Len(a) \in Nat /\ Len(b) \in Nat /\ Len(s1) \in Nat /\ Len(s2) \in Nat /\ Len(file) \in Nat
  BY <1>1, <1>2, LenProperties
<1>4. /\ img \in Seq(Line) /\ Len(img) = Len(s1) + Len(s2)
      /\ \A i \in 1 .. Len(s1) + Len(s2) : img[i] = IF i <= Len(s1) THEN s1[i] ELSE s2[i - Len(s1)]
  BY ConcatProperties
<1>5. /\ new \in Seq(Line) /\ Len(new) = Len(a) + Len(b)
      /\ \A i \in 1 .. Len(a) + Len(b) : new[i] = IF i <= Len(a) THEN a[i] ELSE b[i - Len(a)]
  BY <1>1, <1>2, ConcatProperties
<1> HIDE DEF img, new
<1>6. /\ rest \in Seq(Line)
      /\ Len(rest) = IF Len(new) + 1 <= Len(file) THEN Len(file) - Len(new) ELSE 0
      /\ \A i \in 1 .. Len(rest) : rest[i] = file[Len(new) + i]
  <2>1. \A i \in Len(new) + 1 .. Len(file) : file[i] \in Line
    BY <1>3, <1>5, ElementOfSeq
  <2>2. Len(new) \in Nat
    BY <1>3, <1>5
  <2>3. CASE Len(new) + 1 <= Len(file)
    <3>1. /\ rest \in Seq(Line)
          /\ Len(rest) = Len(file) - (Len(new) + 1) + 1
          /\ \A i \in 1 .. Len(file) - (Len(new) + 1) + 1 : rest[i] = file[Len(new) + 1 + i - 1]
      BY <1>3, <2>1, <2>2, <2>3, SubSeqProperties
    <3> HIDE DEF rest
    <3> QED
      BY <1>3, <2>2, <2>3, <3>1
  <2>4. CASE ~(Len(new) + 1 <= Len(file))
    <3>1. rest = << >>
      BY <1>3, <2>2, <2>4, SubSeqEmpty
    <3> QED
      BY <2>4, <3>1, EmptySeq
  <2> QED
    BY <2>3, <2>4
<1> HIDE DEF rest
<1>7. /\ w \in Seq(Line) /\ Len(w) = Len(new) + Len(rest)
      /\ \A i \in 1 .. Len(new) + Len(rest) :
            w[i] = IF i <= Len(new) THEN new[i] ELSE rest[i - Len(new)]
  <2>1. new \in Seq(Line) /\ rest \in Seq(Line)
    BY <1>5, <1>6
  <2> QED
    BY <2>1, ConcatProperties
<1>7a. /\ Len(new) = Len(a) + Len(b) /\ Len(new) \in Nat
       /\ Len(rest) = (IF Len(new) + 1 <= Len(file) THEN Len(file) - Len(new) ELSE 0) /\ Len(rest) \in Nat
       /\ Len(w) = Len(new) + Len(rest) /\ Len(img) = Len(s1) + Len(s2)
  <2>1. Len(new) = Len(a) + Len(b) /\ Len(new) \in Nat
    BY <1>3, <1>5
  <2>2. Len(rest) = (IF Len(new) + 1 <= Len(file) THEN Len(file) - Len(new) ELSE 0)
    BY <1>6
  <2> QED
    BY <1>3, <1>4, <1>7, <2>1, <2>2
<1>8. w = Overwritten(a \o b)
  BY DEF w, new, rest, Overwritten
<1> HIDE DEF w
<1>9. /\ Len(file) <= Len(w) /\ (Len(file) <= Len(img) => Len(w) <= Len(img))
      /\ \A i \in 1 .. Len(w) : Len(new) < i => i - Len(new) \in 1 .. Len(rest) /\ i <= Len(file)
  <2>1. PICK n \in Nat, f \in Nat, m \in Nat, r \in Nat :
          n = Len(new) /\ f = Len(file) /\ m = Len(img) /\ r = Len(rest)
    <3>1. Len(img) \in Nat
      BY <1>3, <1>7a
    <3> QED
      BY <1>3, <1>7a, <3>1
  <2>2. n <= m
    <3>1. Len(a) <= Len(s1) /\ Len(b) <= Len(s2)
      BY <1>1, <1>2
    <3> QED
      BY <1>3, <1>7a, <2>1, <3>1
  <2>3. r = (IF n + 1 <= f THEN f - n ELSE 0) /\ Len(w) = n + r
    BY <1>7a, <2>1
  <2>4. /\ f <= Len(w) /\ (f <= m => Len(w) <= m)
        /\ \A i \in 1 .. Len(w) : n < i => i - n \in 1 .. r /\ i <= f
    BY <2>2, <2>3, LengthOver
  <2> QED
    BY <2>1, <2>4
<1>10. ASSUME NEW i \in 1 .. Len(w) PROVE Salvaged(w, img, i)
  <2>1. CASE i <= Len(a)
    <3>1. w[i] = a[i] /\ i \in 1 .. Len(a)
      BY <1>3, <1>5, <1>7, <2>1
    <3>2. i \in i .. Len(img) /\ img[i] = s1[i]
      BY <1>1, <1>3, <1>4, <2>1
    <3> QED
      BY <1>1, <3>1, <3>2 DEF Salvaged
  <2>2. CASE Len(a) < i /\ i <= Len(a) + Len(b)
    <3>1. w[i] = b[i - Len(a)] /\ i - Len(a) \in 1 .. Len(b)
      BY <1>3, <1>5, <1>7, <2>2
    <3> DEFINE j == Len(s1) + (i - Len(a))
    <3>2. j \in i .. Len(img) /\ j \in 1 .. Len(s1) + Len(s2) /\ ~(j <= Len(s1)) /\ j - Len(s1) = i - Len(a)
      BY <1>1, <1>2, <1>3, <1>4, <2>2
    <3>3. img[j] = s2[i - Len(a)]
      BY <1>4, <3>2
    <3> QED
      BY <1>2, <3>1, <3>2, <3>3 DEF Salvaged
  <2>3. CASE Len(a) + Len(b) < i
    <3>0. i \in 1 .. Len(new) + Len(rest) /\ ~(i <= Len(new)) /\ i - Len(new) \in 1 .. Len(rest)
      <4>1. Len(new) < i /\ i \in 1 .. Len(new) + Len(rest)
        BY <1>7a, <2>3
      <4>2. i - Len(new) \in 1 .. Len(rest)
        BY <1>9, <4>1
      <4>3. ~(i <= Len(new))
        BY <1>7a, <4>1
      <4> QED
        BY <4>1, <4>2, <4>3
    <3>1. w[i] = rest[i - Len(new)] /\ i - Len(new) \in 1 .. Len(rest)
      BY <1>7, <3>0
    <3>2. rest[i - Len(new)] = file[i] /\ i <= Len(file)
      <4>1. rest[i - Len(new)] = file[Len(new) + (i - Len(new))]
        BY <1>6, <3>1
      <4>2. Len(new) + (i - Len(new)) = i /\ i <= Len(file)
        BY <1>7a, <1>9, <3>0
      <4> QED
        BY <4>1, <4>2
    <3> QED
      BY <3>1, <3>2 DEF Salvaged
  <2> QED
    BY <1>3, <2>1, <2>2, <2>3
<1> QED
  BY <1>7, <1>8, <1>9, <1>10 DEF img

(* After write_heartbeat() has put its line *)
LEMMA PutFills ==
    ASSUME TypeOK, NotYetRound, \A i \in 0 .. nrts - 1 : timestamps[i] \in Line,
           NEW t \in Stamp, Put(t)
    PROVE  /\ NotYetRound' /\ \A i \in 0 .. nrts' - 1 : timestamps'[i] \in Line
           /\ nrts <= nrts'
<1> USE SizeAssumption
<1>1. CASE nrts < hbstamps
  <2>1. lastts = nrts /\ nrts' = nrts + 1 /\ timestamps' = [timestamps EXCEPT ![nrts] = t]
    BY <1>1 DEF NotYetRound, Put, NextCount
  <2>2. NotYetRound'
    BY <1>1, <2>1, SmallRemainder DEF NotYetRound, Put, NextIndex, TypeOK
  <2>3. \A i \in 0 .. nrts' - 1 : timestamps'[i] \in Line
    BY <1>1, <2>1 DEF TypeOK, Index, Line
  <2> QED
    BY <2>1, <2>2, <2>3 DEF TypeOK
<1>2. CASE nrts = hbstamps
  <2>1. nrts' = nrts
    BY <1>2 DEF Put, NextCount
  <2>2. \A i \in 0 .. nrts' - 1 : timestamps'[i] \in Line
    BY <1>2, <2>1 DEF TypeOK, Index, Line, Put
  <2> QED
    BY <1>2, <2>1, <2>2 DEF NotYetRound, TypeOK
<1> QED
  BY <1>1, <1>2 DEF TypeOK

(* After open_heartbeat() *)
LEMMA OpenFills ==
    ASSUME TypeOK, open_heartbeat
    PROVE  /\ lastts' \in Index /\ nrts' \in 0 .. hbstamps
           /\ timestamps' \in [Index -> Line \cup {Blank}]
           /\ NotYetRound' /\ \A i \in 0 .. nrts' - 1 : timestamps'[i] \in Line
           /\ nrts' = IF Len(file) < hbstamps THEN Len(file) + 1 ELSE hbstamps
<1> USE SizeAssumption
<1> DEFINE s == Append(file, Restart)
<1>1. s \in Seq(Line) /\ Len(s) = Len(file) + 1 /\ Len(file) \in Nat
  BY AppendProperties, LenProperties DEF TypeOK, Line
<1>2. /\ timestamps' = [i \in Index |-> LastAt(s, i)]
      /\ lastts' = Len(s) % hbstamps
      /\ nrts' = IF Len(s) > hbstamps THEN hbstamps ELSE Len(s)
  BY DEF open_heartbeat
<1> HIDE DEF s
<1>3. timestamps' \in [Index -> Line \cup {Blank}]
  BY <1>1, <1>2, LastAtType
<1>4. lastts' \in Index
  <2>1. Len(s) \in Nat
    BY <1>1
  <2>2. Len(s) % hbstamps \in 0 .. hbstamps - 1
    BY <2>1, RemainderType
  <2> QED
    BY <1>2, <2>2 DEF Index
<1>5. nrts' = IF Len(file) < hbstamps THEN Len(file) + 1 ELSE hbstamps
  BY <1>1, <1>2
<1>6. NotYetRound'
  BY <1>1, <1>2, SmallRemainder DEF NotYetRound
<1>7. ASSUME NEW i \in 0 .. nrts' - 1 PROVE timestamps'[i] \in Line
  <2>1. i \in Index /\ i + 1 \in 1 .. Len(s)
    BY <1>1, <1>2, <1>5 DEF Index
  <2>2. LastAt(s, i) \in Line
    BY <1>1, <2>1, LastAtLine
  <2> QED
    BY <1>2, <2>1, <2>2
<1> QED
  BY <1>1, <1>3, <1>4, <1>5, <1>6, <1>7

(* The type invariant, with what it needs: the lines that are written are lines. *)
Valid   == hb => \A i \in 0 .. nrts - 1 : timestamps[i] \in Line
TypeInv == TypeOK /\ NotYetRound /\ Valid

LEMMA TypeInit == Init => TypeInv
<1> SUFFICES ASSUME Init PROVE TypeInv
  OBVIOUS
<1>1. hb \in BOOLEAN /\ lastts \in Index /\ nrts \in 0 .. hbstamps
  <2>1. hb = FALSE /\ lastts = 0 /\ nrts = 0
    BY DEF Init
  <2>2. hb \in BOOLEAN
    BY <2>1
  <2> QED
    BY <2>1, <2>2, SizeAssumption DEF Index
<1>2. timestamps \in [Index -> Line \cup {Blank}]
  BY DEF Init
<1>3. NotYetRound /\ Valid
  BY DEF Init, NotYetRound, Valid
<1> QED
  BY <1>1, <1>2, <1>3, FileType DEF TypeInv, TypeOK

LEMMA WriteKeeps ==
    ASSUME TypeInv, hb, NEW t \in Stamp, Put(t)
    PROVE  /\ Oldest \in Seq(Line) /\ Newest \in Seq(Line)
           /\ Image \in Seq(Line) /\ Len(Image) = nrts' /\ nrts <= nrts' /\ nrts' \in 0 .. hbstamps
           /\ NotYetRound' /\ \A i \in 0 .. nrts' - 1 : timestamps'[i] \in Line
<1>1. /\ lastts' \in Index /\ nrts' \in 0 .. hbstamps
      /\ timestamps' \in [Index -> Line \cup {Blank}]
  BY PutType DEF TypeInv
<1>2. /\ NotYetRound' /\ \A i \in 0 .. nrts' - 1 : timestamps'[i] \in Line
      /\ nrts <= nrts'
  BY PutFills DEF TypeInv, Valid
<1>3. /\ Oldest \in Seq(Line) /\ Newest \in Seq(Line)
      /\ Image \in Seq(Line) /\ Len(Image) = nrts'
  <2>1. PICK l \in Index, n \in 0 .. hbstamps : lastts' = l /\ nrts' = n
    BY <1>1
  <2>2. PICK ts : timestamps' = ts
    OBVIOUS
  <2> QED
    BY <1>2, <2>1, <2>2, ImageProperties
<1> QED
  BY <1>1, <1>2, <1>3

LEMMA TypeStep == TypeInv /\ [Next]_vars => TypeInv'
<1> SUFFICES ASSUME TypeInv, [Next]_vars PROVE TypeInv'
  OBVIOUS
<1> USE DEF TypeInv
<1>1. CASE open_heartbeat
  <2>1. hb' = TRUE /\ file' = file
    BY <1>1 DEF open_heartbeat
  <2> QED
    BY <1>1, <2>1, OpenFills DEF TypeOK, Valid
<1>2. CASE write_heartbeat
  <2>1. PICK t \in Stamp : Put(t)
    BY <1>2 DEF write_heartbeat
  <2>2. hb /\ hb' = hb
    BY <1>2 DEF write_heartbeat
  <2>3. file' \in Seq(Line)
    <3>1. file \in Seq(Line) /\ Image \in Seq(Line)
      BY <2>1, <2>2, WriteKeeps DEF TypeOK
    <3>2. Overwritten(Image) \in Seq(Line)
      BY <3>1, OverwrittenProperties
    <3>3. Oldest \in Seq(Line) /\ Newest \in Seq(Line)
      BY <2>1, <2>2, WriteKeeps
    <3>4. \A a \in PartOf(Oldest), b \in PartOf(Newest) : Overwritten(a \o b) \in Seq(Line)
      BY <3>1, <3>3, DamageProperties
    <3> QED
      BY <1>2, <3>2, <3>4 DEF write_heartbeat
  <2> QED
    BY <2>1, <2>2, <2>3, WriteKeeps, PutType DEF TypeOK, Valid
<1>3. CASE close_heartbeat
  <2>1. hb' = FALSE /\ UNCHANGED <<lastts, nrts, file>> /\ timestamps' = [i \in Index |-> Blank]
    BY <1>3 DEF close_heartbeat
  <2> QED
    BY <2>1 DEF TypeOK, NotYetRound, Valid
<1>4. CASE open_fails \/ UNCHANGED vars
  BY <1>4 DEF open_fails, vars, TypeOK, NotYetRound, Valid
<1> QED
  BY <1>1, <1>2, <1>3, <1>4 DEF Next

(* Whatever hbstamps is and however long the file that is found, the buffer is only
   used within its bounds and only lines get into the file. *)
THEOREM TypeCorrect == Spec => []TypeOK
<1>1. TypeInv => TypeOK
  BY DEF TypeInv
<1> QED
  BY <1>1, TypeInit, TypeStep, PTL DEF Spec

-----------------------------------------------------------------------------
(* The refinement *)

(* A ring buffer as the sequence of its lines *)
ContentsOf(l, n, ts) == [i \in 1 .. n |-> ts[(l + hbstamps - n + i - 1) % hbstamps]]

LEMMA ContentsProperties ==
    ASSUME NEW l \in Index, NEW n \in 0 .. hbstamps, NEW ts,
           n < hbstamps => l = n, \A i \in 0 .. n - 1 : ts[i] \in Line
    PROVE  /\ ContentsOf(l, n, ts) \in Seq(Line) /\ Len(ContentsOf(l, n, ts)) = n
           /\ n = hbstamps => \A i \in 1 .. n : ContentsOf(l, n, ts)[i] = ts[Place(l, i)]
           /\ n < hbstamps => \A i \in 1 .. n : ContentsOf(l, n, ts)[i] = ts[i - 1]
<1> USE SizeAssumption DEF Index
<1>1. ASSUME NEW i \in 1 .. n
      PROVE  /\ n = hbstamps => (l + hbstamps - n + i - 1) % hbstamps = Place(l, i)
             /\ n < hbstamps => (l + hbstamps - n + i - 1) % hbstamps = i - 1
  <2>1. CASE n = hbstamps
    <3>1. l + hbstamps - n + i - 1 = l + i - 1
      BY <2>1
    <3>2. CASE l + i - 1 < hbstamps
      BY <2>1, <3>1, <3>2, SmallRemainder DEF Place
    <3>3. CASE ~(l + i - 1 < hbstamps)
      <4>1. l + i - 1 - hbstamps \in Nat /\ l + i - 1 - hbstamps < hbstamps
        BY <3>3
      <4>2. (l + i - 1 - hbstamps + hbstamps) % hbstamps = l + i - 1 - hbstamps
        BY <4>1, NextRemainder
      <4>3. l + i - 1 - hbstamps + hbstamps = l + i - 1
        OBVIOUS
      <4> QED
        BY <2>1, <3>1, <3>3, <4>2, <4>3 DEF Place
    <3> QED
      BY <3>2, <3>3
  <2>2. CASE n < hbstamps
    <3>1. l + hbstamps - n + i - 1 = (i - 1) + hbstamps
      BY <2>2
    <3>2. i - 1 \in Nat /\ i - 1 < hbstamps
      BY <2>2
    <3> QED
      BY <2>2, <3>1, <3>2, NextRemainder
  <2> QED
    BY <2>1, <2>2
<1>2. ASSUME NEW i \in 1 .. n
      PROVE  /\ n = hbstamps => Place(l, i) \in 0 .. n - 1
             /\ n < hbstamps => i - 1 \in 0 .. n - 1
  BY DEF Place
<1>3. ASSUME NEW i \in 1 .. n PROVE ts[(l + hbstamps - n + i - 1) % hbstamps] \in Line
  BY <1>1, <1>2
<1>4. n \in Nat /\ ContentsOf(l, n, ts) \in [1 .. n -> Line]
  BY <1>3 DEF ContentsOf
<1>5. \A i \in 1 .. n : ContentsOf(l, n, ts)[i] = ts[(l + hbstamps - n + i - 1) % hbstamps]
  BY DEF ContentsOf
<1> QED
  BY <1>1, <1>4, <1>5, FunctionIsSeq

(* The last hbstamps lines of a sequence that is at most one too long *)
LEMMA LastNProperties ==
    ASSUME NEW s \in Seq(Line), Len(s) <= hbstamps + 1
    PROVE  /\ Len(s) <= hbstamps => Rolling!LastN(s) = s
           /\ Len(s) = hbstamps + 1 =>
                 /\ Rolling!LastN(s) \in Seq(Line) /\ Len(Rolling!LastN(s)) = hbstamps
                 /\ \A i \in 1 .. hbstamps : Rolling!LastN(s)[i] = s[i + 1]
<1> USE SizeAssumption
<1>1. Len(s) \in Nat
  BY LenProperties
<1>2. CASE Len(s) <= hbstamps
  <2>1. Rolling!LastN(s) = SubSeq(s, 1, Len(s))
    <3>1. (IF Len(s) > hbstamps THEN Len(s) - hbstamps + 1 ELSE 1) = 1
      BY <1>1, <1>2
    <3> QED
      BY <3>1 DEF Rolling!LastN
  <2> QED
    BY <1>1, <1>2, <2>1, SubSeqFull
<1>3. CASE Len(s) = hbstamps + 1
  <2>1. Rolling!LastN(s) = SubSeq(s, 2, hbstamps + 1)
    BY <1>1, <1>3 DEF Rolling!LastN
  <2>2. \A i \in 2 .. hbstamps + 1 : s[i] \in Line
    BY <1>3, ElementOfSeq
  <2>3. /\ SubSeq(s, 2, hbstamps + 1) \in Seq(Line)
        /\ Len(SubSeq(s, 2, hbstamps + 1)) = IF 2 <= hbstamps + 1 THEN hbstamps + 1 - 2 + 1 ELSE 0
        /\ \A i \in 1 .. hbstamps + 1 - 2 + 1 : SubSeq(s, 2, hbstamps + 1)[i] = s[2 + i - 1]
    BY <2>2, SubSeqProperties
  <2>4. /\ Len(SubSeq(s, 2, hbstamps + 1)) = hbstamps
        /\ \A i \in 1 .. hbstamps : SubSeq(s, 2, hbstamps + 1)[i] = s[i + 1]
    BY <2>3
  <2> QED
    BY <1>1, <1>3, <2>1, <2>3, <2>4
<1> QED
  BY <1>1, <1>2, <1>3

(* One more line in the ring buffer is one more line in the log, and the oldest falls
   out of a full one. *)
LEMMA PutContents ==
    ASSUME NEW l \in Index, NEW n \in 0 .. hbstamps, NEW ts \in [Index -> Line \cup {Blank}],
           n < hbstamps => l = n, \A i \in 0 .. n - 1 : ts[i] \in Line, NEW t \in Stamp
    PROVE  ContentsOf(NextIndex(l), NextCount(n), [ts EXCEPT ![l] = t])
              = Rolling!LastN(Append(ContentsOf(l, n, ts), t))
<1> USE SizeAssumption DEF Index
<1> DEFINE l2 == NextIndex(l)
           n2 == NextCount(n)
           ts2 == [ts EXCEPT ![l] = t]
           c == ContentsOf(l, n, ts)
           c2 == ContentsOf(l2, n2, ts2)
           r == Rolling!LastN(Append(c, t))
<1>1. /\ c \in Seq(Line) /\ Len(c) = n
      /\ n = hbstamps => \A i \in 1 .. n : c[i] = ts[Place(l, i)]
      /\ n < hbstamps => \A i \in 1 .. n : c[i] = ts[i - 1]
  BY ContentsProperties
<1>2. l2 = IF l + 1 < hbstamps THEN l + 1 ELSE 0
  <2>1. CASE l + 1 < hbstamps
    BY <2>1, SmallRemainder DEF NextIndex
  <2>2. CASE ~(l + 1 < hbstamps)
    <3>1. l + 1 = 0 + hbstamps
      BY <2>2
    <3>2. (0 + hbstamps) % hbstamps = 0
      BY NextRemainder
    <3> QED
      BY <2>2, <3>1, <3>2 DEF NextIndex
  <2> QED
    BY <2>1, <2>2
<1>3. n2 = IF n < hbstamps THEN n + 1 ELSE hbstamps
  BY DEF NextCount
<1>4. \A i \in Index : ts2[i] = IF i = l THEN t ELSE ts[i]
  OBVIOUS
<1>5. t \in Line
  BY DEF Line
<1> HIDE DEF l2, n2, ts2, c, c2
<1>6. l2 \in Index /\ n2 \in 0 .. hbstamps /\ (n2 < hbstamps => l2 = n2)
  BY <1>2, <1>3
<1>7. \A i \in 0 .. n2 - 1 : ts2[i] \in Line
  BY <1>3, <1>4, <1>5
<1>8. /\ c2 \in Seq(Line) /\ Len(c2) = n2
      /\ n2 = hbstamps => \A i \in 1 .. n2 : c2[i] = ts2[Place(l2, i)]
      /\ n2 < hbstamps => \A i \in 1 .. n2 : c2[i] = ts2[i - 1]
  BY <1>6, <1>7, ContentsProperties DEF c2
<1>9. /\ Append(c, t) \in Seq(Line) /\ Len(Append(c, t)) = n + 1
      /\ \A i \in 1 .. n : Append(c, t)[i] = c[i]
      /\ Append(c, t)[n + 1] = t
  BY <1>1, <1>5, AppendProperties
<1>10. CASE n < hbstamps
  <2>1. r = Append(c, t)
    BY <1>9, <1>10, LastNProperties
  <2>2. ASSUME NEW i \in 1 .. n2 PROVE c2[i] = ts2[i - 1]
    <3>1. CASE n2 = hbstamps
      <4>1. l2 = 0 /\ Place(l2, i) = i - 1
        BY <1>2, <1>3, <1>10, <3>1 DEF Place
      <4> QED
        BY <1>8, <3>1, <4>1
    <3>2. CASE n2 # hbstamps
      BY <1>6, <1>8, <3>2
    <3> QED
      BY <3>1, <3>2
  <2>3. ASSUME NEW i \in 1 .. n2 PROVE c2[i] = Append(c, t)[i]
    <3>1. n2 = n + 1 /\ l = n
      BY <1>3, <1>10
    <3>2. CASE i = n + 1
      <4>1. i - 1 \in Index /\ i - 1 = l
        BY <1>10, <3>1, <3>2
      <4> QED
        BY <1>4, <1>9, <2>2, <3>2, <4>1
    <3>3. CASE i # n + 1
      <4>1. i \in 1 .. n /\ i - 1 \in Index /\ i - 1 # l
        BY <1>10, <3>1, <3>3
      <4>2. c2[i] = ts[i - 1]
        BY <1>4, <2>2, <4>1
      <4> QED
        BY <1>1, <1>9, <1>10, <4>1, <4>2
    <3> QED
      BY <3>2, <3>3
  <2>4. Len(c2) = Len(Append(c, t))
    BY <1>3, <1>8, <1>9, <1>10
  <2>5. c2 = Append(c, t)
    BY <1>8, <1>9, <2>3, <2>4, SeqEqual
  <2> QED
    BY <2>1, <2>5 DEF c, c2, l2, n2, ts2
<1>11. CASE n = hbstamps
  <2>1. /\ r \in Seq(Line) /\ Len(r) = hbstamps
        /\ \A i \in 1 .. hbstamps : r[i] = Append(c, t)[i + 1]
    BY <1>9, <1>11, LastNProperties
  <2>2. n2 = hbstamps
    BY <1>3, <1>11
  <2>3. ASSUME NEW i \in 1 .. hbstamps PROVE c2[i] = r[i]
    <3>1. c2[i] = ts2[Place(l2, i)] /\ r[i] = Append(c, t)[i + 1]
      BY <1>8, <2>1, <2>2
    <3>2. CASE i = hbstamps
      <4>1. Place(l2, i) = l
        BY <1>2, <3>2 DEF Place
      <4> QED
        BY <1>4, <1>9, <1>11, <3>1, <3>2, <4>1
    <3>3. CASE i # hbstamps
      <4>1. Place(l2, i) \in Index /\ Place(l2, i) # l /\ Place(l2, i) = Place(l, i + 1)
        BY <1>2, <3>3 DEF Place
      <4>2. i + 1 \in 1 .. n
        BY <1>11, <3>3
      <4>3. c2[i] = ts[Place(l, i + 1)]
        BY <1>4, <3>1, <4>1
      <4>4. r[i] = c[i + 1]
        BY <1>9, <3>1, <4>2
      <4> QED
        BY <1>1, <1>11, <4>2, <4>3, <4>4
    <3> QED
      BY <3>2, <3>3
  <2>4. c2 = r
    BY <1>8, <2>1, <2>2, <2>3, SeqEqual
  <2> QED
    BY <2>4 DEF c, c2, l2, n2, ts2
<1> QED
  BY <1>10, <1>11

(* The lines of a file that is at most one too long, and where they go *)
LEMMA LastAtValue ==
    ASSUME NEW s \in Seq(Line), Len(s) <= hbstamps + 1, NEW i \in Index, i + 1 \in 1 .. Len(s)
    PROVE  LastAt(s, i) = IF i = 0 /\ Len(s) = hbstamps + 1 THEN s[hbstamps + 1] ELSE s[i + 1]
<1> USE SizeAssumption DEF Index
<1> DEFINE K == {k \in 1 .. Len(s) : (k - 1) % hbstamps = i}
<1>1. Len(s) \in Nat
  BY LenProperties
<1>2. i + 1 \in K
  BY SmallRemainder
<1>3. Len(s) = hbstamps + 1 /\ i = 0 => hbstamps + 1 \in K
  <2>1. (0 + hbstamps) % hbstamps = 0
    BY NextRemainder
  <2> QED
    BY <1>1, <2>1
<1>4. \E k \in K : \A j \in K : j <= k
  BY <1>1, <1>2, Greatest
<1>5. PICK k \in K : LastAt(s, i) = s[k] /\ \A j \in K : j <= k
  BY <1>2, <1>4 DEF LastAt
<1>6. CASE k = hbstamps + 1
  <2>1. (0 + hbstamps) % hbstamps = 0 /\ k - 1 = 0 + hbstamps
    BY <1>6, NextRemainder
  <2>2. i = 0 /\ Len(s) = hbstamps + 1
    BY <1>1, <1>6, <2>1
  <2> QED
    BY <1>5, <1>6, <2>2
<1>7. CASE k # hbstamps + 1
  <2>1. k - 1 \in Nat /\ k - 1 < hbstamps
    BY <1>1, <1>7
  <2>2. k - 1 = i
    BY <2>1, SmallRemainder
  <2>3. ~(Len(s) = hbstamps + 1 /\ i = 0)
    BY <1>3, <1>5, <2>1
  <2> QED
    BY <1>5, <2>2, <2>3
<1> QED
  BY <1>6, <1>7

(* open_heartbeat() goes on from the last lines of the file. *)
LEMMA OpenContents ==
    ASSUME NEW s \in Seq(Line), 0 < Len(s), Len(s) <= hbstamps + 1
    PROVE  ContentsOf(Len(s) % hbstamps, IF Len(s) > hbstamps THEN hbstamps ELSE Len(s),
                      [i \in Index |-> LastAt(s, i)]) = Rolling!LastN(s)
<1> USE SizeAssumption DEF Index
<1> DEFINE l == Len(s) % hbstamps
           n == IF Len(s) > hbstamps THEN hbstamps ELSE Len(s)
           ts == [i \in Index |-> LastAt(s, i)]
           c == ContentsOf(l, n, ts)
           r == Rolling!LastN(s)
<1>1. Len(s) \in Nat
  BY LenProperties
<1>2. l \in Index /\ n \in 1 .. hbstamps
  <2>1. l \in Index
    BY <1>1, RemainderType
  <2>2. n \in 1 .. hbstamps
    BY <1>1
  <2> QED
    BY <2>1, <2>2
<1>3. n < hbstamps => l = n
  BY <1>1, SmallRemainder
<1>4. ASSUME NEW i \in 0 .. n - 1
      PROVE  /\ i \in Index /\ i + 1 \in 1 .. Len(s)
             /\ ts[i] = IF i = 0 /\ Len(s) = hbstamps + 1 THEN s[hbstamps + 1] ELSE s[i + 1]
  <2>1. i \in Index /\ i + 1 \in 1 .. Len(s)
    BY <1>1
  <2>2. ts[i] = LastAt(s, i)
    BY <2>1
  <2> QED
    BY <2>1, <2>2, LastAtValue
<1>5. ASSUME NEW i \in 0 .. n - 1 PROVE ts[i] \in Line
  <2>1. s[i + 1] \in Line
    BY <1>4, ElementOfSeq
  <2>2. Len(s) = hbstamps + 1 => s[hbstamps + 1] \in Line
    BY <1>1, ElementOfSeq
  <2> QED
    BY <1>4, <2>1, <2>2
<1> HIDE DEF ts, c
<1>6. /\ c \in Seq(Line) /\ Len(c) = n
      /\ n = hbstamps => \A i \in 1 .. n : c[i] = ts[Place(l, i)]
      /\ n < hbstamps => \A i \in 1 .. n : c[i] = ts[i - 1]
  BY <1>2, <1>3, <1>5, ContentsProperties DEF c
<1>7. CASE Len(s) <= hbstamps
  <2>1. r = s /\ n = Len(s)
    BY <1>1, <1>7, LastNProperties
  <2>2. ASSUME NEW i \in 1 .. n PROVE c[i] = s[i]
    <3>1. i - 1 \in 0 .. n - 1 /\ ts[i - 1] = s[i]
      BY <1>1, <1>2, <1>4, <1>7
    <3>2. CASE n < hbstamps
      BY <1>6, <3>1, <3>2
    <3>3. CASE n = hbstamps
      <4>1. (0 + hbstamps) % hbstamps = 0
        BY NextRemainder
      <4>2. l = 0
        BY <2>1, <3>3, <4>1
      <4>3. Place(0, i) = i - 1
        BY <3>3 DEF Place
      <4> QED
        BY <1>6, <3>1, <3>3, <4>2, <4>3
    <3> QED
      BY <1>2, <3>2, <3>3
  <2>3. c = s
    BY <1>6, <2>1, <2>2, SeqEqual
  <2> QED
    BY <2>1, <2>3 DEF c, ts
<1>8. CASE Len(s) = hbstamps + 1
  <2>1. n = hbstamps
    BY <1>8
  <2>2. /\ r \in Seq(Line) /\ Len(r) = hbstamps
        /\ \A i \in 1 .. hbstamps : r[i] = s[i + 1]
    BY <1>8, LastNProperties
  <2>3. l = IF hbstamps = 1 THEN 0 ELSE 1
    <3>1. CASE hbstamps = 1
      BY <1>2, <3>1
    <3>2. CASE hbstamps # 1
      <4>1. (1 + hbstamps) % hbstamps = 1
        BY <3>2, NextRemainder
      <4> QED
        BY <1>8, <3>2, <4>1
    <3> QED
      BY <3>1, <3>2
  <2>4. ASSUME NEW i \in 1 .. hbstamps PROVE c[i] = s[i + 1]
    <3>1. c[i] = ts[Place(l, i)]
      BY <1>6, <2>1
    <3>2. CASE i = hbstamps
      <4>1. Place(l, i) = 0
        BY <2>3, <3>2 DEF Place
      <4>2. ts[0] = s[hbstamps + 1]
        BY <1>4, <1>8, <2>1
      <4> QED
        BY <3>1, <3>2, <4>1, <4>2
    <3>3. CASE i # hbstamps
      <4>1. Place(l, i) = i /\ i \in 0 .. n - 1
        BY <2>1, <2>3, <3>3 DEF Place
      <4>2. ts[i] = s[i + 1]
        BY <1>4, <4>1
      <4> QED
        BY <3>1, <4>1, <4>2
    <3> QED
      BY <3>2, <3>3
  <2>5. c = r
    <3>1. c \in Seq(Line) /\ Len(c) = hbstamps
      BY <1>6, <2>1
    <3>2. \A i \in 1 .. hbstamps : c[i] = r[i]
      BY <2>2, <2>4
    <3> HIDE DEF r
    <3> QED
      BY <2>2, <3>1, <3>2, SeqEqual
  <2> QED
    BY <2>5 DEF c, ts
<1> QED
  BY <1>1, <1>7, <1>8

(* The invariant that the refinement needs: a file that fits is never longer than what
   is written over it. *)
FileFits == Len(file) <= hbstamps /\ (hb => Len(file) <= nrts)
RingInv  == TypeInv /\ FileFits

LEMMA RingStep == RingInv /\ [Next]_vars => RingInv'
<1> SUFFICES ASSUME RingInv, [Next]_vars PROVE FileFits'
  BY TypeStep DEF RingInv
<1> USE SizeAssumption DEF RingInv
<1>0. Len(file) \in Nat /\ file \in Seq(Line)
  BY LenProperties DEF TypeInv, TypeOK
<1>1. CASE open_heartbeat
  <2>1. nrts' = IF Len(file) < hbstamps THEN Len(file) + 1 ELSE hbstamps
    BY <1>1, OpenFills DEF TypeInv
  <2>2. file' = file
    BY <1>1 DEF open_heartbeat
  <2> QED
    BY <1>0, <2>1, <2>2 DEF FileFits
<1>2. CASE write_heartbeat
  <2>1. PICK t \in Stamp : Put(t)
    BY <1>2 DEF write_heartbeat
  <2>2. hb /\ hb' = hb
    BY <1>2 DEF write_heartbeat
  <2>3. Image \in Seq(Line) /\ Len(Image) = nrts' /\ nrts <= nrts' /\ nrts' \in 0 .. hbstamps
    BY <2>1, <2>2, WriteKeeps
  <2>4. Len(file) <= nrts /\ nrts \in Nat
    BY <2>2 DEF FileFits, TypeInv, TypeOK
  <2>5. CASE file' = Overwritten(Image)
    <3>1. Len(file) <= Len(Image)
      BY <1>0, <2>3, <2>4
    <3>2. file' = Image
      BY <1>0, <2>3, <2>5, <3>1, OverwrittenProperties
    <3> QED
      BY <2>3, <3>2 DEF FileFits
  <2>6. CASE \E a \in PartOf(Oldest), b \in PartOf(Newest) : file' = Overwritten(a \o b)
    <3>1. PICK a \in PartOf(Oldest), b \in PartOf(Newest) : file' = Overwritten(a \o b)
      BY <2>6
    <3>2. Len(file) <= Len(Oldest \o Newest)
      BY <1>0, <2>3, <2>4 DEF Image
    <3>3. Oldest \in Seq(Line) /\ Newest \in Seq(Line)
      BY <2>1, <2>2, WriteKeeps
    <3>4. Len(Overwritten(a \o b)) <= Len(Oldest \o Newest) /\ Overwritten(a \o b) \in Seq(Line)
      BY <1>0, <3>2, <3>3, DamageProperties
    <3>5. Len(file') <= nrts' /\ Len(file') \in Nat
      BY <2>3, <3>1, <3>4, LenProperties DEF Image
    <3> QED
      BY <2>3, <3>5 DEF FileFits
  <2> QED
    BY <1>2, <2>5, <2>6 DEF write_heartbeat
<1>3. CASE close_heartbeat \/ open_fails \/ UNCHANGED vars
  BY <1>3 DEF close_heartbeat, open_fails, vars, FileFits
<1> QED
  BY <1>1, <1>2, <1>3 DEF Next

(* What is written is the log. *)
LEMMA ImageIsContents ==
    ASSUME lastts' \in Index, nrts' \in 0 .. hbstamps, NotYetRound',
           \A i \in 0 .. nrts' - 1 : timestamps'[i] \in Line
    PROVE  Image = Contents'
<1>1. PICK l \in Index, n \in 0 .. hbstamps : lastts' = l /\ nrts' = n
  OBVIOUS
<1>2. PICK ts : timestamps' = ts
  OBVIOUS
<1> DEFINE c == ContentsOf(l, n, ts)
<1>3. (n < hbstamps => l = n) /\ \A i \in 0 .. n - 1 : ts[i] \in Line
  BY <1>1, <1>2 DEF NotYetRound
<1>4. /\ Image \in Seq(Line) /\ Len(Image) = n
      /\ n = hbstamps => \A i \in 1 .. n : Image[i] = ts[Place(l, i)]
      /\ n < hbstamps => \A i \in 1 .. n : Image[i] = ts[i - 1]
  BY <1>1, <1>2, <1>3, ImageProperties
<1>5. /\ c \in Seq(Line) /\ Len(c) = n
      /\ n = hbstamps => \A i \in 1 .. n : c[i] = ts[Place(l, i)]
      /\ n < hbstamps => \A i \in 1 .. n : c[i] = ts[i - 1]
  BY <1>3, ContentsProperties
<1>6. Contents' = c
  BY <1>1, <1>2 DEF Contents, ContentsOf
<1> HIDE DEF c
<1>7. \A i \in 1 .. n : Image[i] = c[i]
  <2>1. CASE n = hbstamps
    BY <1>4, <1>5, <2>1
  <2>2. CASE n < hbstamps
    BY <1>4, <1>5, <2>2
  <2> QED
    BY <2>1, <2>2, SizeAssumption
<1>8. Image = c
  BY <1>4, <1>5, <1>7, SeqEqual
<1> QED
  BY <1>6, <1>8

(* The refinement mapping *)
LEMMA ContentsType ==
    ASSUME RingInv, hb
    PROVE  Contents \in Seq(Line) /\ Len(Contents) = nrts
<1>1. Contents = ContentsOf(lastts, nrts, timestamps)
  BY DEF Contents, ContentsOf
<1> QED
  BY <1>1, ContentsProperties DEF RingInv, TypeInv, TypeOK, NotYetRound, Valid

LEMMA RollingInit ==
    ASSUME OldStamps <= hbstamps, Init
    PROVE  RingInv /\ Rolling!Init
<1>1. hb = FALSE /\ file \in Seq(Line) /\ Len(file) <= hbstamps
  <2>1. hb = FALSE
    BY DEF Init
  <2>2. file \in Seq(Line) /\ Len(file) <= OldStamps /\ Len(file) \in Nat
    BY FileType, LenProperties
  <2> QED
    BY <2>1, <2>2, SizeAssumption
<1>2. RingInv
  BY <1>1, TypeInit DEF RingInv, FileFits
<1>3. Rolling!Init
  BY <1>1 DEF Rolling!Init, Rolling!TypeOK, Rolling!Line, Line
<1> QED
  BY <1>2, <1>3

LEMMA RollingStep ==
    ASSUME RingInv, [Next]_vars
    PROVE  [Rolling!Next]_(<<IF hb THEN Contents ELSE file, file>>)
<1> USE SizeAssumption
<1>0. RingInv'
  BY RingStep
<1>a. /\ TypeOK /\ NotYetRound /\ Valid /\ FileFits /\ hb \in BOOLEAN /\ lastts \in Index
      /\ nrts \in 0 .. hbstamps /\ timestamps \in [Index -> Line \cup {Blank}]
      /\ file \in Seq(Line) /\ Len(file) \in Nat
  BY LenProperties DEF RingInv, TypeInv, TypeOK
<1>b. /\ Contents = ContentsOf(lastts, nrts, timestamps)
      /\ Contents' = ContentsOf(lastts', nrts', timestamps')
  BY DEF Contents, ContentsOf
<1> DEFINE Spoilt == /\ file' \in Seq(Line) /\ Len(file) <= Len(file') /\ Len(file') <= Len(Contents')
                     /\ \A i \in 1 .. Len(file') : Salvaged(file', Contents', i)
<1> HIDE DEF Spoilt
<1>1. CASE open_heartbeat
  <2> DEFINE s == Append(file, Restart)
  <2>1. s \in Seq(Line) /\ Len(s) = Len(file) + 1
    BY <1>a, AppendProperties DEF Line
  <2>2. hb = FALSE /\ hb' = TRUE /\ file' = file
    BY <1>1, <1>a DEF open_heartbeat
  <2>3. Contents' = Rolling!LastN(s)
    <3>1. /\ timestamps' = [i \in Index |-> LastAt(s, i)]
          /\ lastts' = Len(s) % hbstamps
          /\ nrts' = IF Len(s) > hbstamps THEN hbstamps ELSE Len(s)
      BY <1>1 DEF open_heartbeat
    <3>2. 0 < Len(s) /\ Len(s) <= hbstamps + 1
      BY <1>a, <2>1 DEF FileFits
    <3> HIDE DEF s
    <3> QED
      BY <1>b, <2>1, <3>1, <3>2, OpenContents
  <2>4. Rolling!Start
    BY <2>2, <2>3 DEF Rolling!Start
  <2> QED
    BY <2>4 DEF Rolling!Next
<1>2. CASE write_heartbeat
  <2>1. PICK t \in Stamp : Put(t)
    BY <1>2 DEF write_heartbeat
  <2>2. hb /\ hb'
    BY <1>2 DEF write_heartbeat
  <2>3. Contents' = Rolling!LastN(Append(Contents, t))
    <3>1. /\ timestamps' = [timestamps EXCEPT ![lastts] = t]
          /\ nrts' = NextCount(nrts) /\ lastts' = NextIndex(lastts)
      BY <2>1 DEF Put
    <3>2. (nrts < hbstamps => lastts = nrts) /\ \A i \in 0 .. nrts - 1 : timestamps[i] \in Line
      BY <1>a, <2>2 DEF NotYetRound, Valid
    <3> QED
      BY <1>a, <1>b, <3>1, <3>2, PutContents
  <2>4. file' = Contents' \/ Spoilt
    <3>1. Image \in Seq(Line) /\ Len(Image) = nrts' /\ nrts <= nrts' /\ nrts' \in 0 .. hbstamps
      BY <2>1, <2>2, WriteKeeps DEF RingInv
    <3>2. Len(file) <= Len(Image)
      BY <1>a, <2>2, <3>1 DEF FileFits
    <3>3. Overwritten(Image) = Image
      BY <1>a, <3>1, <3>2, OverwrittenProperties
    <3>4. Image = Contents'
      <4>1. lastts' \in Index /\ nrts' \in 0 .. hbstamps
        BY <1>a, <2>1, PutType
      <4>2. NotYetRound' /\ \A i \in 0 .. nrts' - 1 : timestamps'[i] \in Line
        BY <2>1, <2>2, WriteKeeps DEF RingInv
      <4> QED
        BY <4>1, <4>2, ImageIsContents
    <3>5. CASE file' = Overwritten(Image)
      BY <3>3, <3>4, <3>5
    <3>6. CASE \E a \in PartOf(Oldest), b \in PartOf(Newest) : file' = Overwritten(a \o b)
      <4>1. PICK a \in PartOf(Oldest), b \in PartOf(Newest) : file' = Overwritten(a \o b)
        BY <3>6
      <4>2. Oldest \in Seq(Line) /\ Newest \in Seq(Line)
        BY <2>1, <2>2, WriteKeeps DEF RingInv
      <4>3. /\ file' \in Seq(Line) /\ Len(file) <= Len(file') /\ Len(file') <= Len(Image)
            /\ \A i \in 1 .. Len(file') : Salvaged(file', Image, i)
        BY <1>a, <3>2, <4>1, <4>2, DamageProperties DEF Image
      <4> QED
        BY <3>4, <4>3 DEF Spoilt
    <3> QED
      BY <1>2, <3>5, <3>6 DEF write_heartbeat
  <2>5. Spoilt => Rolling!Damaged
    BY <2>2 DEF Spoilt, Salvaged, Rolling!Damaged, Rolling!Line, Line
  <2>6. Rolling!Beat
    BY <2>2, <2>3, <2>4, <2>5 DEF Rolling!Beat
  <2> QED
    BY <2>6 DEF Rolling!Next
<1>3. CASE close_heartbeat
  <2>1. hb' = FALSE /\ file' = file
    BY <1>3 DEF close_heartbeat
  <2>2. Rolling!Stop
    BY <2>1 DEF Rolling!Stop
  <2> QED
    BY <2>2 DEF Rolling!Next
<1>4. CASE open_fails \/ UNCHANGED vars
  <2>1. UNCHANGED vars
    BY <1>4 DEF open_fails
  <2>2. UNCHANGED <<hb, file, Contents>>
    BY <2>1 DEF vars, Contents
  <2> QED
    BY <2>2
<1> QED
  BY <1>1, <1>2, <1>3, <1>4 DEF Next

(* open_heartbeat() and write_heartbeat(): however many time stamps are kept, a ring
   buffer, a rotation and a file that is written over from its beginning make a rolling
   log, across stops, restarts and writes of which any part fails: the damage they do to
   the file is bounded and the next complete write undoes it.  Given that the file that
   is found is not longer than the buffer, which it is only after hbstamps was reduced. *)
THEOREM RollingLogImplemented ==
    ASSUME OldStamps <= hbstamps
    PROVE  Spec => ImplementsRollingLog
<1>1. Init => RingInv /\ Rolling!Init
  BY RollingInit
<1>2. RingInv /\ [Next]_vars => RingInv'
  BY RingStep
<1>3. RingInv /\ [Next]_vars => [Rolling!Next]_(<<IF hb THEN Contents ELSE file, file>>)
  BY RollingStep
<1> QED
  BY <1>1, <1>2, <1>3, PTL DEF Spec, ImplementsRollingLog, Rolling!Spec
=============================================================================
