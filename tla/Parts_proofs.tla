---------------------------- MODULE Parts_proofs ----------------------------
(***************************************************************************)
(* Facts about the parts of a sequence, for the proofs about the stream of *)
(* a connection, of which the reads return one part after another.         *)
(***************************************************************************)
EXTENDS Integers, Sequences, SequenceTheorems, TLAPS

\* q is the part of b after place a.
PartOf(S, q, b, a) ==
  /\ q \in Seq(S)
  /\ a + Len(q) <= Len(b)
  /\ \A j \in 1 .. Len(q) : q[j] = b[a + j]

-----------------------------------------------------------------------------
\* The places of a concatenation.
LEMMA Joined ==
  ASSUME NEW S, NEW b \in Seq(S), NEW f \in Seq(S)
  PROVE  /\ b \o f \in Seq(S)
         /\ Len(b) \in Nat /\ Len(f) \in Nat /\ Len(b \o f) = Len(b) + Len(f)
         /\ \A i \in 1 .. Len(b) : (b \o f)[i] = b[i]
         /\ \A i \in 1 .. Len(f) : (b \o f)[Len(b) + i] = f[i]
<1>1. Len(b) \in Nat /\ Len(f) \in Nat
  OBVIOUS
<1>2. /\ b \o f \in Seq(S) /\ Len(b \o f) = Len(b) + Len(f)
      /\ \A i \in 1 .. Len(b) + Len(f) :
           (b \o f)[i] = IF i <= Len(b) THEN b[i] ELSE f[i - Len(b)]
  BY ConcatProperties, Zenon
<1> DEFINE w == b \o f
           k == Len(b)
           l == Len(f)
<1>3. k \in Nat /\ l \in Nat /\ \A i \in 1 .. k + l : w[i] = IF i <= k THEN b[i] ELSE f[i - k]
  BY <1>1, <1>2
<1> HIDE DEF w, k, l
<1>4. \A i \in 1 .. k : w[i] = b[i]
  BY <1>3
<1>5. \A i \in 1 .. l : w[k + i] = f[i]
  BY <1>3
<1> QED  BY <1>1, <1>2, <1>4, <1>5 DEF w, k, l

\* The places of a sequence with one more element.
LEMMA Appended ==
  ASSUME NEW S, NEW s \in Seq(S), NEW x \in S
  PROVE  /\ Append(s, x) \in Seq(S)
         /\ Len(s) \in Nat /\ Len(Append(s, x)) = Len(s) + 1
         /\ \A i \in 1 .. Len(s) : Append(s, x)[i] = s[i]
         /\ Append(s, x)[Len(s) + 1] = x
<1>1. Len(s) \in Nat
  OBVIOUS
<1>2. /\ Append(s, x) \in Seq(S) /\ Len(Append(s, x)) = Len(s) + 1
      /\ \A i \in 1 .. Len(s) : Append(s, x)[i] = s[i]
  BY <1>1
<1>3. Append(s, x)[Len(s) + 1] = x
  BY <1>1
<1> QED  BY <1>1, <1>2, <1>3

\* The places of a subsequence.
LEMMA SubSeqIs ==
  ASSUME NEW S, NEW q \in Seq(S), NEW i \in Int, NEW j \in Int,
         1 <= i, i <= j + 1, j <= Len(q)
  PROVE  /\ SubSeq(q, i, j) \in Seq(S)
         /\ Len(SubSeq(q, i, j)) = j - i + 1
         /\ \A k \in 1 .. j - i + 1 : SubSeq(q, i, j)[k] = q[i + k - 1]
<1>1. Len(q) \in Nat /\ i \in Int /\ j \in Int /\ \A k \in i .. j : q[k] \in S
  OBVIOUS
<1>2. /\ SubSeq(q, i, j) \in Seq(S)
      /\ Len(SubSeq(q, i, j)) = IF i <= j THEN j - i + 1 ELSE 0
      /\ \A k \in 1 .. j - i + 1 : SubSeq(q, i, j)[k] = q[i + k - 1]
  <2>1. SubSeq(q, i, j) \in Seq(S)
    BY <1>1, SubSeqProperties
  <2>2. Len(SubSeq(q, i, j)) = IF i <= j THEN j - i + 1 ELSE 0
    BY <1>1, SubSeqProperties
  <2>3. \A k \in 1 .. j - i + 1 : SubSeq(q, i, j)[k] = q[i + k - 1]
    BY <1>1, SubSeqProperties
  <2> QED  BY <2>1, <2>2, <2>3
<1>3. (IF i <= j THEN j - i + 1 ELSE 0) = j - i + 1
  BY <1>1
<1> QED  BY <1>2, <1>3, Zenon

\* The first k bytes of a part.
LEMMA FirstPart ==
  ASSUME NEW S, NEW b \in Seq(S), NEW a \in Nat, NEW q, PartOf(S, q, b, a), NEW k \in 0 .. Len(q)
  PROVE  PartOf(S, SubSeq(q, 1, k), b, a) /\ Len(SubSeq(q, 1, k)) = k
<1> DEFINE u == SubSeq(q, 1, k)
<1>1. q \in Seq(S) /\ Len(q) \in Nat /\ Len(b) \in Nat /\ a + Len(q) <= Len(b)
  BY DEF PartOf
<1>2. 1 \in Int /\ k \in Int /\ 1 <= 1 /\ 1 <= k + 1 /\ k <= Len(q) /\ k - 1 + 1 = k
  BY <1>1
<1>3. u \in Seq(S) /\ Len(u) = k - 1 + 1 /\ \A j \in 1 .. k - 1 + 1 : u[j] = q[1 + j - 1]
  BY <1>1, <1>2, SubSeqIs, ZenonT(30)
<1> HIDE DEF u
<1>4. \A j \in 1 .. k : u[j] = q[j]
  BY <1>2, <1>3
<1>5. Len(u) = k
  BY <1>2, <1>3
<1>6. a + Len(u) <= Len(b)
  BY <1>1, <1>5
<1>7. \A j \in 1 .. Len(u) : u[j] = b[a + j]
  BY <1>1, <1>4, <1>5 DEF PartOf
<1>8. PartOf(S, u, b, a)
  BY <1>3, <1>6, <1>7 DEF PartOf
<1> QED  BY <1>5, <1>8 DEF u

\* What is left of a part after its first k bytes.
LEMMA LastPart ==
  ASSUME NEW S, NEW b \in Seq(S), NEW a \in Nat, NEW q, PartOf(S, q, b, a), NEW k \in 0 .. Len(q)
  PROVE  PartOf(S, SubSeq(q, k + 1, Len(q)), b, a + k) /\ Len(SubSeq(q, k + 1, Len(q))) = Len(q) - k
<1> DEFINE l == Len(q)
           u == SubSeq(q, k + 1, l)
<1>1. q \in Seq(S) /\ l \in Nat /\ Len(b) \in Nat /\ a + l <= Len(b)
  BY DEF PartOf
<1>2. /\ k + 1 \in Int /\ l \in Int /\ 1 <= k + 1 /\ k + 1 <= l + 1 /\ l <= Len(q)
      /\ l - (k + 1) + 1 = l - k
  BY <1>1
<1>3. /\ u \in Seq(S) /\ Len(u) = l - (k + 1) + 1
      /\ \A j \in 1 .. l - (k + 1) + 1 : u[j] = q[(k + 1) + j - 1]
  BY <1>1, <1>2, SubSeqIs, Zenon
<1>4. \A j \in 1 .. l : q[j] = b[a + j]
  BY DEF PartOf
<1> HIDE DEF u, l
<1>5. Len(u) = l - k
  BY <1>2, <1>3
<1>6. ASSUME NEW j \in 1 .. l - k PROVE u[j] = b[(a + k) + j]
  <2>1. u[j] = q[(k + 1) + j - 1] /\ (k + 1) + j - 1 = k + j
    BY <1>1, <1>2, <1>3
  <2>2. k + j \in 1 .. l /\ a + (k + j) = (a + k) + j
    BY <1>1
  <2> QED  BY <1>4, <2>1, <2>2
<1>7. (a + k) + (l - k) <= Len(b)
  BY <1>1
<1>8. PartOf(S, u, b, a + k)
  BY <1>3, <1>5, <1>6, <1>7 DEF PartOf
<1> QED  BY <1>5, <1>8 DEF u, l

\* Two parts, one after the other.
LEMMA TwoParts ==
  ASSUME NEW S, NEW b \in Seq(S), NEW a \in Nat,
         NEW x, PartOf(S, x, b, a), NEW y, PartOf(S, y, b, a + Len(x))
  PROVE  PartOf(S, x \o y, b, a) /\ Len(x \o y) = Len(x) + Len(y)
<1> DEFINE u == x \o y
<1>1. x \in Seq(S) /\ y \in Seq(S)
  BY DEF PartOf
<1>2. /\ u \in Seq(S)
      /\ Len(x) \in Nat /\ Len(y) \in Nat /\ Len(u) = Len(x) + Len(y)
      /\ \A i \in 1 .. Len(x) : u[i] = x[i]
      /\ \A i \in 1 .. Len(y) : u[Len(x) + i] = y[i]
  BY <1>1, Joined
<1> HIDE DEF u
<1>3. a + Len(u) <= Len(b)
  <2>1. (a + Len(x)) + Len(y) <= Len(b)
    BY DEF PartOf
  <2> QED  BY <1>2, <2>1
<1>4. ASSUME NEW j \in 1 .. Len(u) PROVE u[j] = b[a + j]
  <2>1. CASE j <= Len(x)
    BY <1>2, <2>1 DEF PartOf
  <2>2. CASE j > Len(x)
    <3> DEFINE i == j - Len(x)
    <3>1. i \in 1 .. Len(y) /\ j = Len(x) + i /\ a + j = (a + Len(x)) + i
      BY <1>2, <2>2
    <3> HIDE DEF i
    <3>2. u[j] = y[i]
      BY <1>2, <3>1
    <3>3. y[i] = b[(a + Len(x)) + i]
      BY <3>1 DEF PartOf
    <3> QED  BY <3>1, <3>2, <3>3
  <2> QED  BY <1>2, <2>1, <2>2
<1>5. PartOf(S, u, b, a)
  BY <1>2, <1>3, <1>4 DEF PartOf
<1> QED  BY <1>2, <1>5 DEF u

=============================================================================
