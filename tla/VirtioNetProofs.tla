-------------------------- MODULE VirtioNetProofs --------------------------
(***************************************************************************)
(* Virtqueues, and the driver of the network card with its two queues of   *)
(* one-descriptor chains.  The first part is about a virtqueue by itself,  *)
(* for any number of descriptors: what its operations do to its free list  *)
(* and its rings, where the list and the part of a ring that the other     *)
(* side has yet to look at are given as sequences.  The second part is     *)
(* about the driver: no descriptor and no DMA buffer is lost or in two     *)
(* places, and packets go out once and come in in order.                   *)
(***************************************************************************)
EXTENDS VirtioNet, FiniteSetTheorems, WellFoundedInduction, TLAPS

-----------------------------------------------------------------------------
(* Walks along next.                                                       *)

\* A set of natural numbers has a least one.
LEMMA LeastExists ==
    ASSUME NEW S \in SUBSET Nat, S # {}
    PROVE  \E x \in S : \A y \in S : x <= y
<1>1. PICK x \in S : \A y \in S : ~(<<y, x>> \in OpToRel(<, Nat))
  BY NatLessThanWellFounded, WFMin
<1>2. \A y \in S : x <= y
  <2>. SUFFICES ASSUME NEW y \in S PROVE x <= y
    OBVIOUS
  <2>1. x \in Nat /\ y \in Nat
    OBVIOUS
  <2>2. ~(y < x)
    BY <1>1, <2>1, Zenon DEF OpToRel
  <2>. QED BY <2>1, <2>2
<1>. QED BY <1>1, <1>2

\* w follows next for n descriptors, from d on.
Walk(next, d, n, w) ==
    /\ w \in [1 .. n -> Descs]
    /\ n > 0 => w[1] = d
    /\ \A k \in 1 .. n : k > 1 => w[k] = next[w[k - 1]]

\* Two walks from the same descriptor agree as far as they go.
LEMMA WalksAgree ==
    ASSUME NEW next, NEW d, NEW m \in Nat, NEW n \in Nat, m =< n, NEW v, NEW w,
           Walk(next, d, m, v), Walk(next, d, n, w)
    PROVE  \A k \in 1 .. m : v[k] = w[k]
<1>. DEFINE S == {k \in 1 .. m : v[k] # w[k]}
<1>1. SUFFICES ASSUME S # {} PROVE FALSE
  OBVIOUS
<1>2. S \in SUBSET Nat
  OBVIOUS
<1>3. PICK k \in S : \A j \in S : k <= j
  BY <1>1, <1>2, LeastExists
<1>4. k > 1
  BY <1>3 DEF Walk
<1>5. k - 1 \in 1 .. m /\ k - 1 \notin S
  BY <1>3, <1>4
<1>6. v[k] = next[v[k - 1]] /\ w[k] = next[w[k - 1]]
  BY <1>3, <1>4 DEF Walk
<1>. QED BY <1>3, <1>5, <1>6

\* There is a walk of any length.
LEMMA WalkExists ==
    ASSUME NEW next \in [Descs -> Descs], NEW d \in Descs, NEW n \in Nat
    PROVE  \E w : Walk(next, d, n, w)
<1>. DEFINE S == {k \in Nat : ~\E w : Walk(next, d, k, w)}
<1>1. SUFFICES ASSUME S # {} PROVE FALSE
  OBVIOUS
<1>2. PICK k \in S : \A j \in S : k <= j
  BY <1>1, LeastExists
<1>3. k # 0
  <2>1. Walk(next, d, 0, [i \in 1 .. 0 |-> d])
    BY DEF Walk
  <2>. QED BY <1>2, <2>1
<1>4. k - 1 \in Nat /\ k - 1 \notin S
  BY <1>2, <1>3
<1>5. PICK v : Walk(next, d, k - 1, v)
  BY <1>4
<1>. DEFINE w == [i \in 1 .. k |-> IF i = 1 THEN d ELSE next[v[i - 1]]]
<1>6. \A i \in 1 .. k : i > 1 => i - 1 \in 1 .. k - 1 /\ v[i - 1] \in Descs
  BY <1>4, <1>5, <1>2 DEF Walk
<1>7. w \in [1 .. k -> Descs]
  BY <1>6
<1>8. \A i \in 1 .. k - 1 : w[i] = v[i]
  BY <1>5, <1>2, <1>4 DEF Walk
<1>9. \A i \in 1 .. k : i > 1 => w[i] = next[w[i - 1]]
  <2>. SUFFICES ASSUME NEW i \in 1 .. k, i > 1 PROVE w[i] = next[w[i - 1]]
    OBVIOUS
  <2>1. w[i] = next[v[i - 1]]
    BY <1>2
  <2>. QED BY <1>6, <1>8, <2>1
<1>10. k > 0 => w[1] = d
  BY <1>2
<1>11. Walk(next, d, k, w)
  <2>. HIDE DEF w, S
  <2>. QED BY <1>7, <1>9, <1>10 DEF Walk
<1>. QED BY <1>2, <1>11

\* Along walks.
LEMMA AlongWalks ==
    ASSUME NEW vq, NEW d, NEW n \in Nat, NEW w, Walk(vq.next, d, n, w)
    PROVE  Along(vq, d, n) = w
<1>. DEFINE Eq(g) == g = [k \in 1 .. n |-> IF k = 1 THEN d ELSE vq.next[g[k - 1]]]
            g == CHOOSE h : Eq(h)
<1>1. Eq(w)
  <2>1. w \in [1 .. n -> Descs] /\ \A k \in 1 .. n : w[k] = IF k = 1 THEN d ELSE vq.next[w[k - 1]]
    BY DEF Walk
  <2>. QED BY <2>1
<1>2. Eq(g)
  BY <1>1
<1>. HIDE DEF g
<1>3. \A k \in 1 .. n : g[k] = IF k = 1 THEN d ELSE vq.next[g[k - 1]]
  BY <1>2
<1>4. \A k \in 1 .. n : g[k] = w[k]
  <2>. DEFINE S == {k \in 1 .. n : g[k] # w[k]}
  <2>1. SUFFICES ASSUME S # {} PROVE FALSE
    OBVIOUS
  <2>2. S \in SUBSET Nat
    OBVIOUS
  <2>3. PICK k \in S : \A j \in S : k <= j
    BY <2>1, <2>2, LeastExists
  <2>4. k > 1
    BY <2>3, <1>3 DEF Walk
  <2>5. k - 1 \in 1 .. n /\ k - 1 \notin S
    BY <2>3, <2>4
  <2>6. g[k] = vq.next[g[k - 1]] /\ w[k] = vq.next[w[k - 1]]
    <3>1. k \in 1 .. n /\ k # 1
      BY <2>3, <2>4
    <3>2. g[k] = vq.next[g[k - 1]]
      BY <1>3, <3>1
    <3>3. w[k] = vq.next[w[k - 1]]
      BY <2>4, <3>1 DEF Walk
    <3>. QED BY <3>2, <3>3
  <2>. QED BY <2>3, <2>5, <2>6
<1>5. Along(vq, d, n) = [k \in 1 .. n |-> g[k]]
  BY DEF Along, g
<1>6. w = [k \in 1 .. n |-> w[k]]
  BY DEF Walk
<1>. QED BY <1>4, <1>5, <1>6

\* The first of the descriptors w without VIRTQ_DESC_F_NEXT is the n-th.
EndsAt(vq, w, n) == ~vq.more[w[n]] /\ \A j \in 1 .. n - 1 : vq.more[w[j]]

\* Chain gives the descriptors up to the first one without VIRTQ_DESC_F_NEXT.
LEMMA ChainIs ==
    ASSUME NEW vq, vq.next \in [Descs -> Descs], NEW d \in Descs, NEW n \in 1 .. NumDescs, NumDescs \in Nat,
           NEW w, Walk(vq.next, d, n, w), EndsAt(vq, w, n)
    PROVE  Chain(vq, d) = w
<1>. DEFINE P(k) == LET a == Along(vq, d, k) IN ~vq.more[a[k]] /\ \A j \in 1 .. k - 1 : vq.more[a[j]]
<1>0. Along(vq, d, n) = w
  <2>1. n \in Nat
    OBVIOUS
  <2>. QED BY <2>1, AlongWalks
<1>1. P(n)
  BY <1>0 DEF EndsAt
<1>2. ASSUME NEW k \in 1 .. NumDescs, P(k) PROVE k = n
  <2>1. PICK v : Walk(vq.next, d, k, v)
    BY WalkExists
  <2>2. Along(vq, d, k) = v
    BY <2>1, AlongWalks
  <2>3. ~vq.more[v[k]] /\ \A j \in 1 .. k - 1 : vq.more[v[j]]
    BY <1>2, <2>2
  <2>4. CASE k < n
    <3>1. v[k] = w[k]
      BY <2>1, <2>4, WalksAgree
    <3>. QED BY <2>3, <2>4, <3>1 DEF EndsAt
  <2>5. CASE n < k
    <3>1. w[n] = v[n]
      BY <2>1, <2>5, WalksAgree
    <3>. QED BY <2>3, <2>5, <3>1 DEF EndsAt
  <2>. QED BY <2>4, <2>5
<1>3. (CHOOSE k \in 1 .. NumDescs : P(k)) = n
  BY <1>1, <1>2
<1>4. Chain(vq, d) = Along(vq, d, CHOOSE k \in 1 .. NumDescs : P(k))
  BY DEF Chain
<1>. QED BY <1>0, <1>3, <1>4

-----------------------------------------------------------------------------
(* Rings.                                                                  *)

\* A remainder is the only one.
LEMMA Remainder ==
    ASSUME NEW N \in Nat \ {0}, NEW x \in Int, NEW q \in Int, NEW r \in 0 .. N - 1, x = N * q + r
    PROVE  x % N = r
<1>. DEFINE p == x \div N
            s == x % N
<1>1. s \in 0 .. N - 1 /\ p \in Int /\ x = N * p + s
  OBVIOUS
<1>. HIDE DEF p, s
<1>2. N * (p - q) = r - s
  BY <1>1
<1>3. p - q > 0 => N * (p - q) >= N
  BY <1>1
<1>4. p - q < 0 => N * (p - q) =< -N
  BY <1>1
<1>5. p - q = 0
  BY <1>1, <1>2, <1>3, <1>4
<1>6. s = r
  BY <1>1, <1>2, <1>5
<1>. QED BY <1>6 DEF s

\* Whole rounds do not matter.
LEMMA WholeRounds ==
    ASSUME NEW N \in Nat \ {0}, NEW x \in Int, NEW q \in Int
    PROVE  (x + N * q) % N = x % N /\ x % N \in 0 .. N - 1
<1>1. PICK p \in Int, r \in 0 .. N - 1 : x = N * p + r
  <2>1. x % N \in 0 .. N - 1 /\ x \div N \in Int /\ x = N * (x \div N) + (x % N)
    OBVIOUS
  <2>. QED BY <2>1
<1>2. PICK t \in Int : t = p + q
  OBVIOUS
<1>3. PICK y \in Int : y = x + N * q
  OBVIOUS
<1>4. y = N * t + r
  BY <1>1, <1>2, <1>3
<1>5. y % N = r /\ x % N = r
  BY <1>1, <1>4, Remainder
<1>. QED BY <1>3, <1>5

\* Places less than a round apart are different.
LEMMA PlacesDiffer ==
    ASSUME NEW N \in Nat \ {0}, NEW x \in Int, NEW y \in Int, x < y, y < x + N
    PROVE  x % N # y % N
<1>1. PICK p \in Int, r \in 0 .. N - 1 : x = N * p + r /\ x % N = r
  <2>1. x % N \in 0 .. N - 1 /\ x \div N \in Int /\ x = N * (x \div N) + (x % N)
    OBVIOUS
  <2>. QED BY <2>1
<1>2. PICK q \in Int, s \in 0 .. N - 1 : y = N * q + s /\ y % N = s
  <2>1. y % N \in 0 .. N - 1 /\ y \div N \in Int /\ y = N * (y \div N) + (y % N)
    OBVIOUS
  <2>. QED BY <2>1
<1>. SUFFICES ASSUME r = s PROVE FALSE
  BY <1>1, <1>2
<1>3. N * (q - p) = y - x
  BY <1>1, <1>2
<1>4. q - p > 0 => N * (q - p) >= N
  BY <1>1, <1>2
<1>5. q - p =< 0 => N * (q - p) =< 0
  BY <1>1, <1>2
<1>. QED BY <1>1, <1>2, <1>3, <1>4, <1>5

\* The values of a uint16_t index.
Indices == 0 .. IndexMod - 1

\* What is used of the constants.
LEMMA QueueSizes ==
    ASSUME VirtqAssumption
    PROVE  /\ NumDescs \in Nat \ {0} /\ IndexMod \in Nat \ {0} /\ NumDescs < IndexMod
           /\ \E q \in Int : IndexMod = NumDescs * q
<1>1. /\ NumDescs \in Nat \ {0} /\ IndexMod \in Nat \ {0} /\ NumDescs < IndexMod
      /\ IndexMod % NumDescs = 0
  BY DEF VirtqAssumption
<1>2. IndexMod \div NumDescs \in Int /\ IndexMod = NumDescs * (IndexMod \div NumDescs) + (IndexMod % NumDescs)
  BY <1>1
<1>3. IndexMod = NumDescs * (IndexMod \div NumDescs)
  BY <1>1, <1>2
<1>. QED BY <1>1, <1>2, <1>3

\* The index after i, and the place of the ring that indices from there on stand for.
LEMMA NextIndex ==
    ASSUME VirtqAssumption, NEW i \in Indices
    PROVE  /\ (i + 1) % IndexMod = IF i + 1 = IndexMod THEN 0 ELSE i + 1
           /\ (i + 1) % IndexMod \in Indices
           /\ \A k \in Int : (((i + 1) % IndexMod) + k) % NumDescs = (i + 1 + k) % NumDescs
<1>1. /\ NumDescs \in Nat \ {0} /\ IndexMod \in Nat \ {0} /\ NumDescs < IndexMod /\ i \in Int
      /\ 0 =< i /\ i < IndexMod
  BY QueueSizes DEF Indices
<1>2. PICK q \in Int : IndexMod = NumDescs * q
  BY QueueSizes
<1>3. PICK j \in Int : j = i + 1
  BY <1>1
<1>4. j % IndexMod = IF j = IndexMod THEN 0 ELSE j
  <2>1. CASE j = IndexMod
    <3>1. j = IndexMod * 1 + 0 /\ 0 \in 0 .. IndexMod - 1
      BY <1>1, <2>1
    <3>2. j % IndexMod = 0
      BY <1>1, <3>1, Remainder
    <3>. QED BY <2>1, <3>2
  <2>2. CASE j # IndexMod
    <3>1. j = IndexMod * 0 + j /\ j \in 0 .. IndexMod - 1
      BY <1>1, <1>3, <2>2
    <3>2. j % IndexMod = j
      BY <1>1, <3>1, Remainder
    <3>. QED BY <2>2, <3>2
  <2>. QED BY <2>1, <2>2
<1>5. ASSUME NEW k \in Int PROVE ((j % IndexMod) + k) % NumDescs = (j + k) % NumDescs
  <2>1. CASE j = IndexMod
    <3>1. PICK y \in Int : y = 0 + k
      OBVIOUS
    <3>2. (y + NumDescs * q) % NumDescs = y % NumDescs
      BY <1>1, <1>2, WholeRounds
    <3>3. (j % IndexMod) + k = y /\ j + k = y + NumDescs * q
      BY <1>1, <1>2, <1>4, <2>1, <3>1
    <3>. QED BY <3>2, <3>3
  <2>2. CASE j # IndexMod
    BY <1>4, <2>2
  <2>. QED BY <2>1, <2>2
<1>. QED BY <1>1, <1>3, <1>4, <1>5 DEF Indices

\* The distance between two indices.
LEMMA IndexDistance ==
    ASSUME VirtqAssumption, NEW i \in Indices, NEW j \in Indices
    PROVE  /\ (j - i) % IndexMod = IF i =< j THEN j - i ELSE j - i + IndexMod
           /\ (j - i) % IndexMod \in Indices
           /\ j % NumDescs = (i + ((j - i) % IndexMod)) % NumDescs
<1>1. /\ NumDescs \in Nat \ {0} /\ IndexMod \in Nat \ {0} /\ NumDescs < IndexMod /\ i \in Int
      /\ 0 =< i /\ i < IndexMod /\ j \in Int /\ 0 =< j /\ j < IndexMod
  BY QueueSizes DEF Indices
<1>2. PICK q \in Int : IndexMod = NumDescs * q
  BY QueueSizes
<1>3. PICK x \in Int : x = j - i
  BY <1>1
<1>4. CASE i =< j
  <2>1. x = IndexMod * 0 + x /\ x \in 0 .. IndexMod - 1
    BY <1>1, <1>3, <1>4
  <2>2. x % IndexMod = x
    BY <1>1, <2>1, Remainder
  <2>. QED BY <1>1, <1>3, <1>4, <2>1, <2>2 DEF Indices
<1>5. CASE j < i
  <2>1. PICK r \in 0 .. IndexMod - 1 : r = x + IndexMod
    BY <1>1, <1>3, <1>5
  <2>2. x = IndexMod * (-1) + r
    BY <1>1, <2>1
  <2>3. x % IndexMod = r
    BY <1>1, <2>2, Remainder
  <2>4. (j + NumDescs * q) % NumDescs = j % NumDescs
    BY <1>1, WholeRounds
  <2>5. i + r = j + NumDescs * q
    BY <1>1, <1>2, <1>3, <2>1
  <2>. QED BY <1>1, <1>3, <1>5, <2>1, <2>3, <2>4, <2>5 DEF Indices
<1>. QED BY <1>1, <1>4, <1>5

\* s is what a ring holds between the index from and the index to.
RingIs(ring, from, to, s) ==
    /\ ring \in [Descs -> Descs] /\ from \in Indices /\ to \in Indices
    /\ s \in Seq(Descs) /\ Len(s) = (to - from) % IndexMod
    /\ \A k \in 1 .. Len(s) : s[k] = ring[(from + (k - 1)) % NumDescs]

\* A place is one of the ring.
LEMMA PlaceInRing ==
    ASSUME VirtqAssumption, NEW x \in Int
    PROVE  x % NumDescs \in Descs
  BY QueueSizes, WholeRounds DEF Descs

\* A ring is empty when the indices are the same.
LEMMA RingEmpty ==
    ASSUME VirtqAssumption, NEW ring, NEW from, NEW to, NEW s, RingIs(ring, from, to, s)
    PROVE  s = <<>> <=> from = to
<1>1. s \in Seq(Descs) /\ Len(s) = IF from =< to THEN to - from ELSE to - from + IndexMod
  BY IndexDistance DEF RingIs
<1>2. from \in Int /\ to \in Int /\ IndexMod \in Int /\ 0 =< from /\ from < IndexMod /\ 0 =< to /\ to < IndexMod
  BY QueueSizes DEF RingIs, Indices
<1>3. Len(s) = 0 <=> from = to
  BY <1>1, <1>2
<1>4. s = <<>> <=> Len(s) = 0
  BY <1>1
<1>. QED BY <1>3, <1>4

\* What the other side has not looked at.
LEMMA RingFresh ==
    ASSUME VirtqAssumption, NEW ring, NEW from, NEW to, NEW s, RingIs(ring, from, to, s)
    PROVE  Fresh(ring, from, to) = {s[k] : k \in 1 .. Len(s)}
<1>. DEFINE n == (to - from) % IndexMod
<1>1. n \in Nat /\ n = Len(s)
  BY IndexDistance, QueueSizes DEF RingIs, Indices
<1>2. Fresh(ring, from, to) = {ring[(from + k) % NumDescs] : k \in 0 .. n - 1}
  BY DEF Fresh
<1>. HIDE DEF n
<1>3. ASSUME NEW k \in 0 .. n - 1 PROVE k + 1 \in 1 .. Len(s) /\ ring[(from + k) % NumDescs] = s[k + 1]
  <2>1. PICK j \in 1 .. Len(s) : j = k + 1
    BY <1>1
  <2>2. s[j] = ring[(from + (j - 1)) % NumDescs]
    BY DEF RingIs
  <2>3. j - 1 = k
    BY <2>1
  <2>. QED BY <2>1, <2>2, <2>3
<1>4. ASSUME NEW k \in 1 .. Len(s) PROVE k - 1 \in 0 .. n - 1 /\ ring[(from + (k - 1)) % NumDescs] = s[k]
  BY <1>1 DEF RingIs
<1>. QED BY <1>2, <1>3, <1>4

\* An entry is written at the end of a ring that is not full.
LEMMA RingAppend ==
    ASSUME VirtqAssumption, NEW ring, NEW from, NEW to, NEW s, RingIs(ring, from, to, s),
           Len(s) < NumDescs, NEW d \in Descs
    PROVE  RingIs([ring EXCEPT ![to % NumDescs] = d], from, (to + 1) % IndexMod, Append(s, d))
<1>. DEFINE r == [ring EXCEPT ![to % NumDescs] = d]
            e == (to + 1) % IndexMod
<1>1. /\ from \in Int /\ to \in Int /\ IndexMod \in Nat /\ 0 =< from /\ from < IndexMod /\ 0 =< to /\ to < IndexMod
      /\ NumDescs \in Nat \ {0} /\ NumDescs < IndexMod
      /\ from \in Indices /\ to \in Indices /\ s \in Seq(Descs) /\ Len(s) \in Nat
      /\ ring \in [Descs -> Descs]
  BY QueueSizes DEF RingIs, Indices
<1>2. /\ Len(s) = IF from =< to THEN to - from ELSE to - from + IndexMod
      /\ to % NumDescs = (from + Len(s)) % NumDescs
  BY IndexDistance DEF RingIs
<1>3. e = (IF to + 1 = IndexMod THEN 0 ELSE to + 1) /\ e \in Indices
  BY NextIndex, <1>1
<1>4. (e - from) % IndexMod = Len(s) + 1
  <2>1. (e - from) % IndexMod = IF from =< e THEN e - from ELSE e - from + IndexMod
    BY <1>1, <1>3, IndexDistance
  <2>. HIDE DEF e
  <2>. QED BY <1>1, <1>2, <1>3, <2>1
<1>5. r \in [Descs -> Descs] /\ r[to % NumDescs] = d
  BY <1>1, PlaceInRing
<1>6. ASSUME NEW k \in 1 .. Len(s) PROVE r[(from + (k - 1)) % NumDescs] = s[k]
  <2>1. PICK x \in Int, y \in Int : x = from + (k - 1) /\ y = from + Len(s)
    BY <1>1
  <2>2. x < y /\ y < x + NumDescs
    BY <1>1, <2>1
  <2>3. x % NumDescs # y % NumDescs
    BY <1>1, <2>2, PlacesDiffer
  <2>4. r[x % NumDescs] = ring[x % NumDescs]
    BY <1>1, <1>2, <2>1, <2>3, PlaceInRing
  <2>. QED BY <2>1, <2>4 DEF RingIs
<1>7. /\ Append(s, d) \in Seq(Descs) /\ Len(Append(s, d)) = Len(s) + 1
      /\ \A k \in 1 .. Len(s) : Append(s, d)[k] = s[k]
      /\ Append(s, d)[Len(s) + 1] = d
  BY <1>1
<1>8. ASSUME NEW k \in 1 .. Len(s) + 1 PROVE Append(s, d)[k] = r[(from + (k - 1)) % NumDescs]
  <2>1. CASE k = Len(s) + 1
    <3>1. k - 1 = Len(s)
      BY <1>1, <2>1
    <3>. QED BY <1>2, <1>5, <1>7, <2>1, <3>1
  <2>2. CASE k # Len(s) + 1
    <3>1. k \in 1 .. Len(s)
      BY <1>1, <2>2
    <3>. QED BY <1>6, <1>7, <3>1
  <2>. QED BY <2>1, <2>2
<1>. HIDE DEF r, e
<1>9. RingIs(r, from, e, Append(s, d))
  BY <1>1, <1>3, <1>4, <1>5, <1>7, <1>8 DEF RingIs
<1>. QED BY <1>9 DEF r, e

\* The other side takes the first entry.
LEMMA RingTail ==
    ASSUME VirtqAssumption, NEW ring, NEW from, NEW to, NEW s, RingIs(ring, from, to, s), from # to
    PROVE  /\ ring[from % NumDescs] = s[1] /\ s # <<>> /\ s[1] \in Descs
           /\ RingIs(ring, (from + 1) % IndexMod, to, Tail(s))
<1>. DEFINE b == (from + 1) % IndexMod
<1>1. /\ from \in Int /\ to \in Int /\ IndexMod \in Nat /\ 0 =< from /\ from < IndexMod /\ 0 =< to /\ to < IndexMod
      /\ NumDescs \in Nat \ {0} /\ NumDescs < IndexMod
      /\ from \in Indices /\ to \in Indices /\ s \in Seq(Descs) /\ Len(s) \in Nat
      /\ ring \in [Descs -> Descs]
  BY QueueSizes DEF RingIs, Indices
<1>2. Len(s) = IF from =< to THEN to - from ELSE to - from + IndexMod
  BY IndexDistance DEF RingIs
<1>3. s # <<>> /\ Len(s) > 0 /\ s[1] \in Descs
  BY <1>1, <1>2
<1>4. ring[from % NumDescs] = s[1]
  <2>1. s[1] = ring[(from + (1 - 1)) % NumDescs]
    BY <1>3, <1>1 DEF RingIs
  <2>2. from + (1 - 1) = from
    BY <1>1
  <2>. QED BY <2>1, <2>2
<1>5. b = (IF from + 1 = IndexMod THEN 0 ELSE from + 1) /\ b \in Indices
  BY NextIndex, <1>1
<1>6. (to - b) % IndexMod = Len(s) - 1
  <2>1. (to - b) % IndexMod = IF b =< to THEN to - b ELSE to - b + IndexMod
    BY <1>1, <1>5, IndexDistance
  <2>. HIDE DEF b
  <2>. QED BY <1>1, <1>2, <1>5, <2>1
<1>7. /\ Tail(s) \in Seq(Descs) /\ Len(Tail(s)) = Len(s) - 1
      /\ \A k \in 1 .. Len(s) - 1 : Tail(s)[k] = s[k + 1]
  BY <1>1, <1>3
<1>8. ASSUME NEW k \in 1 .. Len(s) - 1 PROVE Tail(s)[k] = ring[(b + (k - 1)) % NumDescs]
  <2>1. (b + (k - 1)) % NumDescs = (from + 1 + (k - 1)) % NumDescs
    <3>1. PICK i \in Int : i = k - 1
      OBVIOUS
    <3>2. (b + i) % NumDescs = (from + 1 + i) % NumDescs
      BY <1>1, NextIndex
    <3>. QED BY <3>1, <3>2
  <2>2. PICK j \in 1 .. Len(s) : j = k + 1
    BY <1>1
  <2>3. s[j] = ring[(from + (j - 1)) % NumDescs]
    BY DEF RingIs
  <2>4. from + (j - 1) = from + 1 + (k - 1)
    BY <1>1, <2>2
  <2>. QED BY <1>7, <2>1, <2>2, <2>3, <2>4
<1>. HIDE DEF b
<1>9. RingIs(ring, b, to, Tail(s))
  BY <1>1, <1>5, <1>6, <1>7, <1>8 DEF RingIs
<1>. QED BY <1>3, <1>4, <1>9 DEF b

-----------------------------------------------------------------------------
(* The free list, and the driver's operations.                             *)

\* Queues whose descriptors have addresses in A.
Queues(A) ==
    [next : [Descs -> Descs], more : [Descs -> BOOLEAN], addr : [Descs -> A],
     free_head : Descs, num_free : Nat,
     avail : [Descs -> Descs], avail_index : Indices,
     used : [Descs -> Descs], used_index : Indices, last_used : Indices,
     seen : Indices, busy : SUBSET Descs]

\* No two entries are the same.
Distinct(s) == \A j, k \in 1 .. Len(s) : s[j] = s[k] => j = k

\* The members of a sequence.
Members(s) == {s[k] : k \in 1 .. Len(s)}

\* f is the free list.
FreeIs(vq, f) ==
    /\ f \in Seq(Descs) /\ Len(f) = vq.num_free /\ Distinct(f)
    /\ Len(f) > 0 => f[1] = vq.free_head
    /\ \A k \in 1 .. Len(f) - 1 : f[k + 1] = vq.next[f[k]]

\* The first descriptors of the free list are a walk.
LEMMA FreeWalk ==
    ASSUME NEW vq, NEW f, FreeIs(vq, f), NEW n \in Nat, n =< Len(f)
    PROVE  /\ Walk(vq.next, vq.free_head, n, [k \in 1 .. n |-> f[k]])
           /\ Along(vq, vq.free_head, n) = [k \in 1 .. n |-> f[k]]
<1>. DEFINE w == [k \in 1 .. n |-> f[k]]
<1>1. f \in Seq(Descs) /\ Len(f) \in Nat
  BY DEF FreeIs
<1>2. w \in [1 .. n -> Descs]
  BY <1>1
<1>3. n > 0 => w[1] = vq.free_head
  BY <1>1 DEF FreeIs
<1>4. ASSUME NEW k \in 1 .. n, k > 1 PROVE w[k] = vq.next[w[k - 1]]
  <2>1. PICK j \in 1 .. Len(f) - 1 : j = k - 1 /\ j + 1 = k
    BY <1>1, <1>4
  <2>2. f[j + 1] = vq.next[f[j]]
    BY DEF FreeIs
  <2>. QED BY <1>4, <2>1, <2>2
<1>5. Walk(vq.next, vq.free_head, n, w)
  <2>. HIDE DEF w
  <2>. QED BY <1>2, <1>3, <1>4 DEF Walk
<1>. QED BY <1>5, AlongWalks

\* The queue q is vq after descriptors of the free list f got the addresses.
Pushed(A, vq, f, addrs, q) ==
    LET n == Len(addrs)
    IN  /\ q \in Queues(A) /\ FreeIs(q, SubSeq(f, n + 1, Len(f)))
        /\ \A k \in 1 .. n : q.addr[f[k]] = addrs[k] /\ (q.more[f[k]] <=> k < n)
        /\ \A d \in Descs : (\A k \in 1 .. n : f[k] # d) =>
             q.addr[d] = vq.addr[d] /\ (q.more[d] <=> vq.more[d])
        /\ q.next = [vq.next EXCEPT ![f[n]] = 0]
        /\ q.avail = [vq.avail EXCEPT ![vq.avail_index % NumDescs] = f[1]]
        /\ q.avail_index = (vq.avail_index + 1) % IndexMod
        /\ q.used = vq.used /\ q.used_index = vq.used_index
        /\ q.last_used = vq.last_used /\ q.seen = vq.seen /\ q.busy = vq.busy

\* virtq_push takes the first descriptors of the free list.
LEMMA PushIs ==
    ASSUME VirtqAssumption, NEW A, NEW vq \in Queues(A), NEW f, FreeIs(vq, f),
           NEW addrs \in Seq(A), Len(addrs) > 0, Len(addrs) =< Len(f)
    PROVE  /\ virtq_push(vq, addrs).ok = TRUE /\ virtq_push(vq, addrs).head = f[1]
           /\ Pushed(A, vq, f, addrs, virtq_push(vq, addrs).vq)
<1>. DEFINE n == Len(addrs)
            ds == [k \in 1 .. n |-> f[k]]
            at(d) == CHOOSE k \in 1 .. n : ds[k] = d
            t == Taken(vq, addrs)
            q == Published(t, vq.free_head)
            g == SubSeq(f, n + 1, Len(f))
<1>0. /\ n \in Nat /\ n > 0 /\ f \in Seq(Descs) /\ Len(f) \in Nat /\ vq.num_free = Len(f) /\ n =< Len(f)
      /\ NumDescs \in Nat \ {0} /\ 0 \in Descs /\ Distinct(f) /\ f[1] = vq.free_head
      /\ \A k \in 1 .. n : addrs[k] \in A /\ k \in 1 .. Len(f) /\ f[k] \in Descs
  <2>1. n \in Nat /\ n > 0 /\ n =< Len(f) /\ \A k \in 1 .. n : addrs[k] \in A
    OBVIOUS
  <2>2. f \in Seq(Descs) /\ vq.num_free = Len(f) /\ Distinct(f) /\ (Len(f) > 0 => f[1] = vq.free_head)
    BY DEF FreeIs
  <2>3. Len(f) \in Nat /\ \A k \in 1 .. Len(f) : f[k] \in Descs
    BY <2>2
  <2>4. NumDescs \in Nat \ {0} /\ 0 \in Descs
    BY QueueSizes DEF Descs
  <2>. HIDE DEF n
  <2>. QED BY <2>1, <2>2, <2>3, <2>4
<1>1. /\ vq.next \in [Descs -> Descs] /\ vq.more \in [Descs -> BOOLEAN] /\ vq.addr \in [Descs -> A]
      /\ vq.free_head \in Descs /\ vq.avail \in [Descs -> Descs] /\ vq.avail_index \in Indices
      /\ vq.used \in [Descs -> Descs] /\ vq.used_index \in Indices /\ vq.last_used \in Indices
      /\ vq.seen \in Indices /\ vq.busy \in SUBSET Descs
  BY DEF Queues
<1>2. Along(vq, vq.free_head, n) = ds
  BY <1>0, FreeWalk
<1>3. virtq_push(vq, addrs) = [vq |-> q, ok |-> TRUE, head |-> vq.free_head]
  <2>1. ~(n > vq.num_free)
    BY <1>0
  <2>. QED BY <2>1 DEF virtq_push
<1>4. \A k \in 1 .. n : at(f[k]) = k /\ ds[k] = f[k]
  BY <1>0 DEF Distinct
<1>5. ds[n] = f[n] /\ f[n] \in Descs /\ n \in 1 .. n
  BY <1>0
<1>. DEFINE na == [d \in Descs |-> IF \E k \in 1 .. n : ds[k] = d THEN addrs[at(d)] ELSE vq.addr[d]]
            nm == [d \in Descs |-> IF \E k \in 1 .. n : ds[k] = d THEN at(d) < n ELSE vq.more[d]]
<1>6. t = [vq EXCEPT !.addr = na, !.more = nm, !.free_head = vq.next[f[n]], !.next[f[n]] = 0, !.num_free = @ - n]
  BY <1>2, <1>5 DEF Taken
<1>. HIDE DEF ds, at
<1>7. /\ \A k \in 1 .. n : na[f[k]] = addrs[k] /\ (nm[f[k]] <=> k < n)
      /\ \A d \in Descs : (\A k \in 1 .. n : f[k] # d) => na[d] = vq.addr[d] /\ (nm[d] <=> vq.more[d])
  BY <1>0, <1>4
<1>8. na \in [Descs -> A] /\ nm \in [Descs -> BOOLEAN]
  <2>1. ASSUME NEW d \in Descs PROVE (IF \E k \in 1 .. n : ds[k] = d THEN addrs[at(d)] ELSE vq.addr[d]) \in A
    BY <1>0, <1>1, <1>4
  <2>2. ASSUME NEW d \in Descs PROVE (IF \E k \in 1 .. n : ds[k] = d THEN at(d) < n ELSE vq.more[d]) \in BOOLEAN
    <3>1. CASE \E k \in 1 .. n : ds[k] = d
      <4>1. PICK k \in 1 .. n : at(d) = k
        BY <1>4, <3>1
      <4>2. (at(d) < n) \in BOOLEAN
        BY <1>0, <4>1
      <4>. QED BY <3>1, <4>2, Zenon
    <3>2. CASE ~\E k \in 1 .. n : ds[k] = d
      BY <1>1, <3>2
    <3>. QED BY <3>1, <3>2
  <2>. QED BY <2>1, <2>2
<1>. HIDE DEF na, nm, t
<1>9. vq.num_free - n \in Nat /\ vq.next[f[n]] \in Descs
  BY <1>0, <1>1, <1>5
<1>. HIDE DEF n
<1>10. /\ t \in Queues(A) /\ t.addr = na /\ t.more = nm /\ t.free_head = vq.next[f[n]]
       /\ t.next = [vq.next EXCEPT ![f[n]] = 0] /\ t.num_free = vq.num_free - n
       /\ t.avail = vq.avail /\ t.avail_index = vq.avail_index
       /\ t.used = vq.used /\ t.used_index = vq.used_index /\ t.last_used = vq.last_used
       /\ t.seen = vq.seen /\ t.busy = vq.busy
  BY <1>0, <1>5, <1>6, <1>8, <1>9 DEF Queues
<1>11. /\ q \in Queues(A) /\ q.addr = na /\ q.more = nm /\ q.free_head = vq.next[f[n]]
       /\ q.next = [vq.next EXCEPT ![f[n]] = 0] /\ q.num_free = vq.num_free - n
       /\ q.avail = [vq.avail EXCEPT ![vq.avail_index % NumDescs] = f[1]]
       /\ q.avail_index = (vq.avail_index + 1) % IndexMod
       /\ q.used = vq.used /\ q.used_index = vq.used_index /\ q.last_used = vq.last_used
       /\ q.seen = vq.seen /\ q.busy = vq.busy
  <2>1. q = [t EXCEPT !.avail[vq.avail_index % NumDescs] = f[1], !.avail_index = (vq.avail_index + 1) % IndexMod]
    BY <1>0, <1>10 DEF Published
  <2>2. (vq.avail_index + 1) % IndexMod \in Indices
    BY <1>1, NextIndex
  <2>. HIDE DEF q
  <2>3. q \in Queues(A)
    BY <1>0, <1>1, <1>10, <2>1, <2>2 DEF Queues
  <2>4. /\ q.addr = t.addr /\ q.more = t.more /\ q.free_head = t.free_head /\ q.next = t.next
        /\ q.num_free = t.num_free /\ q.avail = [t.avail EXCEPT ![vq.avail_index % NumDescs] = f[1]]
        /\ q.avail_index = (vq.avail_index + 1) % IndexMod
        /\ q.used = t.used /\ q.used_index = t.used_index /\ q.last_used = t.last_used
        /\ q.seen = t.seen /\ q.busy = t.busy
    BY <1>10, <2>1 DEF Queues
  <2>. QED BY <1>10, <2>3, <2>4
<1>. HIDE DEF q
<1>12. /\ g \in Seq(Descs) /\ Len(g) = Len(f) - n /\ \A k \in 1 .. Len(f) - n : g[k] = f[n + k] /\ n + k \in 1 .. Len(f)
  BY <1>0
<1>. HIDE DEF g
<1>13. FreeIs(q, g)
  <2>1. Len(g) = q.num_free
    BY <1>0, <1>11, <1>12
  <2>2. Distinct(g)
    <3>. SUFFICES ASSUME NEW j \in 1 .. Len(g), NEW k \in 1 .. Len(g), g[j] = g[k] PROVE j = k
      BY DEF Distinct
    <3>1. n + j \in 1 .. Len(f) /\ n + k \in 1 .. Len(f) /\ f[n + j] = f[n + k]
      BY <1>12
    <3>2. n + j = n + k
      BY <1>0, <3>1 DEF Distinct
    <3>. QED BY <1>0, <3>2
  <2>3. ASSUME Len(g) > 0 PROVE g[1] = q.free_head
    <3>1. 1 \in 1 .. Len(f) - n /\ n \in 1 .. Len(f) - 1
      BY <1>0, <1>12, <2>3
    <3>3. g[1] = f[n + 1]
      BY <1>12, <3>1
    <3>2. f[n + 1] = vq.next[f[n]]
      BY <3>1 DEF FreeIs
    <3>. QED BY <1>11, <3>2, <3>3
  <2>4. ASSUME NEW k \in 1 .. Len(g) - 1 PROVE g[k + 1] = q.next[g[k]]
    <3>1. k \in 1 .. Len(f) - n /\ k + 1 \in 1 .. Len(f) - n
      BY <1>0, <1>12
    <3>2. PICK j \in 1 .. Len(f) - 1 : j = n + k /\ j + 1 = n + (k + 1) /\ j # n /\ j \in 1 .. Len(f)
      BY <1>0, <1>12
    <3>3. g[k] = f[j] /\ g[k + 1] = f[j + 1]
      BY <1>12, <3>1, <3>2
    <3>4. f[j] # f[n] /\ f[j] \in Descs
      BY <1>0, <3>2 DEF Distinct
    <3>5. f[j + 1] = vq.next[f[j]]
      BY DEF FreeIs
    <3>6. q.next[f[j]] = vq.next[f[j]]
      BY <1>1, <1>11, <3>4
    <3>. QED BY <3>3, <3>5, <3>6
  <2>. QED BY <1>12, <2>1, <2>2, <2>3, <2>4 DEF FreeIs
<1>14. /\ virtq_push(vq, addrs).vq = q /\ virtq_push(vq, addrs).ok = TRUE
       /\ virtq_push(vq, addrs).head = f[1]
  BY <1>0, <1>3
<1>. QED BY <1>7, <1>11, <1>13, <1>14 DEF g, n, Pushed

\* ds is the chain at the front of the used ring, none of it free.
UsedChain(vq, f, ds) ==
    /\ ds \in Seq(Descs) /\ Len(ds) \in 1 .. NumDescs /\ Distinct(ds)
    /\ \A j \in 1 .. Len(ds), k \in 1 .. Len(f) : ds[j] # f[k]
    /\ ds[1] = vq.used[vq.last_used % NumDescs]
    /\ \A k \in 1 .. Len(ds) - 1 : ds[k + 1] = vq.next[ds[k]]
    /\ EndsAt(vq, ds, Len(ds))

\* The queue q is vq after the chain ds went to the free list f.
Popped(A, vq, f, ds, q) ==
    /\ q \in Queues(A) /\ FreeIs(q, ds \o f)
    /\ q.next = [vq.next EXCEPT ![ds[Len(ds)]] = vq.free_head]
    /\ q.last_used = (vq.last_used + 1) % IndexMod
    /\ q.addr = vq.addr /\ q.more = vq.more
    /\ q.avail = vq.avail /\ q.avail_index = vq.avail_index
    /\ q.used = vq.used /\ q.used_index = vq.used_index
    /\ q.seen = vq.seen /\ q.busy = vq.busy

\* virtq_pop puts the chain before the free list.
LEMMA PopIs ==
    ASSUME VirtqAssumption, NEW A, NEW vq \in Queues(A), NEW f, FreeIs(vq, f), NEW ds, UsedChain(vq, f, ds)
    PROVE  /\ virtq_pop(vq).descs = ds
           /\ virtq_pop(vq).addrs = [k \in 1 .. Len(ds) |-> vq.addr[ds[k]]]
           /\ Popped(A, vq, f, ds, virtq_pop(vq).vq)
<1>. DEFINE n == Len(ds)
<1>00. /\ n \in 1 .. NumDescs /\ ds \in Seq(Descs) /\ Len(ds) = n /\ Distinct(ds)
       /\ \A j \in 1 .. n, k \in 1 .. Len(f) : ds[j] # f[k]
       /\ ds[1] = vq.used[vq.last_used % NumDescs]
       /\ \A k \in 1 .. n - 1 : ds[k + 1] = vq.next[ds[k]]
       /\ EndsAt(vq, ds, n)
  BY DEF UsedChain
<1>. HIDE DEF n
<1>0. /\ n \in Nat /\ n > 0 /\ f \in Seq(Descs) /\ Len(f) \in Nat /\ vq.num_free = Len(f) /\ Distinct(f)
      /\ NumDescs \in Nat \ {0} /\ (Len(f) > 0 => f[1] = vq.free_head)
      /\ \A k \in 1 .. n : ds[k] \in Descs
  <2>1. f \in Seq(Descs) /\ vq.num_free = Len(f) /\ Distinct(f) /\ (Len(f) > 0 => f[1] = vq.free_head)
    BY DEF FreeIs
  <2>2. NumDescs \in Nat \ {0}
    BY QueueSizes
  <2>. QED BY <1>00, <2>1, <2>2
<1>1. /\ vq.next \in [Descs -> Descs] /\ vq.free_head \in Descs /\ vq.last_used \in Indices
      /\ vq.num_free \in Nat
  BY DEF Queues
<1>2. Chain(vq, ds[1]) = ds
  <2>1. ds \in [1 .. n -> Descs] /\ ds[1] \in Descs /\ n \in 1 .. n
    BY <1>00, <1>0
  <2>2. ASSUME NEW k \in 1 .. n, k > 1 PROVE ds[k] = vq.next[ds[k - 1]]
    <3>1. PICK j \in 1 .. n - 1 : j = k - 1 /\ j + 1 = k
      BY <1>00, <1>0, <2>2
    <3>2. ds[j + 1] = vq.next[ds[j]]
      BY <1>00
    <3>. QED BY <3>1, <3>2
  <2>3. Walk(vq.next, ds[1], n, ds)
    BY <2>1, <2>2 DEF Walk
  <2>. QED BY <1>00, <1>0, <1>1, <2>1, <2>3, ChainIs
<1>. DEFINE q == Returned(vq, ds)
<1>3. /\ virtq_pop(vq) = [vq |-> q, descs |-> ds, addrs |-> [k \in 1 .. n |-> vq.addr[ds[k]]]]
  BY <1>00, <1>2 DEF virtq_pop
<1>4. /\ q \in Queues(A)
      /\ q.next = [vq.next EXCEPT ![ds[n]] = vq.free_head] /\ q.free_head = ds[1]
      /\ q.num_free = vq.num_free + n /\ q.last_used = (vq.last_used + 1) % IndexMod
      /\ q.addr = vq.addr /\ q.more = vq.more
      /\ q.avail = vq.avail /\ q.avail_index = vq.avail_index
      /\ q.used = vq.used /\ q.used_index = vq.used_index
      /\ q.seen = vq.seen /\ q.busy = vq.busy
  <2>1. q = [vq EXCEPT !.next[ds[n]] = vq.free_head, !.free_head = ds[1],
                       !.num_free = @ + n, !.last_used = (vq.last_used + 1) % IndexMod]
    BY <1>00 DEF Returned
  <2>2. (vq.last_used + 1) % IndexMod \in Indices /\ vq.num_free + n \in Nat /\ ds[1] \in Descs /\ ds[n] \in Descs
    BY <1>00, <1>0, <1>1, NextIndex
  <2>. HIDE DEF q
  <2>3. q \in Queues(A)
    BY <1>1, <2>1, <2>2 DEF Queues
  <2>4. /\ q.next = [vq.next EXCEPT ![ds[n]] = vq.free_head] /\ q.free_head = ds[1]
        /\ q.num_free = vq.num_free + n /\ q.last_used = (vq.last_used + 1) % IndexMod
        /\ q.addr = vq.addr /\ q.more = vq.more
        /\ q.avail = vq.avail /\ q.avail_index = vq.avail_index
        /\ q.used = vq.used /\ q.used_index = vq.used_index
        /\ q.seen = vq.seen /\ q.busy = vq.busy
    BY <2>1 DEF Queues
  <2>. QED BY <2>3, <2>4
<1>. HIDE DEF q
<1>. DEFINE g == ds \o f
<1>5. /\ g \in Seq(Descs) /\ Len(g) = n + Len(f)
      /\ \A k \in 1 .. n + Len(f) : g[k] = IF k =< n THEN ds[k] ELSE f[k - n]
  <2>0. ds \in Seq(Descs) /\ f \in Seq(Descs) /\ Len(ds) \in Nat /\ Len(f) \in Nat
    BY <1>00, <1>0
  <2>1. g \in Seq(Descs) /\ Len(g) = Len(ds) + Len(f)
    BY <2>0
  <2>2. ASSUME NEW k \in 1 .. Len(ds) + Len(f) PROVE g[k] = IF k =< Len(ds) THEN ds[k] ELSE f[k - Len(ds)]
    BY <2>0
  <2>. QED BY <1>00, <2>1, <2>2
<1>. HIDE DEF g
<1>6. FreeIs(q, g)
  <2>1. Len(g) = q.num_free
    BY <1>00, <1>0, <1>4, <1>5
  <2>2. Distinct(g)
    <3>. SUFFICES ASSUME NEW j \in 1 .. n + Len(f), NEW k \in 1 .. n + Len(f), g[j] = g[k] PROVE j = k
      BY <1>5 DEF Distinct
    <3>1. CASE j =< n /\ k =< n
      BY <1>00, <1>0, <1>5, <3>1 DEF Distinct
    <3>2. CASE j > n /\ k > n
      <4>1. j - n \in 1 .. Len(f) /\ k - n \in 1 .. Len(f) /\ f[j - n] = f[k - n]
        BY <1>00, <1>0, <1>5, <3>2
      <4>2. j - n = k - n
        BY <1>00, <1>0, <4>1 DEF Distinct
      <4>. QED BY <1>00, <1>0, <4>2
    <3>3. CASE j =< n /\ k > n
      <4>1. j \in 1 .. n /\ k - n \in 1 .. Len(f) /\ ds[j] = f[k - n]
        BY <1>00, <1>0, <1>5, <3>3
      <4>. QED BY <1>00, <4>1
    <3>4. CASE j > n /\ k =< n
      <4>1. k \in 1 .. n /\ j - n \in 1 .. Len(f) /\ ds[k] = f[j - n]
        BY <1>00, <1>0, <1>5, <3>4
      <4>. QED BY <1>00, <4>1
    <3>. QED BY <1>00, <1>0, <3>1, <3>2, <3>3, <3>4
  <2>3. g[1] = q.free_head
    BY <1>00, <1>0, <1>4, <1>5
  <2>4. ASSUME NEW k \in 1 .. Len(g) - 1 PROVE g[k + 1] = q.next[g[k]]
    <3>0. k \in 1 .. n + Len(f) /\ k + 1 \in 1 .. n + Len(f) /\ k \in Nat
      BY <1>00, <1>0, <1>5
    <3>1. CASE k < n
      <4>1. g[k] = ds[k] /\ g[k + 1] = ds[k + 1] /\ k \in 1 .. n - 1 /\ k \in 1 .. n /\ n \in 1 .. n /\ k # n
        BY <1>00, <1>0, <1>5, <3>0, <3>1
      <4>2. ds[k] # ds[n] /\ ds[k] \in Descs
        BY <1>00, <1>0, <4>1 DEF Distinct
      <4>3. q.next[ds[k]] = vq.next[ds[k]]
        BY <1>1, <1>4, <4>2
      <4>. QED BY <1>00, <4>1, <4>3
    <3>2. CASE k = n
      <4>1. g[k] = ds[n] /\ g[k + 1] = f[1] /\ Len(f) > 0
        <5>1. g[k + 1] = f[(k + 1) - n] /\ (k + 1) - n = 1
          BY <1>00, <1>0, <1>5, <3>0, <3>2
        <5>. QED BY <1>00, <1>0, <1>5, <3>0, <3>2, <5>1
      <4>2. q.next[ds[n]] = vq.free_head
        BY <1>00, <1>0, <1>1, <1>4
      <4>. QED BY <1>00, <1>0, <4>1, <4>2
    <3>3. CASE k > n
      <4>1. PICK j \in 1 .. Len(f) - 1 : j = k - n /\ j + 1 = (k + 1) - n /\ j \in 1 .. Len(f)
        BY <1>00, <1>0, <1>5, <3>0, <3>3
      <4>2. g[k] = f[j] /\ g[k + 1] = f[j + 1]
        BY <1>00, <1>0, <1>5, <3>0, <3>3, <4>1
      <4>3. f[j] # ds[n] /\ f[j] \in Descs /\ f[j + 1] = vq.next[f[j]]
        BY <1>00, <1>0, <4>1 DEF FreeIs
      <4>4. q.next[f[j]] = vq.next[f[j]]
        BY <1>1, <1>4, <4>3
      <4>. QED BY <4>2, <4>3, <4>4
    <3>. QED BY <1>00, <1>0, <3>0, <3>1, <3>2, <3>3
  <2>. QED BY <1>00, <1>0, <1>5, <2>1, <2>2, <2>3, <2>4 DEF FreeIs
<1>7. /\ virtq_pop(vq).vq = q /\ virtq_pop(vq).descs = ds
      /\ virtq_pop(vq).addrs = [k \in 1 .. n |-> vq.addr[ds[k]]]
  BY <1>3
<1>. QED BY <1>4, <1>6, <1>7 DEF g, n, Popped

\* The device takes the next entry of the available ring.
LEMMA TakesIs ==
    ASSUME VirtqAssumption, NEW A, NEW vq \in Queues(A)
    PROVE  /\ DeviceTakes(vq) \in Queues(A)
           /\ DeviceTakes(vq) = [vq EXCEPT !.busy = vq.busy \cup {NextTaken(vq)},
                                           !.seen = (vq.seen + 1) % IndexMod]
<1>1. vq.seen \in Indices /\ vq.busy \in SUBSET Descs /\ vq.avail \in [Descs -> Descs]
  BY DEF Queues
<1>2. (vq.seen + 1) % IndexMod \in Indices
  BY <1>1, NextIndex
<1>3. NextTaken(vq) \in Descs
  <2>1. vq.seen \in Int
    BY <1>1, QueueSizes DEF Indices
  <2>. QED BY <1>1, <2>1, PlaceInRing DEF NextTaken
<1>. QED BY <1>1, <1>2, <1>3 DEF Queues, DeviceTakes

\* The device returns a chain in the used ring.
LEMMA UsesIs ==
    ASSUME VirtqAssumption, NEW A, NEW vq \in Queues(A), NEW d \in Descs
    PROVE  /\ DeviceUses(vq, d) \in Queues(A)
           /\ DeviceUses(vq, d) = [vq EXCEPT !.busy = vq.busy \ {d}, !.used[vq.used_index % NumDescs] = d,
                                             !.used_index = (vq.used_index + 1) % IndexMod]
<1>1. vq.used_index \in Indices /\ vq.busy \in SUBSET Descs /\ vq.used \in [Descs -> Descs]
  BY DEF Queues
<1>2. (vq.used_index + 1) % IndexMod \in Indices
  BY <1>1, NextIndex
<1>. QED BY <1>1, <1>2 DEF Queues, DeviceUses

-----------------------------------------------------------------------------
(* Queues whose chains have one descriptor.                                *)

\* A sequence without repetitions has as many members as entries.
LEMMA DistinctCount ==
    ASSUME NEW S, NEW s \in Seq(S), Distinct(s)
    PROVE  IsFiniteSet(Members(s)) /\ Cardinality(Members(s)) = Len(s) /\ Len(s) \in Nat
<1>1. Len(s) \in Nat
  OBVIOUS
<1>2. IsFiniteSet(1 .. Len(s)) /\ Cardinality(1 .. Len(s)) = Len(s)
  BY <1>1, FS_Interval
<1>3. s \in Bijection(1 .. Len(s), Members(s))
  <2>1. s \in [1 .. Len(s) -> Members(s)] /\ \A x \in Members(s) : \E k \in 1 .. Len(s) : s[k] = x
    BY <1>1 DEF Members
  <2>2. \A j, k \in 1 .. Len(s) : s[j] = s[k] => j = k
    BY DEF Distinct
  <2>. QED BY <2>1, <2>2 DEF Bijection, Injection, Surjection, IsInjective
<1>. QED BY <1>1, <1>2, <1>3, FS_Bijection DEF ExistsBijection

\* There are NumDescs descriptors.
LEMMA DescsCount ==
    ASSUME VirtqAssumption
    PROVE  IsFiniteSet(Descs) /\ Cardinality(Descs) = NumDescs
<1>1. NumDescs \in Nat \ {0} /\ NumDescs - 1 \in Int /\ 0 \in Int
  BY QueueSizes
<1>2. IsFiniteSet(0 .. NumDescs - 1) /\ Cardinality(0 .. NumDescs - 1) = IF 0 > NumDescs - 1 THEN 0 ELSE NumDescs - 1 - 0 + 1
  BY <1>1, FS_Interval
<1>. QED BY <1>1, <1>2 DEF Descs

\* So a sequence that misses one of them is shorter.
LEMMA Shorter ==
    ASSUME VirtqAssumption, NEW s \in Seq(Descs), Distinct(s), NEW d \in Descs, d \notin Members(s)
    PROVE  Len(s) < NumDescs
<1>1. Members(s) \in SUBSET Descs
  BY DEF Members
<1>2. Cardinality(Members(s)) <= Cardinality(Descs)
      /\ (Cardinality(Descs) = Cardinality(Members(s)) => Descs = Members(s))
  BY <1>1, DescsCount, FS_Subset
<1>. QED BY <1>2, DescsCount, DistinctCount, QueueSizes

\* A queue with the free list f, where the device has yet to take s and the driver to take u: a
\* descriptor is in one of them, or in the hands of the device.
SimpleQueue(A, vq, f, s, u) ==
    /\ vq \in Queues(A) /\ FreeIs(vq, f)
    /\ RingIs(vq.avail, vq.seen, vq.avail_index, s) /\ Distinct(s)
    /\ RingIs(vq.used, vq.last_used, vq.used_index, u) /\ Distinct(u)
    /\ Members(f) \cap Members(s) = {} /\ Members(f) \cap vq.busy = {} /\ Members(f) \cap Members(u) = {}
    /\ Members(s) \cap vq.busy = {} /\ Members(s) \cap Members(u) = {} /\ vq.busy \cap Members(u) = {}
    /\ Members(f) \cup Members(s) \cup vq.busy \cup Members(u) = Descs
    /\ \A d \in Descs \ Members(f) : ~vq.more[d]

\* The members after one more is appended.
LEMMA MembersAppend ==
    ASSUME NEW S, NEW s \in Seq(S), NEW d \in S, Distinct(s), d \notin Members(s)
    PROVE  Append(s, d) \in Seq(S) /\ Distinct(Append(s, d)) /\ Members(Append(s, d)) = Members(s) \cup {d}
<1>1. /\ Append(s, d) \in Seq(S) /\ Len(Append(s, d)) = Len(s) + 1 /\ Len(s) \in Nat
      /\ \A k \in 1 .. Len(s) : Append(s, d)[k] = s[k]
      /\ Append(s, d)[Len(s) + 1] = d
  OBVIOUS
<1>2. \A k \in 1 .. Len(s) + 1 : k = Len(s) + 1 \/ k \in 1 .. Len(s)
  BY <1>1
<1>3. \A k \in 1 .. Len(s) : k \in 1 .. Len(s) + 1 /\ k # Len(s) + 1
  BY <1>1
<1>4. Len(s) + 1 \in 1 .. Len(s) + 1
  BY <1>1
<1>5. Members(Append(s, d)) = Members(s) \cup {d}
  BY <1>1, <1>2, <1>3, <1>4 DEF Members
<1>6. Distinct(Append(s, d))
  BY <1>1, <1>2 DEF Distinct, Members
<1>. QED BY <1>1, <1>5, <1>6

\* The members of the rest.
LEMMA MembersTail ==
    ASSUME NEW S, NEW s \in Seq(S), s # <<>>, Distinct(s)
    PROVE  /\ Tail(s) \in Seq(S) /\ Distinct(Tail(s)) /\ Members(Tail(s)) = Members(s) \ {s[1]}
           /\ s[1] \in Members(s) /\ s[1] \in S
<1>1. /\ Tail(s) \in Seq(S) /\ Len(Tail(s)) = Len(s) - 1 /\ Len(s) \in Nat /\ Len(s) > 0
      /\ \A k \in 1 .. Len(s) - 1 : Tail(s)[k] = s[k + 1]
  OBVIOUS
<1>2. \A k \in 1 .. Len(s) - 1 : k + 1 \in 1 .. Len(s) /\ k + 1 # 1
  BY <1>1
<1>3. \A k \in 1 .. Len(s) : k = 1 \/ (k - 1 \in 1 .. Len(s) - 1 /\ (k - 1) + 1 = k)
  BY <1>1
<1>4. 1 \in 1 .. Len(s) /\ s[1] \in S
  BY <1>1
<1>5. Distinct(Tail(s))
  <2>. SUFFICES ASSUME NEW j \in 1 .. Len(s) - 1, NEW k \in 1 .. Len(s) - 1, Tail(s)[j] = Tail(s)[k] PROVE j = k
    BY <1>1 DEF Distinct
  <2>1. j + 1 = k + 1
    BY <1>1, <1>2 DEF Distinct
  <2>. QED BY <2>1
<1>6. ASSUME NEW k \in 1 .. Len(s) - 1 PROVE Tail(s)[k] \in Members(s) \ {s[1]}
  BY <1>1, <1>2, <1>4 DEF Members, Distinct
<1>7. ASSUME NEW k \in 1 .. Len(s), s[k] # s[1] PROVE \E j \in 1 .. Len(s) - 1 : Tail(s)[j] = s[k]
  <2>1. k - 1 \in 1 .. Len(s) - 1 /\ (k - 1) + 1 = k
    BY <1>3, <1>7
  <2>. QED BY <1>1, <2>1
<1>8. Members(Tail(s)) = Members(s) \ {s[1]}
  <2>1. Members(Tail(s)) \subseteq Members(s) \ {s[1]}
    BY <1>1, <1>6 DEF Members
  <2>2. ASSUME NEW x \in Members(s), x # s[1] PROVE x \in Members(Tail(s))
    BY <1>1, <1>7, <2>2 DEF Members
  <2>. QED BY <2>1, <2>2
<1>9. s[1] \in Members(s)
  BY <1>4 DEF Members
<1>. QED BY <1>1, <1>4, <1>5, <1>8, <1>9

\* The members with one more in front.
LEMMA MembersFront ==
    ASSUME NEW S, NEW s \in Seq(S), NEW d \in S
    PROVE  <<d>> \o s \in Seq(S) /\ Members(<<d>> \o s) = Members(s) \cup {d}
<1>. DEFINE g == <<d>> \o s
<1>1. /\ g \in Seq(S) /\ Len(g) = Len(s) + 1 /\ Len(s) \in Nat
      /\ \A k \in 1 .. Len(s) + 1 : g[k] = IF k =< 1 THEN d ELSE s[k - 1]
  <2>1. PICK t \in Seq(S) : t = <<d>> /\ Len(t) = 1 /\ t[1] = d
    <3>1. <<d>> \in Seq(S) /\ Len(<<d>>) = 1 /\ <<d>>[1] = d
      OBVIOUS
    <3>. QED BY <3>1, Zenon
  <2>2. /\ t \o s \in Seq(S) /\ Len(t \o s) = Len(t) + Len(s) /\ Len(s) \in Nat
        /\ \A k \in 1 .. Len(t) + Len(s) : (t \o s)[k] = IF k =< Len(t) THEN t[k] ELSE s[k - Len(t)]
    OBVIOUS
  <2>. QED BY <2>1, <2>2
<1>. HIDE DEF g
<1>2. \A k \in 1 .. Len(s) : k + 1 \in 1 .. Len(s) + 1 /\ ~(k + 1 =< 1) /\ (k + 1) - 1 = k
  BY <1>1
<1>3. \A k \in 1 .. Len(s) + 1 : k =< 1 \/ k - 1 \in 1 .. Len(s)
  BY <1>1
<1>4. 1 \in 1 .. Len(s) + 1
  BY <1>1
<1>5. ASSUME NEW k \in 1 .. Len(s) PROVE \E j \in 1 .. Len(s) + 1 : g[j] = s[k]
  BY <1>1, <1>2
<1>6. Members(g) \subseteq Members(s) \cup {d}
  BY <1>1, <1>3 DEF Members
<1>7. Members(s) \subseteq Members(g)
  <2>. SUFFICES ASSUME NEW k \in 1 .. Len(s) PROVE s[k] \in Members(g)
    BY DEF Members
  <2>. QED BY <1>1, <1>5 DEF Members
<1>8. d \in Members(g)
  BY <1>1, <1>4 DEF Members
<1>. QED BY <1>1, <1>6, <1>7, <1>8 DEF g

\* What is under way, and what is free.
LEMMA SimpleHeads ==
    ASSUME VirtqAssumption, NEW A, NEW vq, NEW f, NEW s, NEW u, SimpleQueue(A, vq, f, s, u)
    PROVE  /\ Heads(vq) = Members(s) \cup vq.busy \cup Members(u)
           /\ Heads(vq) = Descs \ Members(f)
           /\ \A h \in Heads(vq) : Chain(vq, h) = [k \in 1 .. 1 |-> h]
           /\ FreeDescs(vq) = [k \in 1 .. Len(f) |-> f[k]]
<1>0. /\ vq.next \in [Descs -> Descs] /\ vq.busy \in SUBSET Descs /\ NumDescs \in Nat /\ 1 \in 1 .. NumDescs
      /\ f \in Seq(Descs) /\ Len(f) \in Nat /\ Len(f) = vq.num_free
  BY QueueSizes DEF SimpleQueue, Queues, FreeIs
<1>1. /\ Fresh(vq.avail, vq.seen, vq.avail_index) = Members(s)
      /\ Fresh(vq.used, vq.last_used, vq.used_index) = Members(u)
  BY RingFresh DEF SimpleQueue, Members
<1>2. Heads(vq) = Members(s) \cup vq.busy \cup Members(u)
  BY <1>1 DEF Heads
<1>3. Heads(vq) = Descs \ Members(f)
  BY <1>2 DEF SimpleQueue
<1>4. ASSUME NEW h \in Heads(vq) PROVE Chain(vq, h) = [k \in 1 .. 1 |-> h]
  <2>. DEFINE w == [k \in 1 .. 1 |-> h]
  <2>1. h \in Descs /\ ~vq.more[h]
    BY <1>3 DEF SimpleQueue
  <2>2. w[1] = h /\ w \in [1 .. 1 -> Descs]
    BY <2>1
  <2>. HIDE DEF w
  <2>3. Walk(vq.next, h, 1, w) /\ EndsAt(vq, w, 1)
    BY <2>1, <2>2 DEF Walk, EndsAt
  <2>4. Chain(vq, h) = w
    BY <1>0, <2>1, <2>3, ChainIs
  <2>. QED BY <2>4 DEF w
<1>5. FreeDescs(vq) = [k \in 1 .. Len(f) |-> f[k]]
  BY <1>0, FreeWalk DEF FreeDescs, SimpleQueue
<1>. QED BY <1>2, <1>3, <1>4, <1>5

\* Such a queue is sound.
LEMMA SimpleSound ==
    ASSUME VirtqAssumption, NEW A, NEW vq, NEW f, NEW s, NEW u, SimpleQueue(A, vq, f, s, u)
    PROVE  QueueSound(vq) /\ vq.num_free \in 0 .. NumDescs /\ vq.num_free = Len(f)
<1>. DEFINE chains == {Elems(Chain(vq, h)) : h \in Heads(vq)}
<1>0. f \in Seq(Descs) /\ Len(f) \in Nat /\ Len(f) = vq.num_free /\ Distinct(f) /\ NumDescs \in Nat
  BY QueueSizes DEF SimpleQueue, FreeIs
<1>1. Elems(FreeDescs(vq)) = Members(f)
  <2>1. FreeDescs(vq) = [k \in 1 .. Len(f) |-> f[k]]
    BY SimpleHeads
  <2>. QED BY <2>1, <1>0 DEF Elems, Members
<1>2. ASSUME NEW h \in Heads(vq) PROVE Elems(Chain(vq, h)) = {h}
  <2>1. Chain(vq, h) = [k \in 1 .. 1 |-> h]
    BY SimpleHeads
  <2>. QED BY <2>1 DEF Elems
<1>3. chains = {{h} : h \in Heads(vq)}
  BY <1>2
<1>4. UNION chains = Descs \ Members(f)
  <2>1. UNION {{h} : h \in Heads(vq)} = Heads(vq)
    OBVIOUS
  <2>. QED BY <1>3, <2>1, SimpleHeads
<1>5. \A c, d \in chains : c # d => c \cap d = {}
  BY <1>3
<1>. HIDE DEF chains
<1>6. Members(f) \in SUBSET Descs
  BY <1>0 DEF Members
<1>7. Cardinality(Members(f)) = vq.num_free /\ vq.num_free \in 0 .. NumDescs
  <2>1. Cardinality(Members(f)) = Len(f)
    BY <1>0, DistinctCount
  <2>2. Cardinality(Members(f)) =< NumDescs
    BY <1>6, DescsCount, FS_Subset
  <2>. QED BY <1>0, <2>1, <2>2
<1>8. /\ Members(f) \cup UNION chains = Descs /\ Members(f) \cap UNION chains = {}
  BY <1>4, <1>6
<1>. QED BY <1>0, <1>1, <1>5, <1>7, <1>8 DEF QueueSound, chains

\* p is what virtq_push gives when the buffer a gets the first free descriptor.
Offered(A, vq, f, s, u, a, p) ==
    /\ p.ok /\ p.head = f[1] /\ f[1] \in Descs /\ f[1] \notin Heads(vq)
    /\ SimpleQueue(A, p.vq, Tail(f), Append(s, f[1]), u)
    /\ Heads(p.vq) = Heads(vq) \cup {f[1]}
    /\ p.vq.addr[f[1]] = a /\ \A d \in Descs \ {f[1]} : p.vq.addr[d] = vq.addr[d]
    /\ p.vq.busy = vq.busy

\* The driver offers a buffer.
LEMMA SimplePush ==
    ASSUME VirtqAssumption, NEW A, NEW vq, NEW f, NEW s, NEW u, SimpleQueue(A, vq, f, s, u),
           f # <<>>, NEW a \in A
    PROVE  Offered(A, vq, f, s, u, a, virtq_push(vq, <<a>>))
<1>. DEFINE q == virtq_push(vq, <<a>>).vq
<1>0. /\ vq \in Queues(A) /\ FreeIs(vq, f) /\ f \in Seq(Descs) /\ Distinct(f) /\ Len(f) \in Nat /\ Len(f) > 0
      /\ s \in Seq(Descs) /\ Distinct(s) /\ u \in Seq(Descs)
      /\ vq.busy \in SUBSET Descs
  BY DEF SimpleQueue, FreeIs, RingIs, Queues
<1>1. <<a>> \in Seq(A) /\ Len(<<a>>) = 1 /\ <<a>>[1] = a
  OBVIOUS
<1>2. SubSeq(f, 1 + 1, Len(f)) = Tail(f)
  BY <1>0
<1>3. /\ virtq_push(vq, <<a>>).ok /\ virtq_push(vq, <<a>>).head = f[1]
      /\ q \in Queues(A) /\ FreeIs(q, Tail(f))
      /\ q.addr[f[1]] = a /\ ~q.more[f[1]]
      /\ \A d \in Descs : f[1] # d => q.addr[d] = vq.addr[d] /\ (q.more[d] <=> vq.more[d])
      /\ q.avail = [vq.avail EXCEPT ![vq.avail_index % NumDescs] = f[1]]
      /\ q.avail_index = (vq.avail_index + 1) % IndexMod
      /\ q.used = vq.used /\ q.used_index = vq.used_index
      /\ q.last_used = vq.last_used /\ q.seen = vq.seen /\ q.busy = vq.busy
  <2>. HIDE DEF q
  <2>1. PICK as \in Seq(A) : as = <<a>> /\ Len(as) = 1 /\ as[1] = a
    BY <1>1
  <2>2. q = virtq_push(vq, as).vq
    BY <2>1 DEF q
  <2>3. Len(as) > 0 /\ Len(as) =< Len(f)
    BY <1>0, <2>1
  <2>4. /\ virtq_push(vq, as).ok = TRUE /\ virtq_push(vq, as).head = f[1]
        /\ Pushed(A, vq, f, as, q)
    BY <1>0, <2>2, <2>3, PushIs
  <2>5. 1 \in 1 .. Len(as) /\ ~(1 < Len(as)) /\ \A k \in 1 .. Len(as) : k = 1
    BY <2>1
  <2>6. q.addr[f[1]] = as[1] /\ ~q.more[f[1]]
    BY <2>4, <2>5 DEF Pushed
  <2>7. \A d \in Descs : f[1] # d => q.addr[d] = vq.addr[d] /\ (q.more[d] <=> vq.more[d])
    BY <2>4, <2>5 DEF Pushed
  <2>8. FreeIs(q, Tail(f))
    BY <1>2, <2>1, <2>4 DEF Pushed
  <2>. QED BY <2>1, <2>4, <2>6, <2>7, <2>8 DEF Pushed
<1>. HIDE DEF q
<1>4. /\ Tail(f) \in Seq(Descs) /\ Members(Tail(f)) = Members(f) \ {f[1]} /\ f[1] \in Members(f) /\ f[1] \in Descs
  BY <1>0, MembersTail
<1>5. f[1] \notin Members(s) /\ f[1] \notin vq.busy /\ f[1] \notin Members(u)
  BY <1>4 DEF SimpleQueue
<1>6. /\ Append(s, f[1]) \in Seq(Descs) /\ Distinct(Append(s, f[1]))
      /\ Members(Append(s, f[1])) = Members(s) \cup {f[1]}
  BY <1>0, <1>4, <1>5, MembersAppend
<1>7. RingIs(q.avail, q.seen, q.avail_index, Append(s, f[1]))
  <2>1. Len(s) < NumDescs
    BY <1>0, <1>4, <1>5, Shorter
  <2>2. RingIs(vq.avail, vq.seen, vq.avail_index, s)
    BY DEF SimpleQueue
  <2>3. RingIs([vq.avail EXCEPT ![vq.avail_index % NumDescs] = f[1]], vq.seen,
               (vq.avail_index + 1) % IndexMod, Append(s, f[1]))
    BY <1>4, <2>1, <2>2, RingAppend
  <2>. QED BY <1>3, <2>3
<1>8. ASSUME NEW d \in Descs, d \notin Members(Tail(f)) PROVE ~q.more[d]
  BY <1>3, <1>4, <1>8 DEF SimpleQueue
<1>9. SimpleQueue(A, q, Tail(f), Append(s, f[1]), u)
  <2>1. /\ RingIs(q.used, q.last_used, q.used_index, u) /\ Distinct(u)
        /\ Members(f) \cap Members(s) = {} /\ Members(f) \cap vq.busy = {} /\ Members(f) \cap Members(u) = {}
        /\ Members(s) \cap vq.busy = {} /\ Members(s) \cap Members(u) = {} /\ vq.busy \cap Members(u) = {}
        /\ Members(f) \cup Members(s) \cup vq.busy \cup Members(u) = Descs
    BY <1>3 DEF SimpleQueue
  <2>2. /\ Members(Tail(f)) \cap Members(Append(s, f[1])) = {} /\ Members(Tail(f)) \cap q.busy = {}
        /\ Members(Tail(f)) \cap Members(u) = {}
        /\ Members(Append(s, f[1])) \cap q.busy = {} /\ Members(Append(s, f[1])) \cap Members(u) = {}
        /\ q.busy \cap Members(u) = {}
        /\ Members(Tail(f)) \cup Members(Append(s, f[1])) \cup q.busy \cup Members(u) = Descs
    BY <1>3, <1>4, <1>5, <1>6, <2>1
  <2>. QED BY <1>3, <1>6, <1>7, <1>8, <2>1, <2>2 DEF SimpleQueue
<1>10. Heads(q) = Heads(vq) \cup {f[1]} /\ f[1] \notin Heads(vq)
  <2>1. Heads(q) = Descs \ Members(Tail(f)) /\ Heads(vq) = Descs \ Members(f)
    BY <1>9, SimpleHeads
  <2>. QED BY <1>4, <2>1
<1>. QED BY <1>3, <1>4, <1>9, <1>10 DEF q, Offered

\* r is what virtq_pop gives when the first used descriptor becomes free.
TakenBack(A, vq, f, s, u, r) ==
    /\ u # <<>> /\ u[1] \in Heads(vq) /\ u[1] \in Descs
    /\ SimpleQueue(A, r.vq, <<u[1]>> \o f, s, Tail(u))
    /\ Heads(r.vq) = Heads(vq) \ {u[1]}
    /\ r.addrs[1] = vq.addr[u[1]] /\ r.vq.addr = vq.addr /\ r.vq.busy = vq.busy

\* The driver takes a buffer the device has used.
LEMMA SimplePop ==
    ASSUME VirtqAssumption, NEW A, NEW vq, NEW f, NEW s, NEW u, SimpleQueue(A, vq, f, s, u),
           ~virtq_is_empty(vq)
    PROVE  TakenBack(A, vq, f, s, u, virtq_pop(vq))
<1>. DEFINE q == virtq_pop(vq).vq
            d == u[1]
            ds == <<d>>
<1>0. /\ vq \in Queues(A) /\ FreeIs(vq, f) /\ f \in Seq(Descs) /\ s \in Seq(Descs) /\ u \in Seq(Descs)
      /\ Distinct(u) /\ vq.busy \in SUBSET Descs /\ RingIs(vq.used, vq.last_used, vq.used_index, u)
  BY DEF SimpleQueue, FreeIs, RingIs, Queues
<1>1. /\ vq.used[vq.last_used % NumDescs] = d /\ u # <<>> /\ d \in Descs
      /\ RingIs(vq.used, (vq.last_used + 1) % IndexMod, vq.used_index, Tail(u))
  BY <1>0, RingTail DEF virtq_is_empty
<1>2. /\ Tail(u) \in Seq(Descs) /\ Distinct(Tail(u)) /\ Members(Tail(u)) = Members(u) \ {d} /\ d \in Members(u)
  BY <1>0, <1>1, MembersTail
<1>3. d \notin Members(f) /\ d \notin Members(s) /\ d \notin vq.busy /\ ~vq.more[d]
  BY <1>1, <1>2 DEF SimpleQueue
<1>. HIDE DEF d
<1>4. ds \in Seq(Descs) /\ Len(ds) = 1 /\ ds[1] = d
  BY <1>1
<1>5. UsedChain(vq, f, ds)
  <2>. HIDE DEF ds
  <2>1. 1 \in 1 .. NumDescs /\ \A k \in 1 .. Len(ds) : k = 1
    BY <1>4, QueueSizes
  <2>2. Distinct(ds)
    BY <2>1 DEF Distinct
  <2>3. \A k \in 1 .. Len(f) : f[k] # d
    BY <1>3 DEF Members
  <2>4. 1 .. Len(ds) - 1 = {}
    BY <1>4
  <2>5. EndsAt(vq, ds, Len(ds))
    BY <1>3, <1>4, <2>4 DEF EndsAt
  <2>. QED BY <1>1, <1>4, <2>1, <2>2, <2>3, <2>4, <2>5 DEF UsedChain
<1>6. /\ virtq_pop(vq).addrs = [k \in 1 .. Len(ds) |-> vq.addr[ds[k]]]
      /\ Popped(A, vq, f, ds, q)
  BY <1>0, <1>5, PopIs
<1>7. virtq_pop(vq).addrs[1] = vq.addr[d]
  BY <1>4, <1>6
<1>8. ds \o f \in Seq(Descs) /\ Members(ds \o f) = Members(f) \cup {d}
  BY <1>0, <1>1, MembersFront
<1>. HIDE DEF q, ds
<1>9. SimpleQueue(A, q, ds \o f, s, Tail(u))
  <2>1. /\ RingIs(vq.avail, vq.seen, vq.avail_index, s) /\ Distinct(s)
        /\ Members(f) \cap Members(s) = {} /\ Members(f) \cap vq.busy = {} /\ Members(f) \cap Members(u) = {}
        /\ Members(s) \cap vq.busy = {} /\ Members(s) \cap Members(u) = {} /\ vq.busy \cap Members(u) = {}
        /\ Members(f) \cup Members(s) \cup vq.busy \cup Members(u) = Descs
        /\ \A c \in Descs \ Members(f) : ~vq.more[c]
    BY DEF SimpleQueue
  <2>2. /\ Members(ds \o f) \cap Members(s) = {} /\ Members(ds \o f) \cap vq.busy = {}
        /\ Members(ds \o f) \cap Members(Tail(u)) = {} /\ Members(s) \cap Members(Tail(u)) = {}
        /\ vq.busy \cap Members(Tail(u)) = {}
        /\ Members(ds \o f) \cup Members(s) \cup vq.busy \cup Members(Tail(u)) = Descs
    BY <1>2, <1>3, <1>8, <2>1
  <2>3. \A c \in Descs \ Members(ds \o f) : ~vq.more[c]
    BY <1>8, <2>1
  <2>. QED BY <1>1, <1>2, <1>6, <2>1, <2>2, <2>3 DEF SimpleQueue, Popped
<1>10. Heads(q) = Heads(vq) \ {d} /\ d \in Heads(vq)
  <2>1. Heads(q) = Descs \ Members(ds \o f) /\ Heads(vq) = Descs \ Members(f)
    BY <1>9, SimpleHeads
  <2>. QED BY <1>1, <1>3, <1>8, <2>1
<1>11. q.addr = vq.addr /\ q.busy = vq.busy
  BY <1>6 DEF Popped
<1>. QED BY <1>1, <1>7, <1>9, <1>10, <1>11 DEF q, d, ds, TakenBack

\* q is the queue when the device has taken the first that is available.
Started(A, vq, f, s, u, q) ==
    /\ s # <<>> /\ s[1] = NextTaken(vq) /\ s[1] \in Heads(vq) /\ s[1] \in Descs
    /\ SimpleQueue(A, q, f, Tail(s), u)
    /\ Heads(q) = Heads(vq) /\ q.addr = vq.addr /\ q.busy = vq.busy \cup {s[1]}

\* The device takes a buffer.
LEMMA SimpleTake ==
    ASSUME VirtqAssumption, NEW A, NEW vq, NEW f, NEW s, NEW u, SimpleQueue(A, vq, f, s, u), CanTake(vq)
    PROVE  Started(A, vq, f, s, u, DeviceTakes(vq))
<1>. DEFINE q == DeviceTakes(vq)
            d == s[1]
<1>0. /\ vq \in Queues(A) /\ f \in Seq(Descs) /\ s \in Seq(Descs) /\ u \in Seq(Descs)
      /\ Distinct(s) /\ vq.busy \in SUBSET Descs /\ RingIs(vq.avail, vq.seen, vq.avail_index, s)
  BY DEF SimpleQueue, FreeIs, RingIs, Queues
<1>1. /\ NextTaken(vq) = d /\ s # <<>> /\ d \in Descs
      /\ RingIs(vq.avail, (vq.seen + 1) % IndexMod, vq.avail_index, Tail(s))
  BY <1>0, RingTail DEF CanTake, NextTaken
<1>2. /\ Tail(s) \in Seq(Descs) /\ Distinct(Tail(s)) /\ Members(Tail(s)) = Members(s) \ {d} /\ d \in Members(s)
  BY <1>0, <1>1, MembersTail
<1>. HIDE DEF d
<1>3. /\ q \in Queues(A) /\ q.next = vq.next /\ q.more = vq.more /\ q.addr = vq.addr
      /\ q.free_head = vq.free_head /\ q.num_free = vq.num_free /\ q.avail = vq.avail
      /\ q.avail_index = vq.avail_index /\ q.used = vq.used /\ q.used_index = vq.used_index
      /\ q.last_used = vq.last_used /\ q.seen = (vq.seen + 1) % IndexMod /\ q.busy = vq.busy \cup {d}
  <2>1. q \in Queues(A) /\ q = [vq EXCEPT !.busy = vq.busy \cup {NextTaken(vq)}, !.seen = (vq.seen + 1) % IndexMod]
    BY <1>0, TakesIs
  <2>. QED BY <1>0, <1>1, <2>1 DEF Queues
<1>. HIDE DEF q
<1>4. FreeIs(q, f)
  BY <1>3 DEF FreeIs, SimpleQueue
<1>5. SimpleQueue(A, q, f, Tail(s), u)
  <2>1. /\ RingIs(vq.used, vq.last_used, vq.used_index, u) /\ Distinct(u)
        /\ Members(f) \cap Members(s) = {} /\ Members(f) \cap vq.busy = {} /\ Members(f) \cap Members(u) = {}
        /\ Members(s) \cap vq.busy = {} /\ Members(s) \cap Members(u) = {} /\ vq.busy \cap Members(u) = {}
        /\ Members(f) \cup Members(s) \cup vq.busy \cup Members(u) = Descs
        /\ \A c \in Descs \ Members(f) : ~vq.more[c]
    BY DEF SimpleQueue
  <2>2. /\ Members(f) \cap Members(Tail(s)) = {} /\ Members(f) \cap q.busy = {}
        /\ Members(Tail(s)) \cap q.busy = {} /\ Members(Tail(s)) \cap Members(u) = {}
        /\ q.busy \cap Members(u) = {}
        /\ Members(f) \cup Members(Tail(s)) \cup q.busy \cup Members(u) = Descs
    BY <1>2, <1>3, <2>1
  <2>. QED BY <1>1, <1>2, <1>3, <1>4, <2>1, <2>2 DEF SimpleQueue
<1>6. Heads(q) = Heads(vq) /\ d \in Heads(vq)
  <2>1. /\ Heads(q) = Descs \ Members(f) /\ Heads(vq) = Descs \ Members(f)
        /\ Heads(vq) = Members(s) \cup vq.busy \cup Members(u)
    BY <1>5, SimpleHeads
  <2>. QED BY <1>2, <2>1
<1>. QED BY <1>1, <1>3, <1>5, <1>6 DEF q, d, Started

\* q is the queue when the device is done with d.
Ended(A, vq, f, s, u, d, q) ==
    /\ d \in Heads(vq) /\ d \in Descs /\ SimpleQueue(A, q, f, s, Append(u, d))
    /\ Heads(q) = Heads(vq) /\ q.addr = vq.addr /\ q.busy = vq.busy \ {d}

\* The device is done with a buffer.
LEMMA SimpleUse ==
    ASSUME VirtqAssumption, NEW A, NEW vq, NEW f, NEW s, NEW u, SimpleQueue(A, vq, f, s, u), NEW d \in vq.busy
    PROVE  Ended(A, vq, f, s, u, d, DeviceUses(vq, d))
<1>. DEFINE q == DeviceUses(vq, d)
<1>0. /\ vq \in Queues(A) /\ f \in Seq(Descs) /\ s \in Seq(Descs) /\ u \in Seq(Descs)
      /\ Distinct(u) /\ vq.busy \in SUBSET Descs /\ RingIs(vq.used, vq.last_used, vq.used_index, u)
      /\ d \in Descs /\ d \notin Members(u)
  BY DEF SimpleQueue, FreeIs, RingIs, Queues
<1>1. RingIs([vq.used EXCEPT ![vq.used_index % NumDescs] = d], vq.last_used,
             (vq.used_index + 1) % IndexMod, Append(u, d))
  BY <1>0, Shorter, RingAppend
<1>2. /\ Append(u, d) \in Seq(Descs) /\ Distinct(Append(u, d)) /\ Members(Append(u, d)) = Members(u) \cup {d}
  BY <1>0, MembersAppend
<1>3. /\ q \in Queues(A) /\ q.next = vq.next /\ q.more = vq.more /\ q.addr = vq.addr
      /\ q.free_head = vq.free_head /\ q.num_free = vq.num_free /\ q.avail = vq.avail
      /\ q.avail_index = vq.avail_index /\ q.used = [vq.used EXCEPT ![vq.used_index % NumDescs] = d]
      /\ q.used_index = (vq.used_index + 1) % IndexMod
      /\ q.last_used = vq.last_used /\ q.seen = vq.seen /\ q.busy = vq.busy \ {d}
  <2>1. q \in Queues(A) /\ q = [vq EXCEPT !.busy = vq.busy \ {d}, !.used[vq.used_index % NumDescs] = d,
                                          !.used_index = (vq.used_index + 1) % IndexMod]
    BY <1>0, UsesIs
  <2>. QED BY <1>0, <2>1 DEF Queues
<1>. HIDE DEF q
<1>4. FreeIs(q, f)
  BY <1>3 DEF FreeIs, SimpleQueue
<1>5. SimpleQueue(A, q, f, s, Append(u, d))
  <2>1. /\ RingIs(vq.avail, vq.seen, vq.avail_index, s) /\ Distinct(s)
        /\ Members(f) \cap Members(s) = {} /\ Members(f) \cap vq.busy = {} /\ Members(f) \cap Members(u) = {}
        /\ Members(s) \cap vq.busy = {} /\ Members(s) \cap Members(u) = {} /\ vq.busy \cap Members(u) = {}
        /\ Members(f) \cup Members(s) \cup vq.busy \cup Members(u) = Descs
        /\ \A c \in Descs \ Members(f) : ~vq.more[c]
    BY DEF SimpleQueue
  <2>2. /\ Members(f) \cap q.busy = {} /\ Members(f) \cap Members(Append(u, d)) = {}
        /\ Members(s) \cap q.busy = {} /\ Members(s) \cap Members(Append(u, d)) = {}
        /\ q.busy \cap Members(Append(u, d)) = {}
        /\ Members(f) \cup Members(s) \cup q.busy \cup Members(Append(u, d)) = Descs
    BY <1>2, <1>3, <2>1
  <2>. QED BY <1>1, <1>2, <1>3, <1>4, <2>1, <2>2 DEF SimpleQueue
<1>6. Heads(q) = Heads(vq) /\ d \in Heads(vq)
  <2>1. /\ Heads(q) = Descs \ Members(f) /\ Heads(vq) = Descs \ Members(f)
        /\ Heads(vq) = Members(s) \cup vq.busy \cup Members(u)
    BY <1>5, SimpleHeads
  <2>. QED BY <2>1
<1>. QED BY <1>0, <1>3, <1>5, <1>6 DEF q, Ended

\* The free list after virtq_init.
AllDescs == [k \in 1 .. NumDescs |-> k - 1]

\* virtq_init: all is free.
LEMMA SimpleNew ==
    ASSUME VirtqAssumption, NEW A, 0 \in A
    PROVE  /\ SimpleQueue(A, NewQueue, AllDescs, <<>>, <<>>) /\ Heads(NewQueue) = {}
           /\ Len(AllDescs) = NumDescs /\ NewQueue.busy = {}
<1>1. NumDescs \in Nat \ {0} /\ IndexMod \in Nat \ {0} /\ NumDescs < IndexMod
  BY QueueSizes
<1>2. 0 \in Descs /\ 0 \in Indices /\ (0 - 0) % IndexMod = 0
  <2>1. 0 % IndexMod = 0
    BY <1>1
  <2>. QED BY <1>1, <2>1 DEF Descs, Indices
<1>3. \A d \in Descs : (d + 1) % NumDescs \in Descs
  <2>1. \A d \in Descs : d + 1 \in Int
    BY <1>1 DEF Descs
  <2>. QED BY <2>1, PlaceInRing
<1>4. NewQueue \in Queues(A)
  <2>1. [d \in Descs |-> (d + 1) % NumDescs] \in [Descs -> Descs]
    BY <1>3
  <2>2. NumDescs \in Nat
    BY <1>1
  <2>. QED BY <1>2, <2>1, <2>2 DEF NewQueue, Queues
<1>5. /\ AllDescs \in Seq(Descs) /\ Len(AllDescs) = NumDescs
      /\ \A k \in 1 .. NumDescs : AllDescs[k] = k - 1
  <2>1. \A k \in 1 .. NumDescs : k - 1 \in Descs
    BY <1>1 DEF Descs
  <2>. QED BY <1>1, <2>1 DEF AllDescs
<1>. HIDE DEF AllDescs
<1>6. Distinct(AllDescs)
  BY <1>1, <1>5 DEF Distinct
<1>7. Members(AllDescs) = Descs
  <2>1. \A d \in Descs : d + 1 \in 1 .. NumDescs /\ (d + 1) - 1 = d
    BY <1>1 DEF Descs
  <2>2. \A d \in Descs : AllDescs[d + 1] = d
    BY <1>5, <2>1
  <2>3. \A k \in 1 .. NumDescs : AllDescs[k] \in Descs
    BY <1>5
  <2>. QED BY <1>5, <2>1, <2>2, <2>3 DEF Members
<1>8. FreeIs(NewQueue, AllDescs)
  <2>1. ASSUME NEW k \in 1 .. NumDescs - 1 PROVE AllDescs[k + 1] = NewQueue.next[AllDescs[k]]
    <3>1. k \in 1 .. NumDescs /\ k + 1 \in 1 .. NumDescs /\ k - 1 \in Descs /\ (k - 1) + 1 = k /\ (k + 1) - 1 = k
      BY <1>1 DEF Descs
    <3>2. k % NumDescs = k
      BY <1>1
    <3>3. NewQueue.next[k - 1] = ((k - 1) + 1) % NumDescs
      BY <3>1 DEF NewQueue
    <3>. QED BY <1>5, <3>1, <3>2, <3>3
  <2>2. NewQueue.num_free = NumDescs /\ NewQueue.free_head = 0
    BY DEF NewQueue
  <2>3. AllDescs[1] = 0
    BY <1>1, <1>5
  <2>. QED BY <1>5, <1>6, <2>1, <2>2, <2>3 DEF FreeIs
<1>9. PICK e \in Seq(Descs) : e = <<>> /\ Len(e) = 0
  <2>1. <<>> \in Seq(Descs) /\ Len(<<>>) = 0
    OBVIOUS
  <2>. QED BY <2>1
<1>10. Members(e) = {} /\ Distinct(e)
  BY <1>9 DEF Members, Distinct
<1>11. \A ring \in [Descs -> Descs] : RingIs(ring, 0, 0, e)
  BY <1>2, <1>9 DEF RingIs
<1>12. /\ NewQueue.avail \in [Descs -> Descs] /\ NewQueue.used \in [Descs -> Descs]
       /\ NewQueue.avail_index = 0 /\ NewQueue.used_index = 0 /\ NewQueue.last_used = 0
       /\ NewQueue.seen = 0 /\ NewQueue.busy = {}
  BY <1>2 DEF NewQueue
<1>13. SimpleQueue(A, NewQueue, AllDescs, e, e)
  BY <1>4, <1>7, <1>8, <1>10, <1>11, <1>12 DEF SimpleQueue
<1>14. Heads(NewQueue) = Descs \ Members(AllDescs)
  BY <1>13, SimpleHeads
<1>. QED BY <1>5, <1>7, <1>9, <1>12, <1>13, <1>14

\* A queue is empty for one side when there is nothing in the other's ring.
LEMMA SimpleEmpty ==
    ASSUME VirtqAssumption, NEW A, NEW vq, NEW f, NEW s, NEW u, SimpleQueue(A, vq, f, s, u)
    PROVE  (virtq_is_empty(vq) <=> u = <<>>) /\ (CanTake(vq) <=> s # <<>>)
  BY RingEmpty DEF SimpleQueue, virtq_is_empty, CanTake
-----------------------------------------------------------------------------
(* Queues with one chain at a time.                                        *)

\* All descriptors are free, in the order f, and the device has nothing.
Idle(A, vq, f) == SimpleQueue(A, vq, f, <<>>, <<>>) /\ vq.busy = {}

\* The chain ds is under way, s and u are what is in the rings, and the rest is free.
OneChain(A, vq, f, ds, s, u) ==
    /\ vq \in Queues(A) /\ FreeIs(vq, f) /\ vq.busy = {}
    /\ ds \in Seq(Descs) /\ Len(ds) \in 1 .. NumDescs /\ Distinct(ds)
    /\ Members(ds) \cap Members(f) = {} /\ Members(ds) \cup Members(f) = Descs
    /\ \A k \in 1 .. Len(ds) - 1 : ds[k + 1] = vq.next[ds[k]]
    /\ EndsAt(vq, ds, Len(ds))
    /\ RingIs(vq.avail, vq.seen, vq.avail_index, s) /\ RingIs(vq.used, vq.last_used, vq.used_index, u)

\* The device has yet to take the chain.
Requested(A, vq, f, ds) == OneChain(A, vq, f, ds, <<ds[1]>>, <<>>)

\* The driver has yet to take it.
Replied(A, vq, f, ds) == OneChain(A, vq, f, ds, <<>>, <<ds[1]>>)

\* The empty ring and the ring with one entry.
LEMMA ShortRings ==
    ASSUME NEW d \in Descs
    PROVE  /\ <<>> \in Seq(Descs) /\ Len(<<>>) = 0 /\ Members(<<>>) = {}
           /\ <<d>> \in Seq(Descs) /\ Len(<<d>>) = 1 /\ Members(<<d>>) = {d} /\ <<d>>[1] = d /\ <<d>> # <<>>
           /\ Append(<<>>, d) = <<d>> /\ Tail(<<d>>) = <<>>
<1>1. /\ <<>> \in Seq(Descs) /\ Len(<<>>) = 0
      /\ <<d>> \in Seq(Descs) /\ Len(<<d>>) = 1 /\ <<d>>[1] = d /\ <<d>> # <<>>
      /\ Append(<<>>, d) = <<d>> /\ Tail(<<d>>) = <<>> /\ 1 .. 0 = {} /\ 1 .. 1 = {1}
  OBVIOUS
<1>2. Members(<<>>) = {}
  BY <1>1 DEF Members
<1>3. Members(<<d>>) = {d}
  BY <1>1 DEF Members
<1>. QED BY <1>1, <1>2, <1>3

\* A queue with one chain is sound.
LEMMA OneChainSound ==
    ASSUME VirtqAssumption, NEW A, NEW vq, NEW f, NEW ds, Requested(A, vq, f, ds) \/ Replied(A, vq, f, ds)
    PROVE  QueueSound(vq) /\ vq.num_free \in 0 .. NumDescs /\ ds[1] \in Descs
<1>. DEFINE chains == {Elems(Chain(vq, h)) : h \in Heads(vq)}
<1>1. PICK s, u : OneChain(A, vq, f, ds, s, u) /\ ((s = <<ds[1]>> /\ u = <<>>) \/ (s = <<>> /\ u = <<ds[1]>>))
  BY DEF Requested, Replied
<1>2. /\ vq.next \in [Descs -> Descs] /\ NumDescs \in Nat /\ vq.busy = {} /\ vq \in Queues(A) /\ FreeIs(vq, f)
      /\ f \in Seq(Descs) /\ Len(f) \in Nat /\ Len(f) = vq.num_free /\ Distinct(f)
      /\ ds \in Seq(Descs) /\ Len(ds) \in 1 .. NumDescs /\ Distinct(ds)
      /\ Members(ds) \cap Members(f) = {} /\ Members(ds) \cup Members(f) = Descs
      /\ RingIs(vq.avail, vq.seen, vq.avail_index, s) /\ RingIs(vq.used, vq.last_used, vq.used_index, u)
      /\ \A k \in 1 .. Len(ds) - 1 : ds[k + 1] = vq.next[ds[k]]
      /\ EndsAt(vq, ds, Len(ds))
  BY <1>1, QueueSizes DEF OneChain, Queues, FreeIs
<1>3. PICK d \in Descs : d = ds[1]
  <2>1. 1 \in 1 .. Len(ds)
    BY <1>2
  <2>2. ds[1] \in Descs
    BY <1>2, <2>1
  <2>. QED BY <2>2
<1>4. Heads(vq) = {d}
  <2>1. /\ Fresh(vq.avail, vq.seen, vq.avail_index) = Members(s)
        /\ Fresh(vq.used, vq.last_used, vq.used_index) = Members(u)
    BY <1>2, RingFresh DEF Members
  <2>2. Members(s) \cup Members(u) = {d}
    BY <1>1, <1>3, ShortRings
  <2>. QED BY <1>2, <2>1, <2>2 DEF Heads
<1>5. Chain(vq, d) = ds
  <2>1. PICK n \in 1 .. NumDescs : n = Len(ds)
    BY <1>2
  <2>2. ds \in [1 .. n -> Descs]
    BY <1>2, <2>1
  <2>3. \A k \in 1 .. n : k = 1 \/ (k - 1 \in 1 .. n - 1 /\ (k - 1) + 1 = k)
    BY <1>2, <2>1
  <2>4. \A k \in 1 .. n : ds[k] = IF k = 1 THEN d ELSE vq.next[ds[k - 1]]
    BY <1>2, <1>3, <2>1, <2>3
  <2>5. Walk(vq.next, d, n, ds)
    BY <1>3, <2>2, <2>4 DEF Walk
  <2>6. EndsAt(vq, ds, n)
    BY <1>2, <2>1
  <2>. QED BY <1>2, <2>1, <2>5, <2>6, ChainIs
<1>6. chains = {Members(ds)}
  <2>1. Elems(ds) = Members(ds)
    BY <1>2 DEF Elems, Members
  <2>. QED BY <1>4, <1>5, <2>1
<1>7. Elems(FreeDescs(vq)) = Members(f)
  <2>1. FreeDescs(vq) = [k \in 1 .. Len(f) |-> f[k]]
    <3>1. PICK n \in Nat : n = Len(f) /\ n = vq.num_free
      BY <1>2
    <3>. QED BY <1>2, <3>1, FreeWalk DEF FreeDescs
  <2>2. Len(f) \in Nat
    BY <1>2
  <2>. QED BY <2>1, <2>2 DEF Elems, Members
<1>. HIDE DEF chains
<1>8. Members(f) \in SUBSET Descs
  BY <1>2
<1>9. Cardinality(Members(f)) = vq.num_free /\ vq.num_free \in 0 .. NumDescs
  <2>1. Cardinality(Members(f)) = Len(f)
    BY <1>2, DistinctCount
  <2>2. Cardinality(Members(f)) =< NumDescs
    BY <1>8, DescsCount, FS_Subset
  <2>. QED BY <1>2, <2>1, <2>2
<1>10. UNION chains = Members(ds) /\ \A c, e \in chains : c # e => c \cap e = {}
  BY <1>6
<1>. QED BY <1>2, <1>3, <1>7, <1>9, <1>10 DEF QueueSound, chains

\* The free list of an idle queue.
LEMMA IdleIs ==
    ASSUME VirtqAssumption, NEW A, NEW vq, NEW f, Idle(A, vq, f)
    PROVE  /\ vq \in Queues(A) /\ FreeIs(vq, f) /\ f \in Seq(Descs) /\ Distinct(f) /\ Members(f) = Descs
           /\ Len(f) = NumDescs /\ QueueSound(vq) /\ vq.num_free \in 0 .. NumDescs /\ vq.num_free = Len(f)
           /\ RingIs(vq.avail, vq.seen, vq.avail_index, <<>>) /\ RingIs(vq.used, vq.last_used, vq.used_index, <<>>)
           /\ vq.busy = {}
<1>1. SimpleQueue(A, vq, f, <<>>, <<>>) /\ vq.busy = {}
  BY DEF Idle
<1>2. PICK e : e = <<>> /\ Members(e) = {} /\ SimpleQueue(A, vq, f, e, e)
  <2>1. Len(<<>>) = 0 /\ 1 .. 0 = {}
    OBVIOUS
  <2>2. Members(<<>>) = {}
    BY <2>1 DEF Members
  <2>. QED BY <1>1, <2>2
<1>3. /\ vq \in Queues(A) /\ FreeIs(vq, f) /\ f \in Seq(Descs) /\ Distinct(f) /\ Members(f) = Descs
      /\ RingIs(vq.avail, vq.seen, vq.avail_index, e) /\ RingIs(vq.used, vq.last_used, vq.used_index, e)
  BY <1>1, <1>2 DEF SimpleQueue, FreeIs
<1>4. QueueSound(vq) /\ vq.num_free \in 0 .. NumDescs /\ vq.num_free = Len(f)
  BY <1>2, SimpleSound
<1>5. Len(f) = NumDescs
  BY <1>3, DistinctCount, DescsCount
<1>. QED BY <1>1, <1>2, <1>3, <1>4, <1>5

\* With nothing used there is nothing to reclaim.
LEMMA NothingToReclaim ==
    ASSUME VirtqAssumption, NEW vq, vq.used_index = vq.last_used, vq.last_used \in Indices
    PROVE  Reclaimed(vq) = vq
<1>1. PICK n : n = (vq.used_index - vq.last_used) % IndexMod
  OBVIOUS
<1>2. n = 0
  <2>1. vq.used_index - vq.last_used = 0
    BY QueueSizes DEF Indices
  <2>. QED BY <1>1, <2>1, QueueSizes
<1>. DEFINE Step(q) == [q EXCEPT !.free_head = q.used[q.last_used % NumDescs],
                                 !.num_free = @ + Len(Chain(q, q.used[q.last_used % NumDescs])),
                                 !.last_used = (@ + 1) % IndexMod]
            Eq(g, m) == g = [k \in 0 .. m |-> IF k = 0 THEN vq ELSE Step(g[k - 1])]
            after(m) == CHOOSE g : Eq(g, m)
<1>3. Reclaimed(vq) = after(n)[n]
  BY <1>1 DEF Reclaimed
<1>4. Eq([k \in 0 .. 0 |-> vq], 0)
  <2>. HIDE DEF Step
  <2>. QED OBVIOUS
<1>5. Eq(after(0), 0)
  <2>. HIDE DEF Step
  <2>. QED BY <1>4
<1>6. after(0)[0] = vq
  <2>. HIDE DEF Step, after
  <2>. QED BY <1>5
<1>. QED BY <1>2, <1>3, <1>6

\* What is in two sequences one after the other.
LEMMA MembersConcat ==
    ASSUME NEW S, NEW s \in Seq(S), NEW t \in Seq(S)
    PROVE  Members(s \o t) = Members(s) \cup Members(t)
<1>1. PICK r \in Seq(S) : r = s \o t
  <2>1. s \o t \in Seq(S)
    OBVIOUS
  <2>. QED BY <2>1
<1>2. /\ Len(r) = Len(s) + Len(t) /\ Len(s) \in Nat /\ Len(t) \in Nat
      /\ \A k \in 1 .. Len(s) + Len(t) : r[k] = IF k =< Len(s) THEN s[k] ELSE t[k - Len(s)]
  BY <1>1
<1>3. \A k \in 1 .. Len(s) : k \in 1 .. Len(r) /\ r[k] = s[k]
  BY <1>2
<1>4. \A k \in 1 .. Len(t) : k + Len(s) \in 1 .. Len(r) /\ r[k + Len(s)] = t[k]
  <2>. SUFFICES ASSUME NEW k \in 1 .. Len(t)
                PROVE  k + Len(s) \in 1 .. Len(r) /\ r[k + Len(s)] = t[k]
    OBVIOUS
  <2>1. k + Len(s) \in 1 .. Len(s) + Len(t) /\ ~(k + Len(s) =< Len(s)) /\ (k + Len(s)) - Len(s) = k
    BY <1>2
  <2>. QED BY <1>2, <2>1
<1>5. \A k \in 1 .. Len(r) : \/ k \in 1 .. Len(s) /\ r[k] = s[k]
                             \/ k - Len(s) \in 1 .. Len(t) /\ r[k] = t[k - Len(s)]
  BY <1>2
<1>6. Members(r) \subseteq Members(s) \cup Members(t)
  BY <1>5 DEF Members
<1>7. Members(s) \subseteq Members(r)
  BY <1>3 DEF Members
<1>8. Members(t) \subseteq Members(r)
  BY <1>4 DEF Members
<1>. QED BY <1>1, <1>6, <1>7, <1>8

\* ds are the first n of f, and g has the others.
Split(S, f, n, ds, g) ==
    /\ ds \in Seq(S) /\ Len(ds) = n /\ Distinct(ds) /\ \A k \in 1 .. n : ds[k] = f[k]
    /\ Members(ds) \cup Members(g) = Members(f) /\ Members(ds) \cap Members(g) = {}

\* A sequence without repetitions is divided.
LEMMA MembersSplit ==
    ASSUME NEW S, NEW f \in Seq(S), Distinct(f), NEW n \in 1 .. Len(f)
    PROVE  Split(S, f, n, SubSeq(f, 1, n), SubSeq(f, n + 1, Len(f)))
<1>0. PICK ds, g : ds = SubSeq(f, 1, n) /\ g = SubSeq(f, n + 1, Len(f))
  OBVIOUS
<1>1. /\ Len(f) \in Nat /\ n \in Nat /\ n =< Len(f) /\ n > 0
      /\ ds \in Seq(S) /\ Len(ds) = n /\ \A k \in 1 .. n : ds[k] = f[k]
  BY <1>0
<1>2. g \in Seq(S) /\ Len(g) = Len(f) - n /\ \A k \in 1 .. Len(f) - n : g[k] = f[k + n]
  <2>1. PICK m : m = n + 1
    OBVIOUS
  <2>2. m \in 1 .. Len(f) + 1 /\ g = SubSeq(f, m, Len(f))
    BY <1>0, <1>1, <2>1
  <2>3. /\ g \in Seq(S) /\ Len(g) = IF m =< Len(f) THEN Len(f) - m + 1 ELSE 0
        /\ \A k \in 1 .. Len(f) - m + 1 : g[k] = f[m + k - 1]
    BY <1>1, <2>2
  <2>4. Len(f) - m + 1 = Len(f) - n /\ \A k \in 1 .. Len(f) - n : m + k - 1 = k + n
    BY <1>1, <2>1
  <2>5. Len(g) = Len(f) - n
    BY <1>1, <2>1, <2>3
  <2>6. \A k \in 1 .. Len(f) - n : g[k] = f[k + n]
    BY <2>3, <2>4
  <2>. QED BY <2>3, <2>5, <2>6
<1>3. \A k \in 1 .. n : k \in 1 .. Len(f)
  BY <1>1
<1>4. \A k \in 1 .. Len(f) - n : k + n \in 1 .. Len(f) /\ k + n > n
  BY <1>1
<1>5. \A k \in 1 .. Len(f) : \/ k \in 1 .. n /\ ds[k] = f[k]
                             \/ k - n \in 1 .. Len(f) - n /\ g[k - n] = f[k]
  <2>. SUFFICES ASSUME NEW k \in 1 .. Len(f), ~(k \in 1 .. n)
                PROVE  k - n \in 1 .. Len(f) - n /\ g[k - n] = f[k]
    BY <1>1
  <2>1. k - n \in 1 .. Len(f) - n /\ (k - n) + n = k
    BY <1>1
  <2>. QED BY <1>2, <2>1
<1>6. Distinct(ds)
  BY <1>1, <1>3 DEF Distinct
<1>7. Members(ds) \subseteq Members(f) /\ Members(g) \subseteq Members(f)
  <2>1. \A k \in 1 .. n : ds[k] \in Members(f)
    BY <1>1, <1>3 DEF Members
  <2>2. \A k \in 1 .. Len(f) - n : g[k] \in Members(f)
    BY <1>2, <1>4 DEF Members
  <2>. QED BY <1>1, <1>2, <2>1, <2>2 DEF Members
<1>8. Members(f) \subseteq Members(ds) \cup Members(g)
  <2>1. \A k \in 1 .. n : ds[k] \in Members(ds)
    BY <1>1 DEF Members
  <2>2. \A k \in 1 .. Len(f) - n : g[k] \in Members(g)
    BY <1>2 DEF Members
  <2>3. \A k \in 1 .. Len(f) : f[k] \in Members(ds) \cup Members(g)
    BY <1>5, <2>1, <2>2
  <2>. QED BY <2>3 DEF Members
<1>9. Members(ds) \cap Members(g) = {}
  <2>1. ASSUME NEW j \in 1 .. n, NEW k \in 1 .. Len(f) - n, ds[j] = g[k] PROVE FALSE
    <3>1. f[j] = f[k + n]
      BY <1>1, <1>2, <2>1
    <3>2. j = k + n
      BY <1>3, <1>4, <3>1 DEF Distinct
    <3>. QED BY <1>1, <3>2
  <2>2. Members(ds) = {ds[k] : k \in 1 .. n} /\ Members(g) = {g[k] : k \in 1 .. Len(f) - n}
    BY <1>1, <1>2 DEF Members
  <2>. QED BY <2>1, <2>2
<1>. QED BY <1>0, <1>1, <1>6, <1>7, <1>8, <1>9 DEF Split

\* p is what virtq_push gives for a chain of n descriptors.
ChainOffered(A, n, p) ==
    p.ok /\ \E g, ds : Requested(A, p.vq, g, ds) /\ Len(ds) = n /\ ds[1] = p.head

\* The driver asks.
LEMMA ChainPush ==
    ASSUME VirtqAssumption, NEW A, NEW vq, NEW f, Idle(A, vq, f),
           NEW addrs \in Seq(A), Len(addrs) > 0, Len(addrs) =< NumDescs
    PROVE  ChainOffered(A, Len(addrs), virtq_push(vq, addrs))
<1>1. /\ vq \in Queues(A) /\ FreeIs(vq, f) /\ f \in Seq(Descs) /\ Distinct(f) /\ Members(f) = Descs
      /\ Len(f) = NumDescs /\ vq.busy = {} /\ NumDescs \in Nat
      /\ RingIs(vq.avail, vq.seen, vq.avail_index, <<>>) /\ RingIs(vq.used, vq.last_used, vq.used_index, <<>>)
  BY IdleIs, QueueSizes
<1>2. PICK p : p = virtq_push(vq, addrs)
  OBVIOUS
<1>3. PICK q, n, ds, g : q = p.vq /\ n = Len(addrs) /\ ds = SubSeq(f, 1, n) /\ g = SubSeq(f, n + 1, Len(f))
  OBVIOUS
<1>4. p.ok = TRUE /\ p.head = f[1] /\ Pushed(A, vq, f, addrs, q)
  BY <1>1, <1>2, <1>3, PushIs, ZenonT(40)
<1>5. n \in 1 .. Len(f) /\ n \in 1 .. NumDescs /\ 1 \in 1 .. n /\ n \in 1 .. n
  BY <1>1, <1>3
<1>6. /\ q \in Queues(A) /\ FreeIs(q, g) /\ \A k \in 1 .. n : (q.more[f[k]] <=> k < n)
      /\ q.next = [vq.next EXCEPT ![f[n]] = 0]
      /\ q.avail = [vq.avail EXCEPT ![vq.avail_index % NumDescs] = f[1]]
      /\ q.avail_index = (vq.avail_index + 1) % IndexMod
      /\ q.used = vq.used /\ q.used_index = vq.used_index
      /\ q.last_used = vq.last_used /\ q.seen = vq.seen /\ q.busy = {}
  BY <1>1, <1>3, <1>4 DEF Pushed
<1>7. /\ ds \in Seq(Descs) /\ Len(ds) = n /\ Distinct(ds) /\ \A k \in 1 .. n : ds[k] = f[k]
      /\ Members(ds) \cup Members(g) = Descs /\ Members(ds) \cap Members(g) = {}
  <2>1. Split(Descs, f, n, ds, g)
    BY <1>1, <1>3, <1>5, MembersSplit
  <2>. QED BY <1>1, <2>1 DEF Split
<1>8. \A k \in 1 .. n - 1 : ds[k + 1] = q.next[ds[k]]
  <2>. SUFFICES ASSUME NEW k \in 1 .. n - 1 PROVE ds[k + 1] = q.next[ds[k]]
    OBVIOUS
  <2>1. k \in 1 .. n /\ k + 1 \in 1 .. n /\ k # n /\ k \in 1 .. Len(f) /\ k \in 1 .. Len(f) - 1
    BY <1>1, <1>5
  <2>2. f[k] # f[n] /\ f[k] \in Descs
    BY <1>1, <1>5, <2>1 DEF Distinct
  <2>3. vq.next \in [Descs -> Descs] /\ f[k + 1] = vq.next[f[k]]
    BY <1>1, <2>1 DEF FreeIs, Queues
  <2>. QED BY <1>6, <1>7, <2>1, <2>2, <2>3
<1>9. EndsAt(q, ds, n)
  <2>1. \A k \in 1 .. n - 1 : k \in 1 .. n /\ k < n
    BY <1>5
  <2>2. ~(n < n)
    BY <1>5
  <2>. QED BY <1>5, <1>6, <1>7, <2>1, <2>2 DEF EndsAt
<1>10. PICK d \in Descs : d = ds[1] /\ d = f[1]
  BY <1>5, <1>7
<1>11. RingIs(q.avail, q.seen, q.avail_index, <<d>>)
  <2>1. /\ <<>> \in Seq(Descs) /\ Len(<<>>) = 0 /\ Append(<<>>, d) = <<d>> /\ 0 < NumDescs
    BY ShortRings, QueueSizes
  <2>2. PICK e : e = <<>> /\ Len(e) < NumDescs /\ RingIs(vq.avail, vq.seen, vq.avail_index, e)
    BY <1>1, <2>1
  <2>3. RingIs([vq.avail EXCEPT ![vq.avail_index % NumDescs] = d], vq.seen,
               (vq.avail_index + 1) % IndexMod, Append(e, d))
    BY <2>2, RingAppend
  <2>. QED BY <1>6, <1>10, <2>1, <2>2, <2>3
<1>12. RingIs(q.used, q.last_used, q.used_index, <<>>)
  BY <1>1, <1>6
<1>13. OneChain(A, q, g, ds, <<d>>, <<>>)
  BY <1>5, <1>6, <1>7, <1>8, <1>9, <1>11, <1>12 DEF OneChain
<1>14. Requested(A, q, g, ds)
  BY <1>10, <1>13 DEF Requested
<1>. QED BY <1>2, <1>3, <1>4, <1>7, <1>10, <1>14 DEF ChainOffered

\* The driver cannot ask with more descriptors than there are.
LEMMA ChainNoRoom ==
    ASSUME VirtqAssumption, NEW A, NEW vq, NEW f, Idle(A, vq, f), NEW addrs \in Seq(A), Len(addrs) > NumDescs
    PROVE  virtq_push(vq, addrs) = [vq |-> vq, ok |-> FALSE, head |-> 0]
<1>1. vq \in Queues(A) /\ vq.num_free = NumDescs /\ RingIs(vq.used, vq.last_used, vq.used_index, <<>>)
  BY IdleIs
<1>2. PICK e : e = <<>> /\ RingIs(vq.used, vq.last_used, vq.used_index, e)
  BY <1>1
<1>3. vq.used_index = vq.last_used /\ vq.last_used \in Indices
  BY <1>1, <1>2, RingEmpty DEF Queues
<1>4. Reclaimed(vq) = vq
  BY <1>3, NothingToReclaim
<1>. QED BY <1>1, <1>4 DEF virtq_push

\* Which side has to do something.
LEMMA WhoseTurn ==
    ASSUME VirtqAssumption, NEW A, NEW vq, NEW f, NEW ds
    PROVE  /\ Requested(A, vq, f, ds) => CanTake(vq) /\ virtq_is_empty(vq)
           /\ Replied(A, vq, f, ds) => ~CanTake(vq) /\ ~virtq_is_empty(vq)
<1>1. PICK e, o : e = <<>> /\ o = <<ds[1]>> /\ o # e
  <2>1. <<ds[1]>> # <<>>
    OBVIOUS
  <2>. QED BY <2>1
<1>2. ASSUME OneChain(A, vq, f, ds, o, e) PROVE CanTake(vq) /\ virtq_is_empty(vq)
  <2>1. RingIs(vq.avail, vq.seen, vq.avail_index, o) /\ RingIs(vq.used, vq.last_used, vq.used_index, e)
    BY <1>2 DEF OneChain
  <2>2. (o = <<>> <=> vq.seen = vq.avail_index) /\ (e = <<>> <=> vq.last_used = vq.used_index)
    BY <2>1, RingEmpty
  <2>. QED BY <1>1, <2>2 DEF CanTake, virtq_is_empty
<1>3. ASSUME OneChain(A, vq, f, ds, e, o) PROVE ~CanTake(vq) /\ ~virtq_is_empty(vq)
  <2>1. RingIs(vq.avail, vq.seen, vq.avail_index, e) /\ RingIs(vq.used, vq.last_used, vq.used_index, o)
    BY <1>3 DEF OneChain
  <2>2. (e = <<>> <=> vq.seen = vq.avail_index) /\ (o = <<>> <=> vq.last_used = vq.used_index)
    BY <2>1, RingEmpty
  <2>. QED BY <1>1, <2>2 DEF CanTake, virtq_is_empty
<1>. QED BY <1>1, <1>2, <1>3 DEF Requested, Replied

\* The device answers.
LEMMA ChainDone ==
    ASSUME VirtqAssumption, NEW A, NEW vq, NEW f, NEW ds, Requested(A, vq, f, ds)
    PROVE  Replied(A, DeviceUses(DeviceTakes(vq), NextTaken(vq)), f, ds)
<1>1. PICK d : d = ds[1]
  OBVIOUS
<1>2. OneChain(A, vq, f, ds, <<d>>, <<>>) /\ d \in Descs
  <2>1. ds[1] \in Descs
    BY OneChainSound
  <2>. QED BY <1>1, <2>1 DEF Requested
<1>3. PICK e, o : /\ e = <<>> /\ o = <<d>> /\ o[1] = d /\ Tail(o) = e /\ Append(e, d) = o /\ Len(e) < NumDescs
                  /\ OneChain(A, vq, f, ds, o, e)
  <2>1. <<d>>[1] = d /\ Tail(<<d>>) = <<>> /\ Append(<<>>, d) = <<d>> /\ Len(<<>>) = 0 /\ 0 < NumDescs
    BY <1>2, ShortRings, QueueSizes
  <2>. QED BY <1>2, <2>1
<1>4. /\ vq \in Queues(A) /\ RingIs(vq.avail, vq.seen, vq.avail_index, o)
      /\ RingIs(vq.used, vq.last_used, vq.used_index, e) /\ vq.busy = {}
  BY <1>3 DEF OneChain
<1>5. NextTaken(vq) = d /\ RingIs(vq.avail, (vq.seen + 1) % IndexMod, vq.avail_index, e)
  <2>1. vq.seen # vq.avail_index
    BY WhoseTurn DEF CanTake
  <2>2. RingIs(vq.avail, vq.seen, vq.avail_index, o)
    BY <1>4
  <2>3. vq.avail[vq.seen % NumDescs] = o[1] /\ RingIs(vq.avail, (vq.seen + 1) % IndexMod, vq.avail_index, Tail(o))
    BY <2>1, <2>2, RingTail
  <2>. QED BY <1>3, <2>3 DEF NextTaken
<1>6. PICK t : t = DeviceTakes(vq)
  OBVIOUS
<1>7. /\ t \in Queues(A) /\ t.next = vq.next /\ t.more = vq.more /\ t.addr = vq.addr
      /\ t.free_head = vq.free_head /\ t.num_free = vq.num_free /\ t.avail = vq.avail
      /\ t.avail_index = vq.avail_index /\ t.used = vq.used /\ t.used_index = vq.used_index
      /\ t.last_used = vq.last_used /\ t.seen = (vq.seen + 1) % IndexMod /\ t.busy = {d}
  <2>1. t \in Queues(A) /\ t = [vq EXCEPT !.busy = vq.busy \cup {NextTaken(vq)}, !.seen = (vq.seen + 1) % IndexMod]
    BY <1>4, <1>6, TakesIs
  <2>. QED BY <1>4, <1>5, <2>1 DEF Queues
<1>8. PICK q : q = DeviceUses(t, d)
  OBVIOUS
<1>9. /\ q \in Queues(A) /\ q.next = vq.next /\ q.more = vq.more /\ q.addr = vq.addr
      /\ q.free_head = vq.free_head /\ q.num_free = vq.num_free /\ q.avail = vq.avail
      /\ q.avail_index = vq.avail_index /\ q.used = [vq.used EXCEPT ![vq.used_index % NumDescs] = d]
      /\ q.used_index = (vq.used_index + 1) % IndexMod
      /\ q.last_used = vq.last_used /\ q.seen = (vq.seen + 1) % IndexMod /\ q.busy = {}
  <2>1. q \in Queues(A) /\ q = [t EXCEPT !.busy = t.busy \ {d}, !.used[t.used_index % NumDescs] = d,
                                         !.used_index = (t.used_index + 1) % IndexMod]
    BY <1>2, <1>7, <1>8, UsesIs
  <2>. QED BY <1>7, <2>1 DEF Queues
<1>10. RingIs(q.used, q.last_used, q.used_index, o)
  <2>1. RingIs([vq.used EXCEPT ![vq.used_index % NumDescs] = d], vq.last_used,
               (vq.used_index + 1) % IndexMod, Append(e, d))
    BY <1>2, <1>3, <1>4, RingAppend
  <2>. QED BY <1>3, <1>9, <2>1
<1>11. RingIs(q.avail, q.seen, q.avail_index, e)
  BY <1>5, <1>9
<1>12. FreeIs(q, f) /\ EndsAt(q, ds, Len(ds))
  BY <1>3, <1>9 DEF OneChain, FreeIs, EndsAt
<1>13. OneChain(A, q, f, ds, e, o)
  BY <1>3, <1>9, <1>10, <1>11, <1>12 DEF OneChain
<1>. QED BY <1>1, <1>3, <1>5, <1>6, <1>8, <1>13 DEF Replied

\* r is what virtq_pop gives for the chain ds.
ChainBack(A, ds, r) ==
    r.descs = ds /\ \E f : Idle(A, r.vq, f)

\* The driver takes the answer.
LEMMA ChainPop ==
    ASSUME VirtqAssumption, NEW A, NEW vq, NEW f, NEW ds, Replied(A, vq, f, ds)
    PROVE  ChainBack(A, ds, virtq_pop(vq))
<1>1. PICK d : d = ds[1]
  OBVIOUS
<1>2. OneChain(A, vq, f, ds, <<>>, <<d>>) /\ d \in Descs
  <2>1. ds[1] \in Descs
    BY OneChainSound
  <2>. QED BY <1>1, <2>1 DEF Replied
<1>3. PICK e, o : /\ e = <<>> /\ o = <<d>> /\ o[1] = d /\ Tail(o) = e /\ Members(e) = {} /\ Distinct(e)
                  /\ OneChain(A, vq, f, ds, e, o)
  <2>1. <<d>>[1] = d /\ Tail(<<d>>) = <<>> /\ Members(<<>>) = {} /\ Len(<<>>) = 0
    BY <1>2, ShortRings
  <2>2. Distinct(<<>>)
    BY <2>1 DEF Distinct
  <2>. QED BY <1>2, <2>1, <2>2
<1>4. /\ vq \in Queues(A) /\ FreeIs(vq, f) /\ f \in Seq(Descs) /\ ds \in Seq(Descs) /\ vq.busy = {}
      /\ RingIs(vq.avail, vq.seen, vq.avail_index, e) /\ RingIs(vq.used, vq.last_used, vq.used_index, o)
      /\ Members(ds) \cap Members(f) = {} /\ Members(ds) \cup Members(f) = Descs
  BY <1>3 DEF OneChain, FreeIs
<1>5. /\ vq.used[vq.last_used % NumDescs] = d /\ RingIs(vq.used, (vq.last_used + 1) % IndexMod, vq.used_index, e)
  <2>1. vq.last_used # vq.used_index
    BY WhoseTurn DEF virtq_is_empty
  <2>2. RingIs(vq.used, vq.last_used, vq.used_index, o)
    BY <1>4
  <2>3. vq.used[vq.last_used % NumDescs] = o[1] /\ RingIs(vq.used, (vq.last_used + 1) % IndexMod, vq.used_index, Tail(o))
    BY <2>1, <2>2, RingTail
  <2>. QED BY <1>3, <2>3
<1>6. UsedChain(vq, f, ds)
  <2>1. \A j \in 1 .. Len(ds), k \in 1 .. Len(f) : ds[j] # f[k]
    BY <1>4 DEF Members
  <2>. QED BY <1>1, <1>3, <1>5, <2>1 DEF UsedChain, OneChain
<1>7. PICK r : r = virtq_pop(vq)
  OBVIOUS
<1>8. r.descs = ds /\ Popped(A, vq, f, ds, r.vq)
  BY <1>4, <1>6, <1>7, PopIs
<1>9. PICK q, g : q = r.vq /\ g = ds \o f
  OBVIOUS
<1>10. /\ q \in Queues(A) /\ FreeIs(q, g) /\ q.busy = {}
       /\ RingIs(q.avail, q.seen, q.avail_index, e) /\ RingIs(q.used, q.last_used, q.used_index, e)
  BY <1>4, <1>5, <1>8, <1>9 DEF Popped
<1>11. Members(g) = Descs
  <2>1. Members(ds \o f) = Members(ds) \cup Members(f)
    BY <1>4, MembersConcat
  <2>. QED BY <1>4, <1>9, <2>1
<1>12. SimpleQueue(A, q, g, e, e)
  BY <1>3, <1>10, <1>11 DEF SimpleQueue
<1>13. Idle(A, q, g)
  BY <1>3, <1>10, <1>12 DEF Idle
<1>. QED BY <1>7, <1>8, <1>9, <1>13 DEF ChainBack

\* virtq_init
LEMMA NewIdle ==
    ASSUME VirtqAssumption, NEW A, 0 \in A
    PROVE  Idle(A, NewQueue, AllDescs)
  BY SimpleNew DEF Idle

-----------------------------------------------------------------------------
(* Sending.                                                                *)

\* The descriptors whose packet is not on the wire yet, in the rings of f, s, u.
Unsent(s) == Members(s) \cup tx.busy

\* The queue for sending has the free list f and the rings s and u.  A buffer is used exactly
\* when a descriptor under way has its address.  What is not on the wire yet has been taken, and
\* is in one buffer.
TxInv(f, s, u) ==
    /\ SimpleQueue(0 .. NumTx, tx, f, s, u)
    /\ \A d \in Heads(tx) : tx.addr[d] \in tx_used
    /\ \A b \in tx_used : \E d \in Heads(tx) : tx.addr[d] = b
    /\ \A d, e \in Heads(tx) : tx.addr[d] = tx.addr[e] => d = e
    /\ \A d \in Unsent(s) : /\ tx_buf[tx.addr[d]] \in ToSet(accepted)
                            /\ tx_buf[tx.addr[d]] \notin ToSet(wire)
    /\ \A d, e \in Unsent(s) : tx_buf[tx.addr[d]] = tx_buf[tx.addr[e]] => d = e

\* The packets, and the buffers for sending.
TxTypes ==
    /\ sent \in 0 .. MaxSend /\ tx_used \in SUBSET (1 .. NumTx) /\ tx_buf \in [1 .. NumTx -> 0 .. MaxSend]
    /\ accepted \in Seq(1 .. sent) /\ wire \in Seq(1 .. sent)
    /\ SentOnce /\ kicked \in BOOLEAN

\* Both.
Sending == TxTypes /\ \E f, s, u : TxInv(f, s, u)

\* What a step that does not send leaves alone.
TxVars == <<tx, tx_used, tx_buf, sent, accepted, wire>>

\* What is unsent is under way.
LEMMA UnsentUnderWay ==
    ASSUME VirtqAssumption, NEW f, NEW s, NEW u, TxInv(f, s, u)
    PROVE  Unsent(s) \subseteq Heads(tx) /\ \A d \in Heads(tx) : d \in Descs /\ tx.addr[d] \in tx_used
<1>1. Heads(tx) = Members(s) \cup tx.busy \cup Members(u) /\ Heads(tx) = Descs \ Members(f)
  BY SimpleHeads DEF TxInv
<1>. QED BY <1>1 DEF TxInv, Unsent

\* With a buffer that is not used, a descriptor is free.
LEMMA RoomToSend ==
    ASSUME VirtqAssumption, NetAssumption, NumTx =< NumDescs, TxTypes,
           NEW f, NEW s, NEW u, TxInv(f, s, u), NEW b \in (1 .. NumTx) \ tx_used
    PROVE  f # <<>>
<1>. SUFFICES ASSUME f = <<>> PROVE FALSE
  OBVIOUS
<1>0. NumTx \in Nat /\ NumDescs \in Nat /\ tx.addr \in [Descs -> 0 .. NumTx]
  BY QueueSizes DEF NetAssumption, TxInv, SimpleQueue, Queues
<1>1. Members(f) = {}
  <2>1. Len(<<>>) = 0
    OBVIOUS
  <2>. QED BY <2>1 DEF Members
<1>2. Heads(tx) = Descs
  <2>1. SimpleQueue(0 .. NumTx, tx, f, s, u)
    BY DEF TxInv
  <2>2. Heads(tx) = Descs \ Members(f)
    BY <2>1, SimpleHeads, Zenon
  <2>. QED BY <1>1, <2>2
<1>. DEFINE B == (1 .. NumTx) \ {b}
            g == [d \in Descs |-> tx.addr[d]]
<1>3. IsFiniteSet(1 .. NumTx) /\ Cardinality(1 .. NumTx) = NumTx
  BY <1>0, FS_Interval
<1>4. IsFiniteSet(B) /\ Cardinality(B) = NumTx - 1
  BY <1>3, FS_RemoveElement
<1>5. g \in Injection(Descs, B)
  <2>1. \A d \in Descs : tx.addr[d] \in B
    <3>1. \A d \in Descs : tx.addr[d] \in tx_used
      BY <1>2 DEF TxInv
    <3>2. tx_used \subseteq B
      BY DEF TxTypes
    <3>. QED BY <3>1, <3>2
  <2>2. \A d, e \in Descs : tx.addr[d] = tx.addr[e] => d = e
    BY <1>2 DEF TxInv
  <2>. QED BY <2>1, <2>2 DEF Injection, IsInjective
<1>. HIDE DEF g, B
<1>6. Cardinality(Descs) =< Cardinality(B)
  BY <1>4, <1>5, FS_Injection
<1>. QED BY <1>0, <1>4, <1>6, DescsCount

\* dmabuf_alloc gives a buffer that is not used, if there is one.
LEMMA AllocIs ==
    ASSUME NetAssumption, TxTypes
    PROVE  \/ dmabuf_alloc.b = 0 /\ dmabuf_alloc.used = tx_used
           \/ dmabuf_alloc.b \in (1 .. NumTx) \ tx_used /\ dmabuf_alloc.used = tx_used \cup {dmabuf_alloc.b}
<1>. DEFINE free == (1 .. NumTx) \ tx_used
<1>1. CASE free = {}
  BY <1>1 DEF dmabuf_alloc
<1>2. CASE free # {}
  <2>1. free \in SUBSET Nat
    BY DEF NetAssumption
  <2>2. \E x \in free : \A y \in free : x =< y
    BY <1>2, <2>1, LeastExists
  <2>3. Min(free) \in free
    BY <2>2 DEF Min
  <2>4. dmabuf_alloc = [b |-> Min(free), used |-> tx_used \cup {Min(free)}]
    BY <1>2 DEF dmabuf_alloc
  <2>. QED BY <2>3, <2>4
<1>. QED BY <1>1, <1>2

\* The packets of a longer history.
LEMMA AppendSet ==
    ASSUME NEW S, NEW q \in Seq(S), NEW x \in S
    PROVE  /\ Append(q, x) \in Seq(S) /\ ToSet(Append(q, x)) = ToSet(q) \cup {x}
           /\ IsInjective(q) /\ x \notin ToSet(q) => IsInjective(Append(q, x))
<1>1. /\ Append(q, x) \in Seq(S) /\ Len(q) \in Nat /\ DOMAIN q = 1 .. Len(q)
      /\ DOMAIN Append(q, x) = 1 .. Len(q) + 1 /\ Append(q, x)[Len(q) + 1] = x
      /\ \A k \in 1 .. Len(q) : Append(q, x)[k] = q[k]
  OBVIOUS
<1>2. \A k \in 1 .. Len(q) + 1 : k = Len(q) + 1 \/ k \in 1 .. Len(q)
  BY <1>1
<1>3. Len(q) + 1 \in 1 .. Len(q) + 1 /\ \A k \in 1 .. Len(q) : k \in 1 .. Len(q) + 1
  BY <1>1
<1>4. ToSet(Append(q, x)) = ToSet(q) \cup {x}
  <2>1. PICK r : r = Append(q, x)
    OBVIOUS
  <2>2. ToSet(r) \subseteq ToSet(q) \cup {x}
    BY <1>1, <1>2, <2>1 DEF ToSet
  <2>3. ToSet(q) \cup {x} \subseteq ToSet(r)
    <3>1. \A k \in 1 .. Len(q) : r[k] \in ToSet(r)
      BY <1>1, <1>3, <2>1 DEF ToSet
    <3>2. r[Len(q) + 1] \in ToSet(r)
      BY <1>1, <1>3, <2>1 DEF ToSet
    <3>. QED BY <1>1, <2>1, <3>1, <3>2 DEF ToSet
  <2>. QED BY <2>1, <2>2, <2>3
<1>5. IsInjective(q) /\ x \notin ToSet(q) => IsInjective(Append(q, x))
  BY <1>1, <1>2 DEF ToSet, IsInjective
<1>. QED BY <1>1, <1>4, <1>5

\* A step that does not send.
LEMMA SendingKept ==
    ASSUME Sending, UNCHANGED TxVars, kicked' \in BOOLEAN
    PROVE  Sending'
  BY DEF Sending, TxVars, TxTypes, TxInv, Unsent, SentOnce

\* The packets grow in number.
LEMMA MorePackets ==
    ASSUME NEW n \in Nat, NEW q \in Seq(1 .. n)
    PROVE  q \in Seq(1 .. n + 1) /\ (\A x \in ToSet(q) : x \in 1 .. n)
<1>1. \A x \in 1 .. n : x \in 1 .. n + 1
  OBVIOUS
<1>2. Len(q) \in Nat /\ q \in [1 .. Len(q) -> 1 .. n] /\ \A k \in 1 .. Len(q) : q[k] \in 1 .. n
  OBVIOUS
<1>3. q \in [1 .. Len(q) -> 1 .. n + 1]
  BY <1>1, <1>2
<1>. QED BY <1>2, <1>3 DEF ToSet

\* transmit with a buffer: a descriptor gets it, with a packet that was never sent.
LEMMA SendingOffers ==
    ASSUME VirtqAssumption, NetAssumption, NumTx =< NumDescs, TxTypes,
           NEW f, NEW s, NEW u, TxInv(f, s, u), NEW b \in (1 .. NumTx) \ tx_used, sent < MaxSend,
           sent' = sent + 1, tx' = virtq_push(tx, <<b>>).vq, tx_used' = tx_used \cup {b},
           tx_buf' = [tx_buf EXCEPT ![b] = sent'], accepted' = Append(accepted, sent'), wire' = wire,
           kicked' \in BOOLEAN
    PROVE  Sending'
<1>. DEFINE d == f[1]
            t == Append(s, d)
<1>0. /\ sent \in Nat /\ sent + 1 \in 1 .. sent + 1 /\ sent + 1 \in 0 .. MaxSend /\ b \in 1 .. NumTx /\ b \notin tx_used
      /\ b \in 0 .. NumTx /\ tx_buf \in [1 .. NumTx -> 0 .. MaxSend] /\ tx_used \in SUBSET (1 .. NumTx)
      /\ accepted \in Seq(1 .. sent) /\ wire \in Seq(1 .. sent)
  BY DEF TxTypes, NetAssumption
<1>1. /\ accepted \in Seq(1 .. sent + 1) /\ wire \in Seq(1 .. sent + 1)
      /\ sent + 1 \notin ToSet(accepted) /\ sent + 1 \notin ToSet(wire)
  <2>1. sent + 1 \notin 1 .. sent
    BY <1>0
  <2>. QED BY <1>0, <2>1, MorePackets
<1>2. accepted' \in Seq(1 .. sent + 1) /\ ToSet(accepted') = ToSet(accepted) \cup {sent + 1}
  BY <1>0, <1>1, AppendSet
<1>3. TxTypes'
  <2>1. SentOnce'
    BY <1>2 DEF TxTypes, SentOnce
  <2>. QED BY <1>0, <1>1, <1>2, <2>1 DEF TxTypes
<1>4. SimpleQueue(0 .. NumTx, tx, f, s, u) /\ f # <<>>
  BY RoomToSend DEF TxInv
<1>5. /\ d \in Descs /\ d \notin Heads(tx) /\ SimpleQueue(0 .. NumTx, tx', Tail(f), t, u)
      /\ Heads(tx') = Heads(tx) \cup {d} /\ tx'.addr[d] = b
      /\ \A e \in Descs \ {d} : tx'.addr[e] = tx.addr[e]
      /\ tx'.busy = tx.busy
  <2>1. Offered(0 .. NumTx, tx, f, s, u, b, virtq_push(tx, <<b>>))
    BY <1>0, <1>4, SimplePush
  <2>. QED BY <2>1 DEF Offered
<1>6. Unsent(s) \subseteq Heads(tx) /\ \A e \in Heads(tx) : e \in Descs /\ tx.addr[e] \in tx_used
  BY UnsentUnderWay
<1>7. Unsent(t)' = Unsent(s) \cup {d}
  <2>1. s \in Seq(Descs) /\ Distinct(s)
    BY <1>4 DEF SimpleQueue, RingIs
  <2>2. d \notin Members(s)
    BY <1>5, <1>6 DEF Unsent
  <2>3. Members(t) = Members(s) \cup {d}
    BY <1>5, <2>1, <2>2, MembersAppend
  <2>. QED BY <1>5, <2>3 DEF Unsent
<1>. HIDE DEF d, t
<1>8. \A e \in Heads(tx) : e # d /\ tx'.addr[e] = tx.addr[e] /\ tx.addr[e] \in tx_used /\ tx.addr[e] # b
  BY <1>0, <1>5, <1>6
<1>9. tx_buf'[b] = sent + 1 /\ \A e \in Heads(tx) : tx_buf'[tx'.addr[e]] = tx_buf[tx.addr[e]]
  BY <1>0, <1>8
<1>10. TxInv(Tail(f), t, u)'
  <2>1. \A e \in Heads(tx') : tx'.addr[e] \in tx_used'
    BY <1>5, <1>8
  <2>2. \A x \in tx_used' : \E e \in Heads(tx') : tx'.addr[e] = x
    <3>1. \A x \in tx_used : \E e \in Heads(tx) : tx.addr[e] = x
      BY DEF TxInv
    <3>. QED BY <1>5, <1>8, <3>1
  <2>3. \A e, g \in Heads(tx') : tx'.addr[e] = tx'.addr[g] => e = g
    <3>1. \A e, g \in Heads(tx) : tx.addr[e] = tx.addr[g] => e = g
      BY DEF TxInv
    <3>. QED BY <1>5, <1>8, <3>1
  <2>4. \A e \in Unsent(t)' : tx_buf'[tx'.addr[e]] \in ToSet(accepted') /\ tx_buf'[tx'.addr[e]] \notin ToSet(wire')
    <3>1. \A e \in Unsent(s) : tx_buf[tx.addr[e]] \in ToSet(accepted) /\ tx_buf[tx.addr[e]] \notin ToSet(wire)
      BY DEF TxInv
    <3>. QED BY <1>1, <1>2, <1>5, <1>6, <1>7, <1>9, <3>1, SMTT(30)
  <2>5. \A e, g \in Unsent(t)' : tx_buf'[tx'.addr[e]] = tx_buf'[tx'.addr[g]] => e = g
    <3>1. \A e, g \in Unsent(s) : tx_buf[tx.addr[e]] = tx_buf[tx.addr[g]] => e = g
      BY DEF TxInv
    <3>2. \A e \in Unsent(s) : tx_buf'[tx'.addr[e]] # sent + 1 /\ tx_buf'[tx'.addr[e]] = tx_buf[tx.addr[e]]
      BY <1>1, <1>6, <1>9 DEF TxInv
    <3>. QED BY <1>5, <1>7, <1>9, <3>1, <3>2
  <2>. QED BY <1>5, <2>1, <2>2, <2>3, <2>4, <2>5 DEF TxInv
<1>. QED BY <1>3, <1>10 DEF Sending

\* transmit
LEMMA SendingTransmit ==
    ASSUME VirtqAssumption, NetAssumption, NumTx =< NumDescs, Sending, transmit
    PROVE  Sending'
<1>. DEFINE b == dmabuf_alloc.b
            p == virtq_push(tx, <<b>>)
<1>1. TxTypes
  BY DEF Sending
<1>2. PICK f, s, u : TxInv(f, s, u)
  BY DEF Sending
<1>3. /\ sent < MaxSend /\ sent' = sent + 1 /\ tx_used' = dmabuf_alloc.used /\ wire' = wire
      /\ \/ b = 0 /\ UNCHANGED <<tx, tx_buf, kicked, accepted>>
         \/ /\ b # 0 /\ tx' = p.vq /\ tx_buf' = [tx_buf EXCEPT ![b] = sent'] /\ virtq_notify(p.ok)
            /\ accepted' = IF p.ok THEN Append(accepted, sent') ELSE accepted
  BY DEF transmit
<1>. HIDE DEF p
<1>4. CASE b = 0
  <2>1. tx_used' = tx_used /\ UNCHANGED <<tx, tx_buf, kicked, accepted>>
    BY <1>1, <1>3, <1>4, AllocIs
  <2>2. TxInv(f, s, u)'
    BY <1>2, <1>3, <2>1 DEF TxInv, Unsent
  <2>3. TxTypes'
    <3>1. sent \in Nat /\ sent + 1 \in 0 .. MaxSend
      BY <1>1, <1>3 DEF TxTypes, NetAssumption
    <3>2. accepted \in Seq(1 .. sent + 1) /\ wire \in Seq(1 .. sent + 1)
      BY <1>1, <3>1, MorePackets DEF TxTypes
    <3>3. SentOnce'
      BY <1>1, <1>3, <2>1 DEF TxTypes, SentOnce
    <3>. QED BY <1>1, <1>3, <2>1, <3>1, <3>2, <3>3 DEF TxTypes
  <2>. QED BY <2>2, <2>3 DEF Sending
<1>5. CASE b # 0
  <2>1. b \in (1 .. NumTx) \ tx_used /\ tx_used' = tx_used \cup {b}
    BY <1>1, <1>3, <1>5, AllocIs
  <2>2. f # <<>> /\ SimpleQueue(0 .. NumTx, tx, f, s, u) /\ b \in 0 .. NumTx
    BY <1>1, <1>2, <2>1, RoomToSend DEF TxInv, NetAssumption
  <2>3. p.ok
    <3>1. Offered(0 .. NumTx, tx, f, s, u, b, p)
      <4>. HIDE DEF b
      <4>. QED BY <2>2, SimplePush DEF p
    <3>. QED BY <3>1 DEF Offered
  <2>4. tx' = virtq_push(tx, <<b>>).vq /\ accepted' = Append(accepted, sent') /\ kicked' \in BOOLEAN
    BY <1>3, <1>5, <2>3 DEF p, virtq_notify
  <2>. HIDE DEF b
  <2>. QED BY <1>1, <1>2, <1>3, <1>5, <2>1, <2>4, SendingOffers
<1>. QED BY <1>4, <1>5

\* irq_handler takes back what has been sent.
LEMMA SendingTakesBack ==
    ASSUME VirtqAssumption, Sending, ~virtq_is_empty(tx), tx' = virtq_pop(tx).vq,
           tx_used' = TxFreed(virtq_pop(tx).addrs[1]), UNCHANGED <<tx_buf, sent, accepted, wire, kicked>>
    PROVE  Sending'
<1>1. TxTypes
  BY DEF Sending
<1>2. PICK f, s, u : TxInv(f, s, u)
  BY DEF Sending
<1>3. SimpleQueue(0 .. NumTx, tx, f, s, u)
  BY <1>2 DEF TxInv
<1>4. TakenBack(0 .. NumTx, tx, f, s, u, virtq_pop(tx))
  BY <1>3, SimplePop
<1>5. PICK d : d = u[1]
  OBVIOUS
<1>6. /\ d \in Heads(tx) /\ d \in Descs /\ SimpleQueue(0 .. NumTx, tx', <<d>> \o f, s, Tail(u))
      /\ Heads(tx') = Heads(tx) \ {d} /\ tx'.addr = tx.addr /\ tx'.busy = tx.busy
      /\ tx_used' = tx_used \ {tx.addr[d]}
  BY <1>4, <1>5 DEF TakenBack, TxFreed
<1>7. Unsent(s)' = Unsent(s) /\ Unsent(s) \subseteq Heads(tx)
  BY <1>2, <1>6, UnsentUnderWay DEF Unsent
<1>8. TxInv(<<d>> \o f, s, Tail(u))'
  <2>1. \A e, g \in Heads(tx) : tx.addr[e] = tx.addr[g] => e = g
    BY <1>2 DEF TxInv
  <2>2. \A e \in Heads(tx') : tx'.addr[e] \in tx_used'
    BY <1>2, <1>6, <2>1 DEF TxInv
  <2>3. \A b \in tx_used' : \E e \in Heads(tx') : tx'.addr[e] = b
    BY <1>2, <1>6 DEF TxInv
  <2>. QED BY <1>2, <1>6, <1>7, <2>1, <2>2, <2>3 DEF TxInv
<1>9. TxTypes'
  BY <1>1, <1>6 DEF TxTypes, SentOnce
<1>. QED BY <1>8, <1>9 DEF Sending

\* The card takes a packet to send.
LEMMA SendingTakes ==
    ASSUME VirtqAssumption, Sending, CanTake(tx), tx' = DeviceTakes(tx),
           UNCHANGED <<tx_used, tx_buf, sent, accepted, wire, kicked>>
    PROVE  Sending'
<1>1. TxTypes
  BY DEF Sending
<1>2. PICK f, s, u : TxInv(f, s, u)
  BY DEF Sending
<1>3. SimpleQueue(0 .. NumTx, tx, f, s, u)
  BY <1>2 DEF TxInv
<1>4. Started(0 .. NumTx, tx, f, s, u, tx')
  BY <1>3, SimpleTake
<1>5. /\ SimpleQueue(0 .. NumTx, tx', f, Tail(s), u)
      /\ Heads(tx') = Heads(tx) /\ tx'.addr = tx.addr /\ tx'.busy = tx.busy \cup {s[1]} /\ s # <<>>
  BY <1>4 DEF Started
<1>6. Unsent(Tail(s))' = Unsent(s)
  <2>1. s \in Seq(Descs) /\ Distinct(s)
    BY <1>3 DEF SimpleQueue, RingIs
  <2>2. Members(Tail(s)) = Members(s) \ {s[1]} /\ s[1] \in Members(s)
    BY <1>5, <2>1, MembersTail
  <2>. QED BY <1>5, <2>2 DEF Unsent
<1>7. TxInv(f, Tail(s), u)'
  BY <1>2, <1>5, <1>6 DEF TxInv
<1>8. TxTypes'
  BY <1>1 DEF TxTypes, SentOnce
<1>. QED BY <1>7, <1>8 DEF Sending

\* The card puts a packet on the wire.
LEMMA SendingSends ==
    ASSUME VirtqAssumption, Sending, NEW d \in tx.busy, tx' = DeviceUses(tx, d),
           wire' = Append(wire, tx_buf[tx.addr[d]]), UNCHANGED <<tx_used, tx_buf, sent, accepted, kicked>>
    PROVE  Sending'
<1>1. TxTypes
  BY DEF Sending
<1>2. PICK f, s, u : TxInv(f, s, u)
  BY DEF Sending
<1>3. SimpleQueue(0 .. NumTx, tx, f, s, u)
  BY <1>2 DEF TxInv
<1>4. Ended(0 .. NumTx, tx, f, s, u, d, tx')
  BY <1>3, SimpleUse
<1>5. /\ SimpleQueue(0 .. NumTx, tx', f, s, Append(u, d))
      /\ Heads(tx') = Heads(tx) /\ tx'.addr = tx.addr /\ tx'.busy = tx.busy \ {d}
  BY <1>4 DEF Ended
<1>6. PICK x : x = tx_buf[tx.addr[d]]
  OBVIOUS
<1>7. d \in Unsent(s) /\ x \in ToSet(accepted) /\ x \notin ToSet(wire)
  BY <1>2, <1>6 DEF TxInv, Unsent
<1>8. accepted \in Seq(1 .. sent) /\ wire \in Seq(1 .. sent) /\ sent \in Nat /\ SentOnce
  BY <1>1 DEF TxTypes
<1>9. x \in 1 .. sent
  BY <1>7, <1>8, MorePackets
<1>10. wire' \in Seq(1 .. sent) /\ ToSet(wire') = ToSet(wire) \cup {x} /\ IsInjective(wire')
  BY <1>6, <1>7, <1>8, <1>9, AppendSet DEF SentOnce
<1>11. TxTypes'
  <2>1. SentOnce'
    BY <1>7, <1>8, <1>10 DEF SentOnce
  <2>. QED BY <1>1, <1>10, <2>1 DEF TxTypes
<1>12. Unsent(s)' = Unsent(s) \ {d}
  BY <1>3, <1>5 DEF Unsent, SimpleQueue
<1>13. TxInv(f, s, Append(u, d))'
  <2>1. \A e \in Unsent(s)' : tx_buf'[tx'.addr[e]] \in ToSet(accepted') /\ tx_buf'[tx'.addr[e]] \notin ToSet(wire')
    BY <1>2, <1>5, <1>6, <1>7, <1>10, <1>12 DEF TxInv
  <2>. QED BY <1>2, <1>5, <1>12, <2>1 DEF TxInv
<1>. QED BY <1>11, <1>13 DEF Sending
-----------------------------------------------------------------------------
(* Receiving.                                                              *)

\* The packet in the buffer of a descriptor.
Got(d) == rx_buf[rx.addr[d]]

\* The queue for receiving has the free list f and the rings s and u.  The card does not keep a
\* descriptor; every buffer but the one that is popped is at one descriptor.  What has been used
\* is in order, after all that has been delivered.
RxInv(f, s, u) ==
    /\ SimpleQueue(0 .. NumRx, rx, f, s, u) /\ rx.busy = {}
    /\ \A d \in Heads(rx) : rx.addr[d] \in (1 .. NumRx) \ {popped}
    /\ \A b \in (1 .. NumRx) \ {popped} : \E d \in Heads(rx) : rx.addr[d] = b
    /\ \A d, e \in Heads(rx) : rx.addr[d] = rx.addr[e] => d = e
    /\ pc = "rx_push" => f # <<>>
    /\ \A j, k \in 1 .. Len(u) : j < k => Got(u[j]) < Got(u[k])
    /\ \A k \in 1 .. Len(u) : Got(u[k]) =< arrived
    /\ \A k \in 1 .. Len(u), i \in 1 .. Len(delivered) : delivered[i] < Got(u[k])

\* The packets, the driver and the buffers for receiving.
RxTypes ==
    /\ arrived \in 0 .. MaxArrive /\ rx_buf \in [1 .. NumRx -> 0 .. MaxArrive]
    /\ pc \in {"recv", "tx_loop", "rx_loop", "rx_push"}
    /\ IF pc = "rx_push" THEN popped \in 1 .. NumRx ELSE popped = 0
    /\ delivered \in Seq(0 .. arrived) /\ InOrder

\* Both.
Receiving == RxTypes /\ \E f, s, u : RxInv(f, s, u)

\* What a step that does not receive leaves alone.
RxVars == <<rx, rx_buf, popped, arrived, delivered>>

\* A step that does not receive.
LEMMA ReceivingKept ==
    ASSUME Receiving, UNCHANGED RxVars, pc' \in {"recv", "tx_loop", "rx_loop", "rx_push"},
           pc = "rx_push" <=> pc' = "rx_push"
    PROVE  Receiving'
  BY DEF Receiving, RxVars, RxTypes, RxInv, Got, InOrder

\* irq_handler takes a packet; what is used after it is later.
LEMMA ReceivingPops ==
    ASSUME VirtqAssumption, NetAssumption, Receiving, pc = "rx_loop", ~virtq_is_empty(rx),
           rx' = virtq_pop(rx).vq, popped' = virtq_pop(rx).addrs[1], pc' = "rx_push",
           delivered' \in {delivered, Append(delivered, rx_buf[virtq_pop(rx).addrs[1]])},
           UNCHANGED <<rx_buf, arrived>>
    PROVE  Receiving'
<1>1. RxTypes
  BY DEF Receiving
<1>2. PICK f, s, u : RxInv(f, s, u)
  BY DEF Receiving
<1>3. SimpleQueue(0 .. NumRx, rx, f, s, u)
  BY <1>2 DEF RxInv
<1>4. TakenBack(0 .. NumRx, rx, f, s, u, virtq_pop(rx))
  BY <1>3, SimplePop
<1>5. PICK d : d = u[1]
  OBVIOUS
<1>6. /\ u # <<>> /\ d \in Heads(rx) /\ d \in Descs /\ SimpleQueue(0 .. NumRx, rx', <<d>> \o f, s, Tail(u))
      /\ Heads(rx') = Heads(rx) \ {d} /\ rx'.addr = rx.addr /\ rx'.busy = rx.busy
      /\ popped' = rx.addr[d] /\ delivered' \in {delivered, Append(delivered, Got(d))}
  BY <1>4, <1>5 DEF TakenBack, Got
<1>7. /\ popped = 0 /\ NumRx \in Nat /\ arrived \in Nat /\ rx_buf \in [1 .. NumRx -> 0 .. MaxArrive]
      /\ delivered \in Seq(0 .. arrived) /\ MaxArrive \in Nat
      /\ \A i, j \in 1 .. Len(delivered) : i < j => delivered[i] < delivered[j]
  BY <1>1 DEF RxTypes, InOrder, NetAssumption
<1>8. \A e \in Heads(rx) : rx.addr[e] \in 1 .. NumRx /\ Got(e) \in Nat
  BY <1>2, <1>7 DEF RxInv, Got
<1>9. \A e : Got(e)' = Got(e)
  BY <1>6 DEF Got
<1>10. /\ Len(u) \in Nat /\ Len(u) > 0 /\ Len(Tail(u)) = Len(u) - 1 /\ u \in Seq(Descs)
       /\ \A k \in 1 .. Len(u) - 1 : Tail(u)[k] = u[k + 1]
  <2>1. u \in Seq(Descs)
    BY <1>3 DEF SimpleQueue, RingIs
  <2>. QED BY <1>6, <2>1
<1>11. \A k \in 1 .. Len(u) - 1 : k + 1 \in 1 .. Len(u) /\ 1 \in 1 .. Len(u) /\ 1 < k + 1
  BY <1>10
<1>12. Got(d) \in 0 .. arrived
  <2>1. 1 \in 1 .. Len(u)
    BY <1>10
  <2>. QED BY <1>2, <1>5, <1>6, <1>7, <1>8, <2>1 DEF RxInv
<1>13. \A k \in 1 .. Len(u) - 1 : Got(d) < Got(u[k + 1])
  BY <1>2, <1>5, <1>11 DEF RxInv
<1>14. \A i \in 1 .. Len(delivered) : delivered[i] < Got(d)
  <2>1. 1 \in 1 .. Len(u)
    BY <1>10
  <2>. QED BY <1>2, <1>5, <2>1 DEF RxInv
<1>15. /\ delivered' \in Seq(0 .. arrived)
       /\ \A i \in 1 .. Len(delivered') : \/ i \in 1 .. Len(delivered) /\ delivered'[i] = delivered[i]
                                          \/ i = Len(delivered) + 1 /\ delivered'[i] = Got(d)
  <2>1. CASE delivered' = delivered
    BY <1>7, <2>1
  <2>2. CASE delivered' = Append(delivered, Got(d))
    BY <1>7, <1>12, <2>2
  <2>. QED BY <1>6, <2>1, <2>2
<1>16. RxTypes'
  <2>1. InOrder'
    <3>1. \A i \in 1 .. Len(delivered) : i \in Nat /\ i < Len(delivered) + 1
      BY <1>7
    <3>2. Len(delivered) \in Nat
      BY <1>7
    <3>. SUFFICES ASSUME NEW i \in 1 .. Len(delivered'), NEW j \in 1 .. Len(delivered'), i < j
                  PROVE  delivered'[i] < delivered'[j]
      BY DEF InOrder
    <3>3. CASE j \in 1 .. Len(delivered) /\ delivered'[j] = delivered[j]
      <4>1. i \in 1 .. Len(delivered) /\ delivered'[i] = delivered[i]
        BY <1>15, <3>1, <3>2, <3>3
      <4>. QED BY <1>7, <3>3, <4>1
    <3>4. CASE j = Len(delivered) + 1 /\ delivered'[j] = Got(d)
      <4>1. i \in 1 .. Len(delivered) /\ delivered'[i] = delivered[i]
        BY <1>15, <3>2, <3>4
      <4>. QED BY <1>14, <3>4, <4>1
    <3>. QED BY <1>15, <3>3, <3>4
  <2>2. popped' \in 1 .. NumRx
    BY <1>6, <1>8
  <2>. QED BY <1>1, <1>15, <2>1, <2>2 DEF RxTypes
<1>17. RxInv(<<d>> \o f, s, Tail(u))'
  <2>1. \A e, g \in Heads(rx) : rx.addr[e] = rx.addr[g] => e = g
    BY <1>2 DEF RxInv
  <2>2. \A e \in Heads(rx') : rx'.addr[e] \in (1 .. NumRx) \ {popped'}
    BY <1>6, <1>8, <2>1
  <2>3. \A b \in (1 .. NumRx) \ {popped'} : \E e \in Heads(rx') : rx'.addr[e] = b
    <3>1. \A b \in 1 .. NumRx : \E e \in Heads(rx) : rx.addr[e] = b
      <4>1. \A b \in 1 .. NumRx : b \in (1 .. NumRx) \ {popped}
        BY <1>7
      <4>. QED BY <1>2, <4>1 DEF RxInv
    <3>. QED BY <1>6, <3>1
  <2>4. <<d>> \o f # <<>>
    <3>1. f \in Seq(Descs)
      BY <1>3 DEF SimpleQueue, FreeIs
    <3>2. PICK e \in Seq(Descs) : e = <<d>> /\ Len(e) = 1
      <4>1. <<d>> \in Seq(Descs) /\ Len(<<d>>) = 1
        BY <1>6
      <4>. QED BY <4>1
    <3>3. e \o f \in Seq(Descs) /\ Len(e \o f) = 1 + Len(f) /\ Len(f) \in Nat
      BY <3>1, <3>2
    <3>4. e \o f # <<>>
      BY <3>3
    <3>. QED BY <3>2, <3>4
  <2>5. \A j, k \in 1 .. Len(Tail(u)) : j < k => Got(Tail(u)[j])' < Got(Tail(u)[k])'
    <3>. SUFFICES ASSUME NEW j \in 1 .. Len(Tail(u)), NEW k \in 1 .. Len(Tail(u)), j < k
                  PROVE  Got(Tail(u)[j])' < Got(Tail(u)[k])'
      OBVIOUS
    <3>1. j + 1 \in 1 .. Len(u) /\ k + 1 \in 1 .. Len(u) /\ j + 1 < k + 1 /\ Tail(u)[j] = u[j + 1] /\ Tail(u)[k] = u[k + 1]
      BY <1>10, <1>11
    <3>2. Got(u[j + 1]) < Got(u[k + 1])
      BY <1>2, <3>1 DEF RxInv
    <3>. QED BY <1>9, <3>1, <3>2
  <2>6. \A k \in 1 .. Len(Tail(u)) : Got(Tail(u)[k])' =< arrived'
    BY <1>2, <1>9, <1>10, <1>11 DEF RxInv
  <2>7. \A k \in 1 .. Len(Tail(u)), i \in 1 .. Len(delivered') : delivered'[i] < Got(Tail(u)[k])'
    <3>. SUFFICES ASSUME NEW k \in 1 .. Len(Tail(u)), NEW i \in 1 .. Len(delivered')
                  PROVE  delivered'[i] < Got(Tail(u)[k])'
      OBVIOUS
    <3>1. k \in 1 .. Len(u) - 1 /\ Tail(u)[k] = u[k + 1] /\ k + 1 \in 1 .. Len(u)
      BY <1>10, <1>11
    <3>2. CASE i \in 1 .. Len(delivered) /\ delivered'[i] = delivered[i]
      BY <1>2, <1>9, <3>1, <3>2 DEF RxInv
    <3>. QED BY <1>9, <1>13, <1>15, <3>1, <3>2
  <2>. QED BY <1>2, <1>6, <2>1, <2>2, <2>3, <2>4, <2>5, <2>6, <2>7 DEF RxInv
<1>. QED BY <1>16, <1>17 DEF Receiving

\* irq_handler offers the buffer again.
LEMMA ReceivingPushes ==
    ASSUME VirtqAssumption, NetAssumption, Receiving, pc = "rx_push", rx' = virtq_push(rx, <<popped>>).vq,
           popped' = 0, pc' = "rx_loop", UNCHANGED <<rx_buf, arrived, delivered>>
    PROVE  Receiving'
<1>1. RxTypes
  BY DEF Receiving
<1>2. PICK f, s, u : RxInv(f, s, u)
  BY DEF Receiving
<1>3. PICK b : b = popped
  OBVIOUS
<1>4. /\ SimpleQueue(0 .. NumRx, rx, f, s, u) /\ f # <<>> /\ b \in 1 .. NumRx /\ b \in 0 .. NumRx /\ b # 0
      /\ rx.busy = {} /\ NumRx \in Nat
  BY <1>1, <1>2, <1>3 DEF RxInv, RxTypes, NetAssumption
<1>5. Offered(0 .. NumRx, rx, f, s, u, b, virtq_push(rx, <<b>>))
  BY <1>4, SimplePush
<1>6. PICK d : d = f[1]
  OBVIOUS
<1>7. /\ d \in Descs /\ d \notin Heads(rx) /\ SimpleQueue(0 .. NumRx, rx', Tail(f), Append(s, d), u)
      /\ Heads(rx') = Heads(rx) \cup {d} /\ rx'.addr[d] = b /\ rx'.busy = {}
      /\ \A e \in Descs \ {d} : rx'.addr[e] = rx.addr[e]
  BY <1>3, <1>4, <1>5, <1>6 DEF Offered
<1>8. Heads(rx) = Members(s) \cup rx.busy \cup Members(u) /\ Heads(rx) = Descs \ Members(f)
  BY <1>4, SimpleHeads
<1>9. \A e \in Heads(rx) : /\ e # d /\ rx'.addr[e] = rx.addr[e] /\ Got(e)' = Got(e)
                           /\ rx.addr[e] \in (1 .. NumRx) \ {b}
  BY <1>2, <1>3, <1>7, <1>8 DEF RxInv, Got
<1>10. \A k \in 1 .. Len(u) : Got(u[k])' = Got(u[k])
  BY <1>8, <1>9 DEF Members
<1>11. RxTypes'
  BY <1>1 DEF RxTypes, InOrder
<1>12. RxInv(Tail(f), Append(s, d), u)'
  <2>1. \A e \in Heads(rx') : rx'.addr[e] \in (1 .. NumRx) \ {popped'}
    BY <1>4, <1>7, <1>9
  <2>2. \A x \in (1 .. NumRx) \ {popped'} : \E e \in Heads(rx') : rx'.addr[e] = x
    <3>1. \A x \in (1 .. NumRx) \ {b} : \E e \in Heads(rx) : rx.addr[e] = x
      BY <1>2, <1>3 DEF RxInv
    <3>. QED BY <1>7, <1>9, <3>1
  <2>3. \A e, g \in Heads(rx') : rx'.addr[e] = rx'.addr[g] => e = g
    <3>1. \A e, g \in Heads(rx) : rx.addr[e] = rx.addr[g] => e = g
      BY <1>2 DEF RxInv
    <3>. QED BY <1>7, <1>9, <3>1
  <2>4. /\ \A j, k \in 1 .. Len(u) : j < k => Got(u[j])' < Got(u[k])'
        /\ \A k \in 1 .. Len(u) : Got(u[k])' =< arrived'
        /\ \A k \in 1 .. Len(u), i \in 1 .. Len(delivered') : delivered'[i] < Got(u[k])'
    BY <1>2, <1>10 DEF RxInv
  <2>. QED BY <1>7, <2>1, <2>2, <2>3, <2>4 DEF RxInv
<1>. QED BY <1>11, <1>12 DEF Receiving

\* The packets of a longer time.
LEMMA LaterPackets ==
    ASSUME NEW n \in Nat, NEW q \in Seq(0 .. n)
    PROVE  q \in Seq(0 .. n + 1) /\ \A i \in 1 .. Len(q) : q[i] \in Nat /\ q[i] < n + 1
<1>1. \A x \in 0 .. n : x \in 0 .. n + 1 /\ x \in Nat /\ x < n + 1
  OBVIOUS
<1>2. Len(q) \in Nat /\ q \in [1 .. Len(q) -> 0 .. n] /\ \A k \in 1 .. Len(q) : q[k] \in 0 .. n
  OBVIOUS
<1>3. q \in [1 .. Len(q) -> 0 .. n + 1]
  BY <1>1, <1>2
<1>. QED BY <1>1, <1>2, <1>3

\* The card drops a packet.
LEMMA ReceivingDrops ==
    ASSUME VirtqAssumption, NetAssumption, Receiving, arrived < MaxArrive, arrived' = arrived + 1,
           UNCHANGED <<rx, rx_buf, popped, pc, delivered>>
    PROVE  Receiving'
<1>1. RxTypes
  BY DEF Receiving
<1>2. PICK f, s, u : RxInv(f, s, u)
  BY DEF Receiving
<1>3. arrived \in Nat /\ arrived + 1 \in 0 .. MaxArrive /\ delivered \in Seq(0 .. arrived)
  BY <1>1 DEF RxTypes, NetAssumption
<1>4. RxTypes'
  <2>1. delivered \in Seq(0 .. arrived + 1)
    BY <1>3, LaterPackets
  <2>. QED BY <1>1, <1>3, <2>1 DEF RxTypes, InOrder
<1>5. \A d : Got(d)' = Got(d)
  BY DEF Got
<1>6. \A k \in 1 .. Len(u) : Got(u[k]) =< arrived /\ Got(u[k]) \in Nat
  <2>1. Heads(rx) = Members(s) \cup rx.busy \cup Members(u)
    BY <1>2, SimpleHeads DEF RxInv
  <2>2. \A k \in 1 .. Len(u) : u[k] \in Heads(rx)
    BY <2>1 DEF Members
  <2>3. rx_buf \in [1 .. NumRx -> Nat]
    BY <1>1 DEF RxTypes, NetAssumption
  <2>. QED BY <1>2, <2>2, <2>3 DEF RxInv, Got
<1>7. RxInv(f, s, u)'
  <2>1. \A k \in 1 .. Len(u) : Got(u[k])' =< arrived'
    BY <1>3, <1>5, <1>6
  <2>. QED BY <1>2, <1>5, <2>1 DEF RxInv
<1>. QED BY <1>4, <1>7 DEF Receiving

\* The card puts a packet into the next buffer.
LEMMA ReceivingArrives ==
    ASSUME VirtqAssumption, NetAssumption, Receiving, arrived < MaxArrive, arrived' = arrived + 1, CanTake(rx),
           rx' = DeviceUses(DeviceTakes(rx), NextTaken(rx)),
           rx_buf' = [rx_buf EXCEPT ![rx.addr[NextTaken(rx)]] = arrived'],
           UNCHANGED <<popped, pc, delivered>>
    PROVE  Receiving'
<1>1. RxTypes
  BY DEF Receiving
<1>2. PICK f, s, u : RxInv(f, s, u)
  BY DEF Receiving
<1>3. /\ arrived \in Nat /\ arrived + 1 \in 0 .. MaxArrive /\ delivered \in Seq(0 .. arrived) /\ NumRx \in Nat
      /\ MaxArrive \in Nat /\ rx_buf \in [1 .. NumRx -> 0 .. MaxArrive]
      /\ SimpleQueue(0 .. NumRx, rx, f, s, u) /\ rx.busy = {}
  BY <1>1, <1>2 DEF RxTypes, NetAssumption, RxInv
<1>4. PICK q : q = DeviceTakes(rx)
  OBVIOUS
<1>5. Started(0 .. NumRx, rx, f, s, u, q)
  BY <1>3, <1>4, SimpleTake
<1>6. PICK d : d = s[1]
  OBVIOUS
<1>7. /\ d = NextTaken(rx) /\ d \in Heads(rx) /\ d \in Descs /\ SimpleQueue(0 .. NumRx, q, f, Tail(s), u)
      /\ Heads(q) = Heads(rx) /\ q.addr = rx.addr /\ q.busy = {d}
      /\ s # <<>>
  BY <1>3, <1>5, <1>6 DEF Started
<1>8. Ended(0 .. NumRx, q, f, Tail(s), u, d, rx')
  <2>1. d \in q.busy /\ rx' = DeviceUses(q, d) /\ SimpleQueue(0 .. NumRx, q, f, Tail(s), u)
    BY <1>4, <1>7
  <2>2. Ended(0 .. NumRx, q, f, Tail(s), u, d, DeviceUses(q, d))
    BY <2>1, SimpleUse
  <2>. QED BY <2>1, <2>2
<1>9. /\ SimpleQueue(0 .. NumRx, rx', f, Tail(s), Append(u, d)) /\ Heads(rx') = Heads(rx)
      /\ rx'.addr = rx.addr /\ rx'.busy = {}
  BY <1>7, <1>8 DEF Ended
<1>10. Heads(rx) = Members(s) \cup rx.busy \cup Members(u) /\ Heads(rx) = Descs \ Members(f)
  <2>1. SimpleQueue(0 .. NumRx, rx, f, s, u)
    BY <1>3
  <2>. QED BY <2>1, SimpleHeads
<1>11. d \in Members(s) /\ d \notin Members(u)
  <2>1. s \in Seq(Descs) /\ Distinct(s)
    BY <1>3 DEF SimpleQueue, RingIs
  <2>2. d \in Members(s)
    BY <1>6, <1>7, <2>1, MembersTail
  <2>. QED BY <1>3, <2>2 DEF SimpleQueue
<1>12. \A e \in Heads(rx) : rx.addr[e] \in 1 .. NumRx
  BY <1>2 DEF RxInv
<1>13. Got(d)' = arrived + 1
  BY <1>3, <1>7, <1>9, <1>12 DEF Got
<1>14. \A k \in 1 .. Len(u) : Got(u[k])' = Got(u[k]) /\ Got(u[k]) \in Nat /\ Got(u[k]) =< arrived
  <2>. SUFFICES ASSUME NEW k \in 1 .. Len(u)
                PROVE  Got(u[k])' = Got(u[k]) /\ Got(u[k]) \in Nat /\ Got(u[k]) =< arrived
    OBVIOUS
  <2>1. u[k] \in Heads(rx) /\ u[k] # d
    BY <1>10, <1>11 DEF Members
  <2>2. rx.addr[u[k]] # rx.addr[d] /\ rx.addr[u[k]] \in 1 .. NumRx
    BY <1>2, <1>7, <1>12, <2>1 DEF RxInv
  <2>3. Got(u[k])' = Got(u[k]) /\ Got(u[k]) \in Nat
    BY <1>3, <1>7, <1>9, <2>2 DEF Got
  <2>. QED BY <1>2, <2>3 DEF RxInv
<1>15. RxTypes'
  <2>1. delivered \in Seq(0 .. arrived + 1)
    BY <1>3, LaterPackets
  <2>2. rx_buf' \in [1 .. NumRx -> 0 .. MaxArrive]
    BY <1>3
  <2>. QED BY <1>1, <1>3, <2>1, <2>2 DEF RxTypes, InOrder
<1>16. PICK v : v = Append(u, d)
  OBVIOUS
<1>17. /\ Len(v) = Len(u) + 1 /\ Len(u) \in Nat /\ v[Len(u) + 1] = d
       /\ \A k \in 1 .. Len(u) : v[k] = u[k]
  <2>1. u \in Seq(Descs)
    BY <1>3 DEF SimpleQueue, RingIs
  <2>. QED BY <1>7, <1>16, <2>1
<1>18. \A k \in 1 .. Len(v) : \/ k \in 1 .. Len(u) /\ Got(v[k])' = Got(u[k])
                              \/ k = Len(u) + 1 /\ Got(v[k])' = arrived + 1
  <2>1. \A k \in 1 .. Len(v) : k \in 1 .. Len(u) \/ k = Len(u) + 1
    BY <1>17
  <2>. QED BY <1>13, <1>14, <1>17, <2>1
<1>19. RxInv(f, Tail(s), v)'
  <2>1. \A j, k \in 1 .. Len(v) : j < k => Got(v[j])' < Got(v[k])'
    <3>. SUFFICES ASSUME NEW j \in 1 .. Len(v), NEW k \in 1 .. Len(v), j < k
                  PROVE  Got(v[j])' < Got(v[k])'
      OBVIOUS
    <3>1. j \in 1 .. Len(u) /\ Got(v[j])' = Got(u[j])
      BY <1>17, <1>18
    <3>2. CASE k \in 1 .. Len(u) /\ Got(v[k])' = Got(u[k])
      BY <1>2, <3>1, <3>2 DEF RxInv
    <3>3. CASE Got(v[k])' = arrived + 1
      BY <1>3, <1>14, <3>1, <3>3
    <3>. QED BY <1>18, <3>2, <3>3
  <2>2. \A k \in 1 .. Len(v) : Got(v[k])' =< arrived'
    BY <1>3, <1>14, <1>18
  <2>3. \A k \in 1 .. Len(v), i \in 1 .. Len(delivered') : delivered'[i] < Got(v[k])'
    <3>. SUFFICES ASSUME NEW k \in 1 .. Len(v), NEW i \in 1 .. Len(delivered)
                  PROVE  delivered[i] < Got(v[k])'
      OBVIOUS
    <3>1. CASE k \in 1 .. Len(u) /\ Got(v[k])' = Got(u[k])
      BY <1>2, <3>1 DEF RxInv
    <3>2. delivered[i] < arrived + 1
      BY <1>3, LaterPackets
    <3>. QED BY <1>18, <3>1, <3>2
  <2>4. SimpleQueue(0 .. NumRx, rx', f, Tail(s), v)
    BY <1>9, <1>16
  <2>. QED BY <1>2, <1>9, <2>1, <2>2, <2>3, <2>4 DEF RxInv
<1>. QED BY <1>15, <1>19 DEF Receiving
-----------------------------------------------------------------------------
(* The beginning.                                                          *)

\* q has the buffers 1 to n offered to the card.
Filled(q, n) ==
    \E f, s : /\ SimpleQueue(0 .. NumRx, q, f, s, <<>>) /\ Len(f) = NumDescs - n /\ q.busy = {}
              /\ \A d \in Heads(q) : q.addr[d] \in 1 .. n
              /\ \A b \in 1 .. n : \E d \in Heads(q) : q.addr[d] = b
              /\ \A d, e \in Heads(q) : q.addr[d] = q.addr[e] => d = e

\* One more.
LEMMA FillsOne ==
    ASSUME VirtqAssumption, NetAssumption, NEW n \in 0 .. NumRx - 1, NEW q, Filled(q, n)
    PROVE  Filled(virtq_push(q, <<n + 1>>).vq, n + 1)
<1>1. PICK f, s : /\ SimpleQueue(0 .. NumRx, q, f, s, <<>>) /\ Len(f) = NumDescs - n /\ q.busy = {}
                  /\ \A d \in Heads(q) : q.addr[d] \in 1 .. n
                  /\ \A b \in 1 .. n : \E d \in Heads(q) : q.addr[d] = b
                  /\ \A d, e \in Heads(q) : q.addr[d] = q.addr[e] => d = e
  BY DEF Filled
<1>2. PICK b : b = n + 1
  OBVIOUS
<1>3. /\ NumRx \in Nat /\ NumDescs \in Nat /\ NumRx =< NumDescs /\ b \in 0 .. NumRx /\ f \in Seq(Descs)
      /\ n \in Nat /\ b \in Nat /\ Len(f) > 0
  <2>1. NumRx \in Nat /\ NumDescs \in Nat /\ NumRx =< NumDescs /\ f \in Seq(Descs)
    BY <1>1, QueueSizes DEF NetAssumption, SimpleQueue, FreeIs
  <2>. QED BY <1>1, <1>2, <2>1
<1>4. f # <<>>
  <2>1. Len(<<>>) = 0
    OBVIOUS
  <2>. QED BY <1>3, <2>1
<1>5. PICK e \in {<<>>} : SimpleQueue(0 .. NumRx, q, f, s, e)
  BY <1>1
<1>6. Offered(0 .. NumRx, q, f, s, e, b, virtq_push(q, <<b>>))
  BY <1>3, <1>4, <1>5, SimplePush
<1>7. PICK r, d : r = virtq_push(q, <<b>>).vq /\ d = f[1]
  OBVIOUS
<1>8. /\ d \in Descs /\ d \notin Heads(q) /\ SimpleQueue(0 .. NumRx, r, Tail(f), Append(s, d), <<>>)
      /\ Heads(r) = Heads(q) \cup {d} /\ r.addr[d] = b /\ r.busy = {}
      /\ \A c \in Descs \ {d} : r.addr[c] = q.addr[c]
  BY <1>1, <1>5, <1>6, <1>7 DEF Offered
<1>9. Heads(q) \subseteq Descs
  <2>1. Heads(q) = Descs \ Members(f)
    BY <1>5, SimpleHeads, Zenon
  <2>. QED BY <2>1
<1>10. \A c \in Heads(q) : c # d /\ r.addr[c] = q.addr[c] /\ r.addr[c] \in 1 .. n
  BY <1>1, <1>8, <1>9
<1>11. Len(Tail(f)) = NumDescs - b
  BY <1>1, <1>2, <1>3, <1>4
<1>12. \A x \in 1 .. b : x = b \/ x \in 1 .. n
  BY <1>2, <1>3
<1>13. b \in 1 .. b /\ b \notin 1 .. n /\ 1 .. n \subseteq 1 .. b
  BY <1>2, <1>3
<1>14. \A c \in Heads(r) : r.addr[c] \in 1 .. b
  BY <1>8, <1>10, <1>13
<1>15. \A x \in 1 .. b : \E c \in Heads(r) : r.addr[c] = x
  BY <1>1, <1>8, <1>10, <1>12
<1>16. \A c, g \in Heads(r) : r.addr[c] = r.addr[g] => c = g
  BY <1>1, <1>8, <1>10, <1>13
<1>17. Filled(r, b)
  BY <1>8, <1>11, <1>14, <1>15, <1>16 DEF Filled
<1>. QED BY <1>2, <1>7, <1>17

\* init_device offers all of them.
LEMMA FilledIs ==
    ASSUME VirtqAssumption, NetAssumption
    PROVE  Filled(FilledRx, NumRx)
<1>0. NumRx \in Nat
  BY DEF NetAssumption
<1>. DEFINE Fills(g, n) == g = [k \in 0 .. n |-> IF k = 0 THEN NewQueue ELSE virtq_push(g[k - 1], <<k>>).vq]
            S == {n \in 0 .. NumRx : ~\E g : Fills(g, n)}
<1>1. \E g : Fills(g, NumRx)
  <2>1. SUFFICES ASSUME S # {} PROVE FALSE
    BY <1>0
  <2>2. S \in SUBSET Nat
    BY <1>0
  <2>3. PICK n \in S : \A m \in S : n =< m
    BY <2>1, <2>2, LeastExists
  <2>4. n # 0
    <3>1. Fills([k \in 0 .. 0 |-> NewQueue], 0)
      OBVIOUS
    <3>. QED BY <2>3, <3>1
  <2>5. n \in 0 .. NumRx /\ n - 1 \in 0 .. NumRx /\ n - 1 \notin S /\ n - 1 \in Nat
    BY <1>0, <2>3, <2>4
  <2>6. PICK g : Fills(g, n - 1)
    BY <2>5
  <2>. DEFINE h == [k \in 0 .. n |-> IF k = n THEN virtq_push(g[n - 1], <<n>>).vq ELSE g[k]]
  <2>7. \A k \in 0 .. n - 1 : h[k] = g[k]
    BY <2>5
  <2>8. \A k \in 0 .. n : h[k] = IF k = 0 THEN NewQueue ELSE virtq_push(h[k - 1], <<k>>).vq
    <3>. SUFFICES ASSUME NEW k \in 0 .. n
                  PROVE  h[k] = IF k = 0 THEN NewQueue ELSE virtq_push(h[k - 1], <<k>>).vq
      OBVIOUS
    <3>1. CASE k = n
      <4>1. h[k] = virtq_push(g[n - 1], <<n>>).vq /\ h[n - 1] = g[n - 1] /\ k # 0
        BY <2>4, <2>5, <2>7, <3>1
      <4>. HIDE DEF h
      <4>. QED BY <3>1, <4>1
    <3>2. CASE k # n
      <4>1. h[k] = g[k] /\ k \in 0 .. n - 1 /\ (k # 0 => h[k - 1] = g[k - 1])
        BY <2>5, <2>7, <3>2
      <4>2. g[k] = IF k = 0 THEN NewQueue ELSE virtq_push(g[k - 1], <<k>>).vq
        BY <2>6, <4>1
      <4>. HIDE DEF h
      <4>. QED BY <4>1, <4>2
    <3>. QED BY <3>1, <3>2
  <2>9. h = [k \in 0 .. n |-> h[k]]
    OBVIOUS
  <2>10. Fills(h, n)
    <3>. HIDE DEF h
    <3>. QED BY <2>8, <2>9
  <2>. QED BY <2>3, <2>10
<1>. DEFINE fill == CHOOSE g : Fills(g, NumRx)
<1>2. Fills(fill, NumRx)
  BY <1>1
<1>3. FilledRx = fill[NumRx]
  BY DEF FilledRx
<1>. HIDE DEF fill
<1>4. \A n \in 0 .. NumRx : Filled(fill[n], n)
  <2>. DEFINE T == {n \in 0 .. NumRx : ~Filled(fill[n], n)}
  <2>1. SUFFICES ASSUME T # {} PROVE FALSE
    OBVIOUS
  <2>2. T \in SUBSET Nat
    BY <1>0
  <2>3. PICK n \in T : \A m \in T : n =< m
    BY <2>1, <2>2, LeastExists
  <2>4. fill[n] = IF n = 0 THEN NewQueue ELSE virtq_push(fill[n - 1], <<n>>).vq
    BY <1>2, <2>3
  <2>5. n # 0
    <3>1. Filled(NewQueue, 0)
      <4>1. 0 \in 0 .. NumRx
        BY <1>0
      <4>2. /\ SimpleQueue(0 .. NumRx, NewQueue, AllDescs, <<>>, <<>>) /\ Heads(NewQueue) = {}
            /\ Len(AllDescs) = NumDescs /\ NewQueue.busy = {}
        BY <4>1, SimpleNew
      <4>3. NumDescs = NumDescs - 0
        BY QueueSizes
      <4>4. \A b \in 1 .. 0 : FALSE
        OBVIOUS
      <4>. QED BY <4>2, <4>3, <4>4 DEF Filled
    <3>. QED BY <2>3, <2>4, <3>1
  <2>6. n - 1 \in 0 .. NumRx - 1 /\ n - 1 \in 0 .. NumRx /\ n - 1 \notin T /\ (n - 1) + 1 = n
    BY <1>0, <2>3, <2>5
  <2>7. Filled(virtq_push(fill[n - 1], <<(n - 1) + 1>>).vq, (n - 1) + 1)
    BY <2>6, FillsOne
  <2>. QED BY <2>3, <2>4, <2>5, <2>6, <2>7
<1>. QED BY <1>0, <1>3, <1>4

\* The driver's invariant.
NetInv ==
    /\ Sending /\ Receiving /\ isr \in BOOLEAN /\ irq \in BOOLEAN /\ opened \in BOOLEAN

\* It holds at the start.
LEMMA InitNet ==
    ASSUME VirtqAssumption, NetAssumption, Init
    PROVE  NetInv
<1>1. NumTx \in Nat /\ NumRx \in Nat /\ MaxSend \in Nat /\ MaxArrive \in Nat
  BY DEF NetAssumption
<1>2. PICK e : e = <<>> /\ Len(e) = 0 /\ (\A S : e \in Seq(S)) /\ ToSet(e) = {} /\ Members(e) = {} /\ IsInjective(e)
  <2>1. Len(<<>>) = 0 /\ (\A S : <<>> \in Seq(S)) /\ DOMAIN <<>> = {} /\ 1 .. 0 = {}
    OBVIOUS
  <2>2. ToSet(<<>>) = {} /\ Members(<<>>) = {} /\ IsInjective(<<>>)
    BY <2>1 DEF ToSet, Members, IsInjective
  <2>. QED BY <2>1, <2>2, Zenon
<1>3. TxTypes
  <2>1. /\ sent = 0 /\ tx_used = {} /\ tx_buf = [b \in 1 .. NumTx |-> 0] /\ accepted = e /\ wire = e /\ kicked = FALSE
    BY <1>2 DEF Init
  <2>2. SentOnce
    BY <1>2, <2>1 DEF SentOnce
  <2>3. sent \in 0 .. MaxSend /\ tx_used \in SUBSET (1 .. NumTx) /\ tx_buf \in [1 .. NumTx -> 0 .. MaxSend]
    BY <1>1, <2>1
  <2>4. accepted \in Seq(1 .. sent) /\ wire \in Seq(1 .. sent)
    BY <1>2, <2>1
  <2>. QED BY <2>1, <2>2, <2>3, <2>4 DEF TxTypes
<1>4. TxInv(AllDescs, e, e)
  <2>1. 0 \in 0 .. NumTx
    BY <1>1
  <2>2. SimpleQueue(0 .. NumTx, NewQueue, AllDescs, <<>>, <<>>) /\ Heads(NewQueue) = {} /\ NewQueue.busy = {}
    BY <2>1, SimpleNew
  <2>3. tx = NewQueue /\ tx_used = {}
    BY DEF Init
  <2>4. Unsent(e) = {}
    BY <1>2, <2>2, <2>3 DEF Unsent
  <2>. QED BY <1>2, <2>2, <2>3, <2>4 DEF TxInv
<1>5. RxTypes
  BY <1>1, <1>2 DEF Init, RxTypes, InOrder
<1>6. PICK f, s : /\ SimpleQueue(0 .. NumRx, rx, f, s, <<>>) /\ rx.busy = {}
                  /\ \A d \in Heads(rx) : rx.addr[d] \in 1 .. NumRx
                  /\ \A b \in 1 .. NumRx : \E d \in Heads(rx) : rx.addr[d] = b
                  /\ \A d, c \in Heads(rx) : rx.addr[d] = rx.addr[c] => d = c
  BY FilledIs DEF Init, Filled
<1>7. RxInv(f, s, e)
  <2>1. popped = 0 /\ pc = "recv" /\ (1 .. NumRx) \ {0} = 1 .. NumRx /\ 1 .. 0 = {}
    BY <1>1 DEF Init
  <2>. QED BY <1>2, <1>6, <2>1 DEF RxInv
<1>8. isr \in BOOLEAN /\ irq \in BOOLEAN /\ opened \in BOOLEAN
  BY DEF Init
<1>. QED BY <1>3, <1>4, <1>5, <1>7, <1>8 DEF NetInv, Sending, Receiving
-----------------------------------------------------------------------------
(* The steps.                                                              *)

\* Every step keeps the invariant.
LEMMA NextNet ==
    ASSUME VirtqAssumption, NetAssumption, NumTx =< NumDescs, NetInv, Next
    PROVE  NetInv'
<1>0. Sending /\ Receiving /\ kicked \in BOOLEAN /\ pc \in {"recv", "tx_loop", "rx_loop", "rx_push"}
  BY DEF NetInv, Sending, TxTypes, Receiving, RxTypes
<1>. DEFINE Flags == isr' \in BOOLEAN /\ irq' \in BOOLEAN /\ opened' \in BOOLEAN
<1>1. CASE irq_handler
  <2>1. /\ UNCHANGED TxVars /\ UNCHANGED RxVars /\ kicked' \in BOOLEAN /\ Flags
        /\ pc = "recv" /\ pc' \in {"tx_loop", "recv"}
    BY <1>0, <1>1 DEF irq_handler, TxVars, RxVars, hist, NetInv
  <2>. QED BY <1>0, <2>1, SendingKept, ReceivingKept DEF NetInv
<1>2. CASE irq_tx
  <2>1. /\ UNCHANGED RxVars /\ kicked' = kicked /\ Flags /\ pc = "tx_loop" /\ pc' \in {"tx_loop", "rx_loop"}
        /\ \/ UNCHANGED TxVars
           \/ /\ ~virtq_is_empty(tx) /\ tx' = virtq_pop(tx).vq /\ tx_used' = TxFreed(virtq_pop(tx).addrs[1])
              /\ UNCHANGED <<tx_buf, sent, accepted, wire, kicked>>
    BY <1>2 DEF irq_tx, TxVars, RxVars, hist, NetInv
  <2>2. Receiving'
    BY <1>0, <2>1, ReceivingKept
  <2>3. Sending'
    BY <1>0, <2>1, SendingKept, SendingTakesBack
  <2>. QED BY <2>1, <2>2, <2>3 DEF NetInv
<1>3. CASE irq_rx
  <2>1. /\ UNCHANGED TxVars /\ kicked' = kicked /\ Flags /\ pc = "rx_loop"
        /\ \/ UNCHANGED RxVars /\ pc' = "recv"
           \/ /\ ~virtq_is_empty(rx) /\ rx' = virtq_pop(rx).vq /\ popped' = virtq_pop(rx).addrs[1]
              /\ pc' = "rx_push" /\ UNCHANGED <<rx_buf, arrived>>
              /\ delivered' \in {delivered, Append(delivered, rx_buf[virtq_pop(rx).addrs[1]])}
    BY <1>3 DEF irq_rx, RxEnd, TxVars, RxVars, NetInv
  <2>2. Sending'
    BY <1>0, <2>1, SendingKept
  <2>3. Receiving'
    BY <1>0, <2>1, ReceivingKept, ReceivingPops
  <2>. QED BY <2>1, <2>2, <2>3 DEF NetInv
<1>4. CASE irq_rx_push
  <2>1. /\ UNCHANGED TxVars /\ kicked' = kicked /\ Flags /\ pc = "rx_push" /\ pc' = "rx_loop" /\ popped' = 0
        /\ rx' = virtq_push(rx, <<popped>>).vq /\ UNCHANGED <<rx_buf, arrived, delivered>>
    BY <1>4 DEF irq_rx_push, TxVars, hist, NetInv
  <2>. QED BY <1>0, <2>1, SendingKept, ReceivingPushes DEF NetInv
<1>5. CASE net_open
  <2>1. UNCHANGED TxVars /\ UNCHANGED RxVars /\ kicked' = kicked /\ pc' = pc /\ Flags
    BY <1>5 DEF net_open, TxVars, RxVars, hist, drv, NetInv
  <2>. QED BY <1>0, <2>1, SendingKept, ReceivingKept DEF NetInv
<1>6. CASE transmit
  <2>1. UNCHANGED RxVars /\ pc' = pc /\ Flags
    BY <1>6 DEF transmit, RxVars, drv, NetInv
  <2>. QED BY <1>0, <1>6, <2>1, SendingTransmit, ReceivingKept DEF NetInv
<1>7. CASE card_takes
  <2>1. /\ UNCHANGED RxVars /\ pc' = pc /\ Flags /\ kicked' \in BOOLEAN
        /\ \/ UNCHANGED TxVars
           \/ /\ CanTake(tx) /\ tx' = DeviceTakes(tx)
              /\ UNCHANGED <<tx_used, tx_buf, sent, accepted, wire, kicked>>
    BY <1>0, <1>7 DEF card_takes, TxVars, RxVars, hist, drv, NetInv
  <2>. QED BY <1>0, <2>1, SendingKept, SendingTakes, ReceivingKept DEF NetInv
<1>8. CASE card_sends
  <2>1. PICK d \in tx.busy : tx' = DeviceUses(tx, d) /\ wire' = Append(wire, tx_buf[tx.addr[d]])
    BY <1>8 DEF card_sends
  <2>2. /\ UNCHANGED RxVars /\ pc' = pc /\ Flags /\ UNCHANGED <<tx_used, tx_buf, sent, accepted, kicked>>
    BY <1>8 DEF card_sends, RxVars, drv, NetInv
  <2>3. Sending'
    BY <1>0, <2>1, <2>2, SendingSends
  <2>. QED BY <1>0, <2>2, <2>3, ReceivingKept DEF NetInv
<1>9. CASE card_receives
  <2>1. /\ UNCHANGED TxVars /\ kicked' = kicked /\ Flags /\ arrived < MaxArrive /\ arrived' = arrived + 1
        /\ UNCHANGED <<popped, pc, delivered>>
        /\ \/ UNCHANGED <<rx, rx_buf>>
           \/ /\ CanTake(rx) /\ rx' = DeviceUses(DeviceTakes(rx), NextTaken(rx))
              /\ rx_buf' = [rx_buf EXCEPT ![rx.addr[NextTaken(rx)]] = arrived']
    BY <1>9 DEF card_receives, TxVars, drv, NetInv
  <2>2. Sending'
    BY <1>0, <2>1, SendingKept
  <2>3. Receiving'
    BY <1>0, <2>1, ReceivingDrops, ReceivingArrives
  <2>. QED BY <2>1, <2>2, <2>3 DEF NetInv
<1>10. CASE interrupt
  <2>1. UNCHANGED TxVars /\ UNCHANGED RxVars /\ kicked' = kicked /\ pc' = pc /\ Flags
    BY <1>10 DEF interrupt, TxVars, RxVars, hist, drv, NetInv
  <2>. QED BY <1>0, <2>1, SendingKept, ReceivingKept DEF NetInv
<1>. QED BY <1>1, <1>2, <1>3, <1>4, <1>5, <1>6, <1>7, <1>8, <1>9, <1>10 DEF Next, Driver

\* Different descriptors have different addresses, so there are as many.
LEMMA AddressCount ==
    ASSUME NEW H, IsFiniteSet(H), NEW a, \A d, e \in H : a[d] = a[e] => d = e
    PROVE  Cardinality({a[d] : d \in H}) = Cardinality(H)
<1>. DEFINE B == {a[d] : d \in H}
            g == [d \in H |-> a[d]]
<1>1. g \in Bijection(H, B)
  BY DEF Bijection, Injection, Surjection, IsInjective
<1>. HIDE DEF g, B
<1>2. Cardinality(B) = Cardinality(H)
  BY <1>1, FS_Bijection DEF ExistsBijection
<1>. QED BY <1>2 DEF B

\* The invariant has what matters.
LEMMA NetInvEnough ==
    ASSUME VirtqAssumption, NetAssumption, NetInv
    PROVE  TypeOK /\ DescsSound /\ BuffersSound /\ SentOnce /\ InOrder
<1>0. TxTypes /\ RxTypes /\ isr \in BOOLEAN /\ irq \in BOOLEAN /\ opened \in BOOLEAN
  BY DEF NetInv, Sending, Receiving
<1>1. PICK f, s, u : TxInv(f, s, u)
  BY DEF NetInv, Sending
<1>2. PICK g, t, v : RxInv(g, t, v)
  BY DEF NetInv, Receiving
<1>3. SimpleQueue(0 .. NumTx, tx, f, s, u) /\ SimpleQueue(0 .. NumRx, rx, g, t, v)
  BY <1>1, <1>2 DEF TxInv, RxInv
<1>4. /\ QueueSound(tx) /\ tx.num_free \in 0 .. NumDescs
      /\ QueueSound(rx) /\ rx.num_free \in 0 .. NumDescs
  BY <1>3, SimpleSound
<1>5. TypeOK
  <2>1. NumRx \in Nat
    BY DEF NetAssumption
  <2>2. popped \in 0 .. NumRx
    BY <1>0, <2>1 DEF RxTypes
  <2>. QED BY <1>0, <1>4, <2>2 DEF TypeOK, TxTypes, RxTypes
<1>6. IsFiniteSet(Heads(tx)) /\ IsFiniteSet(Heads(rx))
  <2>1. Heads(tx) = Descs \ Members(f) /\ Heads(rx) = Descs \ Members(g)
    BY <1>3, SimpleHeads
  <2>2. Heads(tx) \in SUBSET Descs /\ Heads(rx) \in SUBSET Descs
    BY <2>1
  <2>. QED BY <2>2, DescsCount, FS_Subset
<1>7. BuffersSound
  <2>1. {tx.addr[h] : h \in Heads(tx)} = tx_used
    BY <1>1 DEF TxInv
  <2>2. {rx.addr[h] : h \in Heads(rx)} = (1 .. NumRx) \ {popped}
    BY <1>2 DEF RxInv
  <2>3. Cardinality(Heads(tx)) = Cardinality({tx.addr[h] : h \in Heads(tx)})
    BY <1>1, <1>6, AddressCount DEF TxInv
  <2>4. Cardinality(Heads(rx)) = Cardinality({rx.addr[h] : h \in Heads(rx)})
    BY <1>2, <1>6, AddressCount DEF RxInv
  <2>. QED BY <2>1, <2>2, <2>3, <2>4 DEF BuffersSound
<1>. QED BY <1>0, <1>4, <1>5, <1>7 DEF DescsSound, TxTypes, RxTypes
=============================================================================
