------------------------- MODULE Segmentation_proof -------------------------
(***************************************************************************)
(* What the numbers of the sync samples and the greedy cuts are worth, for *)
(* every track: the lemmas the proofs about Playlist, Segment and          *)
(* Streaming rest on.                                                      *)
(*                                                                         *)
(* Then what the operators on run length coded tables return, for every    *)
(* table: those about SampleIndex and Mp4Crop rest on these.               *)
(***************************************************************************)
EXTENDS Segmentation, RunLength, FiniteSetTheorems, SequenceTheorems, WellFoundedInduction, TLAPS

\* A set of naturals has a smallest element, and a bounded one a largest.
LEMMA NatMin ==
  ASSUME NEW S, S \subseteq Nat, S # {}
  PROVE  \E m \in S : \A n \in S : m <= n
<1>1. PICK m \in S : \A n \in S : ~ (<<n, m>> \in OpToRel(<, Nat))
  BY WFMin, NatLessThanWellFounded
<1>2. \A n \in S : ~ (n < m)
  BY <1>1 DEF OpToRel
<1>. QED
  BY <1>2

LEMMA BoundedNatMax ==
  ASSUME NEW S, S # {}, NEW bound \in Nat, S \subseteq 0 .. bound
  PROVE  \E m \in S : \A n \in S : n <= m
<1>. DEFINE T == {d \in Nat : \E s \in S : d = bound - s}
<1>1. T \subseteq Nat /\ T # {}
  <2>1. PICK s \in S : TRUE
    OBVIOUS
  <2>2. bound - s \in T
    BY <2>1
  <2>. QED
    BY <2>2
<1>2. PICK d \in T : \A e \in T : d <= e
  BY <1>1, NatMin
<1>3. PICK m \in S : d = bound - m
  OBVIOUS
<1>4. \A n \in S : bound - n \in T
  OBVIOUS
<1>5. \A n \in S : bound - m <= bound - n
  BY <1>2, <1>3, <1>4
<1>. QED
  BY <1>5

\* The sync samples before any point are finitely many, so ranks are numbers.
LEMMA RankType ==
  ASSUME NEW t, IsTrak(t), NEW s \in Int
  PROVE  /\ IsFiniteSet({x \in t.sync : x < s})
         /\ Rank(t, s) \in Nat
<1>1. IsFiniteSet(0 .. t.size - 1)
  BY FS_Interval DEF IsTrak
<1>2. {x \in t.sync : x < s} \subseteq 0 .. t.size - 1
  BY DEF IsTrak
<1>3. IsFiniteSet({x \in t.sync : x < s})
  BY <1>1, <1>2, FS_Subset
<1>4. Rank(t, s) \in Nat
  BY <1>3, FS_CardinalityType DEF Rank
<1>. QED
  BY <1>3, <1>4

\* No sample comes before sample 0.
LEMMA RankOfFirst ==
  ASSUME NEW t, IsTrak(t)
  PROVE  Rank(t, 0) = 0
<1>1. {x \in t.sync : x < 0} = {}
  BY DEF IsTrak
<1>. QED
  BY <1>1, FS_EmptySet DEF Rank

\* Going one sample on adds one to the rank exactly when that sample is a
\* sync sample: what the counter i of both loops does.
LEMMA RankStep ==
  ASSUME NEW t, IsTrak(t), NEW s \in Nat
  PROVE  Rank(t, s + 1) = IF s \in t.sync THEN Rank(t, s) + 1 ELSE Rank(t, s)
<1>. DEFINE before == {x \in t.sync : x < s}
<1>1. IsFiniteSet(before)
  BY RankType
<1>2. s \notin before
  OBVIOUS
<1>3. t.sync \subseteq Int
  BY DEF IsTrak
<1>4. CASE s \in t.sync
  <2>1. {x \in t.sync : x < s + 1} = before \cup {s}
    BY <1>3, <1>4
  <2>2. Cardinality(before \cup {s}) = Cardinality(before) + 1
    BY <1>1, <1>2, FS_AddElement
  <2>. QED
    BY <1>4, <2>1, <2>2 DEF Rank
<1>5. CASE s \notin t.sync
  <2>1. {x \in t.sync : x < s + 1} = before
    BY <1>3, <1>5
  <2>. QED
    BY <1>5, <2>1 DEF Rank
<1>. QED
  BY <1>4, <1>5

\* Ranks never decrease, and two sync samples never share one.
LEMMA RankMonotone ==
  ASSUME NEW t, IsTrak(t), NEW a \in Nat, NEW b \in Nat, a < b
  PROVE  /\ Rank(t, a) <= Rank(t, b)
         /\ a \in t.sync => Rank(t, a) < Rank(t, b)
<1>. DEFINE A == {x \in t.sync : x < a}
            B == {x \in t.sync : x < b}
<1>1. IsFiniteSet(A) /\ IsFiniteSet(B)
  BY RankType
<1>2. t.sync \subseteq Int
  BY DEF IsTrak
<1>3. A \subseteq B
  BY <1>2
<1>4. Cardinality(A) <= Cardinality(B)
  BY <1>1, <1>3, FS_Subset
<1>5. ASSUME a \in t.sync
      PROVE  Cardinality(A) < Cardinality(B)
  <2>1. a \in B /\ a \notin A
    BY <1>5
  <2>2. A # B
    BY <2>1
  <2>3. Cardinality(A) \in Nat /\ Cardinality(B) \in Nat
    BY <1>1, FS_CardinalityType
  <2>4. Cardinality(A) # Cardinality(B)
    BY <1>1, <1>3, <2>2, FS_Subset
  <2>. QED
    BY <1>4, <2>3, <2>4
<1>. QED
  BY <1>4, <1>5 DEF Rank

\* The number in a segment's name is enough to find the sync sample again.
THEOREM NumberIdentifiesSync ==
  ASSUME NEW t, IsTrak(t), NEW s \in t.sync
  PROVE  Numbered(t, Rank(t, s)) = {s}
<1>1. t.sync \subseteq Nat /\ t.sync \subseteq Int
  BY DEF IsTrak
<1>2. ASSUME NEW r \in t.sync, Rank(t, r) = Rank(t, s)
      PROVE  r = s
  <2>. r \in Int /\ s \in Int
    BY <1>1
  <2>1. Rank(t, r) \in Nat /\ Rank(t, s) \in Nat
    BY RankType
  <2>2. CASE r < s
    BY <1>1, <1>2, <2>1, <2>2, RankMonotone
  <2>3. CASE s < r
    BY <1>1, <1>2, <2>1, <2>3, RankMonotone
  <2>. QED
    BY <1>1, <2>2, <2>3
<1>. QED
  BY <1>2 DEF Numbered

\* The end sample is always a place to cut, so every segment has an end.
LEMMA CutProperties ==
  ASSUME NEW t, IsTrak(t), NEW a \in 0 .. t.size, a # t.size, NEW seconds \in Nat
  PROVE  /\ Cut(t, a, seconds) \in CutPoints(t, a, seconds)
         /\ \A p \in CutPoints(t, a, seconds) : Cut(t, a, seconds) <= p
<1>1. t.size \in Nat
  BY DEF IsTrak
<1>2. CutPoints(t, a, seconds) \subseteq Nat
  BY <1>1 DEF CutPoints
<1>3. t.size \in CutPoints(t, a, seconds)
  BY <1>1 DEF CutPoints, Smooth
<1>4. \E m \in CutPoints(t, a, seconds) : \A p \in CutPoints(t, a, seconds) : m <= p
  BY <1>2, <1>3, NatMin
<1>. QED
  BY <1>4 DEF Cut, Min

\* A cut is recognised by being the first point that is far enough away.
LEMMA CutIsFirst ==
  ASSUME NEW t, IsTrak(t), NEW a \in 0 .. t.size, NEW seconds \in Nat,
         NEW c \in CutPoints(t, a, seconds),
         \A p \in CutPoints(t, a, seconds) : c <= p
  PROVE  Cut(t, a, seconds) = c
<1>1. CutPoints(t, a, seconds) \subseteq Int
  BY DEF CutPoints, IsTrak
<1>2. \A d \in CutPoints(t, a, seconds) :
        (\A p \in CutPoints(t, a, seconds) : d <= p) => d = c
  BY <1>1
<1>. QED
  BY <1>2 DEF Cut, Min

\* A cut comes at most one gap after the time asked for, when no two
\* neighbouring points where one could cut are further apart than the gap.
LEMMA CutWithinGap ==
  ASSUME NEW t, IsTrak(t), NEW seconds \in Nat, NEW gap \in Nat,
         NEW a \in 0 .. t.size, a # t.size, a = 0 \/ Smooth(t, a),
         \A p, q \in 0 .. t.size :
           /\ p < q /\ (p = 0 \/ Smooth(t, p)) /\ Smooth(t, q)
           /\ \A s \in p + 1 .. q - 1 : ~ Smooth(t, s)
           => t.pts[q] - t.pts[p] <= gap * t.scale
  PROVE  t.pts[Cut(t, a, seconds)] - t.pts[a] <= (seconds + gap) * t.scale
<1>. DEFINE c == Cut(t, a, seconds)
            P == {s \in a .. c - 1 : s = a \/ Smooth(t, s)}
<1>1. t.size \in Nat /\ t.scale \in Nat /\ t.pts \in [0 .. t.size -> Nat]
  BY DEF IsTrak
<1>2. c \in CutPoints(t, a, seconds)
  BY CutProperties
<1>3. c \in a + 1 .. t.size /\ Smooth(t, c)
  BY <1>2 DEF CutPoints
<1>4. a \in P /\ P \subseteq 0 .. t.size
  BY <1>1, <1>3
<1>5. PICK p \in P : \A s \in P : s <= p
  BY <1>1, <1>4, BoundedNatMax
<1>6. t.pts[c] - t.pts[p] <= gap * t.scale
  <2>1. \A s \in p + 1 .. c - 1 : ~ Smooth(t, s)
    BY <1>1, <1>3, <1>5
  <2>2. p \in 0 .. t.size /\ c \in 0 .. t.size /\ p < c
    BY <1>1, <1>3, <1>4
  <2>3. p = 0 \/ Smooth(t, p)
    OBVIOUS
  <2>. QED
    BY <1>3, <2>1, <2>2, <2>3
<1>7. t.pts[p] - t.pts[a] <= seconds * t.scale
  <2>1. t.pts[p] \in Nat /\ t.pts[a] \in Nat
    BY <1>1, <1>4
  <2>. DEFINE w == seconds * t.scale
  <2>2. w \in Nat
    BY <1>1
  <2>3. CASE p = a
    BY <2>1, <2>2, <2>3
  <2>4. CASE p # a
    <3>1. p \in a + 1 .. t.size /\ p < c /\ Smooth(t, p)
      BY <1>1, <1>3, <2>4
    <3>2. p \notin CutPoints(t, a, seconds)
      BY <1>1, <1>3, <3>1, CutProperties
    <3>3. ~ LongEnough(t, a, p, seconds)
      BY <3>1, <3>2 DEF CutPoints
    <3>4. 2000 * seconds * t.scale = 2000 * w
      BY <1>1
    <3>5. ~ (2000 * (t.pts[p] - t.pts[a]) + t.scale >= 2000 * w)
      BY <3>3, <3>4 DEF LongEnough
    <3>. HIDE DEF w
    <3>6. \A x, y, z, v \in Nat :
            ~ (2000 * (x - y) + z >= 2000 * v) => x - y <= v
      OBVIOUS
    <3>7. t.pts[p] - t.pts[a] <= w
      BY ONLY <1>1, <2>1, <2>2, <3>5, <3>6, SMTT(60)
    <3>. QED
      BY <3>7 DEF w
  <2>. QED
    BY <2>3, <2>4
<1>8. t.pts[c] \in Nat /\ t.pts[p] \in Nat /\ t.pts[a] \in Nat
  <2>1. c \in 0 .. t.size /\ p \in 0 .. t.size
    BY <1>1, <1>3, <1>4
  <2>. HIDE DEF c, P
  <2>. QED
    BY <1>1, <2>1
<1>9. (seconds + gap) * t.scale = seconds * t.scale + gap * t.scale
  BY <1>1
<1>10. seconds * t.scale \in Nat /\ gap * t.scale \in Nat
  BY <1>1
<1>. QED
  BY <1>6, <1>7, <1>8, <1>9, <1>10

\* The smallest element is recognised by its order.
LEMMA MinIsLeast ==
  ASSUME NEW S, S \subseteq Int, NEW m \in S, \A n \in S : m <= n
  PROVE  Min(S) = m
<1>1. \A d \in S : (\A n \in S : d <= n) => d = m
  OBVIOUS
<1>. QED
  BY <1>1 DEF Min

\* A set of one has that one as its least element.
LEMMA MinOfOne ==
  ASSUME NEW x \in Int
  PROVE  Min({x}) = x
BY MinIsLeast

\* Between sample 0 and any other, ranks take every value: the counter passes
\* each number at a sync sample.
LEMMA RankIsReached ==
  ASSUME NEW t, IsTrak(t), NEW b \in 0 .. t.size, NEW n \in Nat, n < Rank(t, b)
  PROVE  \E s \in t.sync : s < b /\ Rank(t, s) = n
<1>. DEFINE P == {p \in 0 .. b : n < Rank(t, p)}
<1>1. t.size \in Nat /\ b \in Nat
  BY DEF IsTrak
<1>2. b \in P /\ P \subseteq Nat
  BY <1>1
<1>3. PICK p \in P : \A q \in P : p <= q
  BY <1>2, NatMin
<1>4. p # 0
  BY <1>3, RankOfFirst
<1>5. p - 1 \in Nat /\ p - 1 \in 0 .. b /\ p - 1 \notin P /\ p - 1 + 1 = p
  BY <1>1, <1>3, <1>4
<1>6. Rank(t, p) = IF p - 1 \in t.sync THEN Rank(t, p - 1) + 1 ELSE Rank(t, p - 1)
  BY <1>5, RankStep
<1>7. Rank(t, p - 1) \in Nat /\ Rank(t, p) \in Nat /\ n < Rank(t, p) /\ ~ (n < Rank(t, p - 1))
  <2>1. p \in Int /\ p - 1 \in Int
    BY <1>1, <1>3, <1>5
  <2>2. Rank(t, p - 1) \in Nat /\ Rank(t, p) \in Nat
    BY <2>1, RankType
  <2>3. ~ (n < Rank(t, p - 1))
    BY <1>5
  <2> QED BY <1>3, <2>2, <2>3
<1>8. p - 1 \in t.sync /\ Rank(t, p - 1) = n
  BY <1>6, <1>7
<1>. QED
  BY <1>3, <1>5, <1>8

\* Two places of one rank have no sync sample between them.
LEMMA NumberedBefore ==
  ASSUME NEW t, IsTrak(t), NEW b \in 0 .. t.size, NEW n \in Nat
  PROVE  (\E s \in Numbered(t, n) : s < b) <=> n < Rank(t, b)
<1>1. t.sync \subseteq Nat /\ b \in Nat
  BY DEF IsTrak
<1>2. ASSUME NEW s \in Numbered(t, n), s < b
      PROVE  n < Rank(t, b)
  BY <1>1, <1>2, RankMonotone DEF Numbered
<1>3. ASSUME n < Rank(t, b)
      PROVE  \E s \in Numbered(t, n) : s < b
  BY <1>3, RankIsReached DEF Numbered
<1>. QED
  BY <1>2, <1>3

-----------------------------------------------------------------------------
(* Playlists                                                               *)

\* Entry k of a list runs from one cut to the next, and the next entry begins
\* where it ends.
EntriesAre(list, t, seconds, N) ==
  /\ DOMAIN list = 1 .. N
  /\ \A k \in 1 .. N :
      /\ list[k].from \in 0 .. t.size - 1
      /\ k = 1 => list[k].from = 0
      /\ k # 1 => list[k].from \in t.sync
      /\ list[k].number = Rank(t, list[k].from)
      /\ list[k].to = Cut(t, list[k].from, seconds)
      /\ k < N => list[k].to = list[k + 1].from

\* So it is in every playlist.  The recursive function behind it exists because
\* each value is made of the one before; it stays at the end once it is there.
LEMMA ListsTheCuts ==
  ASSUME NEW t, IsTrak(t), NEW seconds \in Nat
  PROVE  \E N \in Nat : EntriesAre(PlaylistOf(t, seconds), t, seconds, N)
<1>. DEFINE end == t.size
            After(a) == IF a = end THEN end ELSE Cut(t, a, seconds)
            step(g, k) == IF k = 0 THEN 0 ELSE After(g[k - 1])
            Defined == {n \in Nat : \E g : g = [k \in 0 .. n |-> step(g, k)]}
            from == CHOOSE g : g = [k \in 0 .. end |-> step(g, k)]
            D == {k \in 0 .. end : from[k] # end}
            count == Cardinality(D)
            list == [k \in 1 .. count |-> [number |-> Rank(t, from[k - 1]),
                                           from |-> from[k - 1], to |-> from[k]]]
<1>1. end \in Nat
  BY DEF IsTrak
<1>2. PlaylistOf(t, seconds) = list
  BY DEF PlaylistOf
<1>3. ASSUME NEW a \in 0 .. end
      PROVE  /\ After(a) \in 0 .. end /\ (a # end => After(a) \in a + 1 .. end)
             /\ After(a) # end => After(a) \in t.sync
  <2>1. CASE a = end
    BY <1>1, <2>1
  <2>2. CASE a # end
    <3>1. Cut(t, a, seconds) \in CutPoints(t, a, seconds)
      BY <2>2, CutProperties
    <3> QED BY <1>1, <2>2, <3>1 DEF CutPoints, Smooth
  <2> QED BY <2>1, <2>2
<1> HIDE DEF After
<1>4. end \in Defined
  <2>1. 0 \in Defined
    <3>1. [k \in 0 .. 0 |-> 0] = [k \in 0 .. 0 |-> step([i \in 0 .. 0 |-> 0], k)]
      OBVIOUS
    <3> QED BY <3>1
  <2>2. ASSUME NEW n \in Nat \ {0}, n - 1 \in Defined PROVE n \in Defined
    <3>1. PICK g : g = [k \in 0 .. n - 1 |-> step(g, k)]
      BY <2>2
    <3> DEFINE h == [k \in 0 .. n |-> IF k = n THEN After(g[n - 1]) ELSE g[k]]
    <3>2. ASSUME NEW k \in 0 .. n PROVE h[k] = step(h, k)
      <4>1. CASE k = n
        <5>1. h[n] = After(g[n - 1]) /\ h[n - 1] = g[n - 1] /\ n # 0
          OBVIOUS
        <5> HIDE DEF h
        <5> QED BY <4>1, <5>1
      <4>2. CASE k # n
        <5>1. k \in 0 .. n - 1
          BY <4>2
        <5>2. g[k] = step(g, k) /\ h[k] = g[k]
          BY <3>1, <4>2, <5>1
        <5>3. k # 0 => h[k - 1] = g[k - 1]
          BY <5>1
        <5> HIDE DEF h
        <5> QED BY <5>2, <5>3
      <4> QED BY <4>1, <4>2
    <3>3. h = [k \in 0 .. n |-> h[k]]
      OBVIOUS
    <3> HIDE DEF h
    <3>4. h = [k \in 0 .. n |-> step(h, k)]
      BY <3>2, <3>3
    <3> QED BY <3>4
  <2> DEFINE U == {n \in Nat : n \notin Defined}
  <2> HIDE DEF Defined
  <2>3. CASE U = {}
    BY <1>1, <2>3
  <2>4. CASE U # {}
    <3>1. PICK n \in U : \A m \in U : n <= m
      BY <2>4, NatMin
    <3>2. n # 0 /\ n \in Nat
      BY <2>1, <3>1
    <3>3. n - 1 \in Nat /\ n - 1 \notin U
      BY <3>1, <3>2
    <3> QED BY <2>2, <3>1, <3>2, <3>3
  <2> QED BY <2>3, <2>4
<1>5. from = [k \in 0 .. end |-> step(from, k)]
  BY <1>4
<1> HIDE DEF from
<1>6. /\ from[0] = 0
      /\ \A k \in 1 .. end : from[k] = After(from[k - 1])
  <2>1. \A k \in 0 .. end : from[k] = step(from, k)
    BY <1>5
  <2> QED BY <1>1, <2>1
<1>7. \A k \in 0 .. end : from[k] \in 0 .. end
  <2> DEFINE B == {k \in 0 .. end : from[k] \notin 0 .. end}
  <2>1. SUFFICES ASSUME B # {} PROVE FALSE
    OBVIOUS
  <2>2. PICK k \in B : \A j \in B : k <= j
    <3>1. B \subseteq Nat
      BY <1>1
    <3> HIDE DEF B
    <3> QED BY <2>1, <3>1, NatMin
  <2>3. k # 0 /\ k \in 1 .. end
    BY <1>1, <1>6, <2>2
  <2>4. k - 1 \in 0 .. end /\ k - 1 \notin B
    BY <1>1, <2>2, <2>3
  <2>5. from[k - 1] \in 0 .. end
    BY <2>4
  <2>6. from[k] \in 0 .. end
    BY <1>3, <1>6, <2>3, <2>5
  <2> QED BY <2>2, <2>6
<1>8. \A j \in 0 .. end : from[j] = end => \A k \in j .. end : from[k] = end
  <2> SUFFICES ASSUME NEW j \in 0 .. end, from[j] = end PROVE \A k \in j .. end : from[k] = end
    OBVIOUS
  <2> DEFINE B == {k \in j .. end : from[k] # end}
  <2>1. SUFFICES ASSUME B # {} PROVE FALSE
    OBVIOUS
  <2>2. PICK k \in B : \A m \in B : k <= m
    <3>1. B \subseteq Nat
      BY <1>1
    <3> HIDE DEF B
    <3> QED BY <2>1, <3>1, NatMin
  <2>3. k # j /\ k \in 1 .. end /\ k - 1 \in j .. end /\ k - 1 \notin B
    BY <1>1, <2>2
  <2> QED BY <1>6, <2>2, <2>3 DEF After
<1>9. IsFiniteSet(D) /\ count \in Nat
  <2>1. IsFiniteSet(0 .. end) /\ D \subseteq 0 .. end
    BY <1>1, FS_Interval
  <2> QED BY <2>1, FS_Subset, FS_CardinalityType
<1>10. ASSUME NEW k \in 1 .. count
       PROVE  k - 1 \in D /\ k \in 1 .. end + 1
  <2>1. SUFFICES ASSUME k - 1 \notin D PROVE FALSE
    BY <1>1, <1>9
  <2>2. D \subseteq 0 .. k - 2
    <3> SUFFICES ASSUME NEW d \in D, d > k - 2 PROVE FALSE
      BY <1>1, <1>9
    <3>1. k - 1 \in 0 .. end /\ d \in k - 1 .. end /\ from[k - 1] = end
      BY <1>1, <1>9, <2>1
    <3> QED BY <1>8, <3>1
  <2>3. IsFiniteSet(0 .. k - 2) /\ Cardinality(0 .. k - 2) = k - 1
    <3> DEFINE e == k - 2
    <3>1. k \in Nat /\ e \in Int /\ (e >= 0 \/ (k = 1 /\ 0 > e)) /\ k - 1 = e - 0 + 1
      BY <1>9
    <3> HIDE DEF e
    <3>2. IsFiniteSet(0 .. e) /\ Cardinality(0 .. e) = IF 0 > e THEN 0 ELSE e - 0 + 1
      BY <3>1, FS_Interval
    <3>3. CASE e >= 0
      BY <3>1, <3>2, <3>3
    <3>4. CASE k = 1 /\ 0 > e
      BY <3>1, <3>2, <3>4
    <3>5. IsFiniteSet(0 .. e) /\ Cardinality(0 .. e) = k - 1
      BY <3>1, <3>2, <3>3, <3>4
    <3> QED BY <3>5 DEF e
  <2>4. count <= k - 1
    BY <2>2, <2>3, FS_Subset
  <2> QED BY <1>9, <2>4
<1>11. ASSUME NEW k \in 1 .. count
       PROVE  k \in 1 .. end
  <2>1. CASE end = 0
    <3>1. D = {}
      BY <1>6, <2>1
    <3> QED BY <1>9, <3>1, FS_EmptySet
  <2>2. CASE end # 0
    <3>1. k - 1 \in D /\ k \in 1 .. end + 1
      BY <1>10
    <3>2. k # end + 1
      <4> SUFFICES ASSUME k = end + 1 PROVE FALSE
        OBVIOUS
      <4> DEFINE B == {m \in 0 .. end : from[m] < m}
      <4>1. end \in B
        BY <1>1, <1>7, <3>1
      <4>2. PICK m \in B : \A q \in B : m <= q
        <5>1. B \subseteq Nat
          BY <1>1
        <5> HIDE DEF B
        <5> QED BY <4>1, <5>1, NatMin
      <4>3. m # 0
        BY <1>6, <4>2
      <4>4. m - 1 \in 0 .. end /\ m \in 1 .. end /\ m - 1 \notin B
        BY <1>1, <4>2, <4>3
      <4>5. from[m - 1] \in 0 .. end /\ from[m] \in 0 .. end /\ from[m - 1] >= m - 1
        BY <1>1, <1>7, <4>2, <4>4
      <4>6. from[m - 1] # end
        BY <1>1, <1>8, <3>1, <4>4
      <4>7. from[m] \in from[m - 1] + 1 .. end
        BY <1>3, <1>6, <4>4, <4>5, <4>6
      <4> QED BY <4>2, <4>4, <4>5, <4>7
    <3> QED BY <1>1, <3>1, <3>2
  <2> QED BY <2>1, <2>2
<1>12. ASSUME NEW k \in 1 .. count
       PROVE  /\ list[k].from \in 0 .. t.size - 1
              /\ k = 1 => list[k].from = 0
              /\ k # 1 => list[k].from \in t.sync
              /\ list[k].number = Rank(t, list[k].from)
              /\ list[k].to = Cut(t, list[k].from, seconds)
              /\ k < count => list[k].to = list[k + 1].from
  <2>1. list[k] = [number |-> Rank(t, from[k - 1]), from |-> from[k - 1], to |-> from[k]]
    OBVIOUS
  <2>2. k - 1 \in 0 .. end /\ from[k - 1] # end /\ k \in 1 .. end
    BY <1>10, <1>11
  <2>3. from[k - 1] \in 0 .. end /\ from[k] = Cut(t, from[k - 1], seconds)
    BY <1>6, <1>7, <2>2 DEF After
  <2>4. k # 1 => from[k - 1] \in t.sync
    <3> SUFFICES ASSUME k # 1 PROVE from[k - 1] \in t.sync
      OBVIOUS
    <3>1. k - 1 \in 1 .. end /\ k - 1 - 1 \in 0 .. end
      BY <1>1, <2>2
    <3>2. from[k - 1] = After(from[k - 1 - 1]) /\ from[k - 1 - 1] \in 0 .. end
      BY <1>6, <1>7, <3>1
    <3> QED BY <1>3, <2>2, <3>2
  <2>5. k < count => list[k + 1].from = from[k]
    <3> SUFFICES ASSUME k < count PROVE list[k + 1].from = from[k]
      OBVIOUS
    <3>1. k + 1 \in 1 .. count /\ k + 1 - 1 = k
      BY <1>9
    <3> QED BY <3>1
  <2> HIDE DEF list
  <2> QED BY <1>1, <1>6, <2>1, <2>2, <2>3, <2>4, <2>5
<1> HIDE DEF list, count
<1>13. DOMAIN list = 1 .. count
  BY DEF list
<1>14. EntriesAre(list, t, seconds, count)
  BY <1>12, <1>13 DEF EntriesAre
<1> QED BY <1>2, <1>9, <1>14

-----------------------------------------------------------------------------
(* Which fragments a request for a segment is answered with                *)

\* There is no sync sample number n in a track that has no more than n.
LEMMA NumberedWithin ==
  ASSUME NEW t, IsTrak(t), NEW n \in Nat
  PROVE  Numbered(t, n) # {} <=> n < Rank(t, t.size)
<1>1. t.size \in 0 .. t.size /\ \A s \in Numbered(t, n) : s < t.size
  BY DEF IsTrak, Numbered
<1> QED BY <1>1, NumberedBefore

\* The one sync sample with a number is the smallest.
LEMMA MinNumbered ==
  ASSUME NEW t, IsTrak(t), NEW n \in Nat, Numbered(t, n) # {}
  PROVE  /\ Min(Numbered(t, n)) \in t.sync
         /\ Rank(t, Min(Numbered(t, n))) = n
         /\ Numbered(t, n) = {Min(Numbered(t, n))}
<1>1. PICK s \in Numbered(t, n) : TRUE
  OBVIOUS
<1>2. s \in t.sync /\ Rank(t, s) = n
  BY <1>1 DEF Numbered
<1>3. Numbered(t, n) = {s} /\ s \in Int
  BY <1>2, NumberIdentifiesSync DEF IsTrak
<1>4. Min(Numbered(t, n)) = s
  BY <1>3, MinIsLeast
<1> QED BY <1>2, <1>3, <1>4

\* A file, as it may be asked for.
IsFile(file) ==
  /\ Len(file) \in Nat /\ DOMAIN file = 1 .. Len(file)
  /\ \A k \in DOMAIN file : IsTrak(file[k])

\* The second fragment of an answer: get_next is given the number of sync
\* samples inside the first.
SecondOf(file, k1, k2, n, secs) ==
  LET f1 == FragmentOf(file, k1, n, secs, 0)
  IN  FragmentOf(file, k2, n, secs, Inside(file[k1 + 1], f1.first, f1.last))

\* The tracks a number asks for are finitely many, and tracks of the file.
LEMMA WantedTracks ==
  ASSUME NEW file, IsFile(file), NEW aud, NEW n
  PROVE  /\ Wanted(file, aud, n) \subseteq 0 .. Len(file) - 1
         /\ Wanted(file, aud, n) \subseteq Nat
         /\ IsFiniteSet(Wanted(file, aud, n))
<1>1. Wanted(file, aud, n) \subseteq 0 .. Len(file) - 1
  BY DEF Wanted
<1>2. Len(file) - 1 \in Int /\ 0 \in Int
  BY DEF IsFile
<1>3. IsFiniteSet(0 .. Len(file) - 1)
  BY <1>2, FS_Interval
<1>4. IsFiniteSet(Wanted(file, aud, n))
  BY <1>1, <1>3, FS_Subset
<1>5. 0 .. Len(file) - 1 \subseteq Nat
  BY <1>2
<1> QED BY <1>1, <1>4, <1>5

\* A set of numbers is empty, or has one element, or a first and a second.
LEMMA FirstAndSecond ==
  ASSUME NEW W, W \subseteq Nat
  PROVE  \/ W = {}
         \/ \E k1 \in W : W = {k1}
         \/ \E k1, k2 \in W : k1 < k2 /\ \A j \in W : j = k1 \/ k2 <= j
<1>1. CASE W # {}
  <2>1. PICK k1 \in W : \A j \in W : k1 <= j
    BY <1>1, NatMin
  <2>2. CASE W \ {k1} = {}
    <3>1. W = {k1}
      BY <2>1, <2>2
    <3> QED BY <2>1, <3>1
  <2>3. CASE W \ {k1} # {}
    <3>1. PICK k2 \in W \ {k1} : \A j \in W \ {k1} : k2 <= j
      BY <2>3, NatMin
    <3>2. k1 < k2 /\ \A j \in W : j = k1 \/ k2 <= j
      BY <2>1, <3>1
    <3> QED BY <2>1, <3>1, <3>2
  <2> QED BY <2>2, <2>3
<1> QED BY <1>1

\* What FragmentsOf is in each case, without Min and Cardinality.
LEMMA FragmentsShape ==
  ASSUME NEW file, IsFile(file), NEW aud, NEW n, NEW secs
  PROVE  LET W  == Wanted(file, aud, n)
             fs == FragmentsOf(file, aud, n, secs)
         IN  /\ W = {} => fs = <<>>
             /\ \A k1 : W = {k1} => fs = <<FragmentOf(file, k1, n, secs, 0)>>
             /\ \A k1, k2 \in W :
                  k1 < k2 /\ (\A j \in W : j = k1 \/ k2 <= j) =>
                    fs = <<FragmentOf(file, k1, n, secs, 0), SecondOf(file, k1, k2, n, secs)>>
<1> DEFINE W == Wanted(file, aud, n)
<1>1. W \subseteq 0 .. Len(file) - 1 /\ IsFiniteSet(W) /\ W \subseteq Int
  <2>1. W \subseteq 0 .. Len(file) - 1 /\ W \subseteq Nat /\ IsFiniteSet(W)
    BY WantedTracks
  <2> HIDE DEF W
  <2> QED BY <2>1
<1>2. ASSUME W = {} PROVE FragmentsOf(file, aud, n, secs) = <<>>
  <2>1. Wanted(file, aud, n) = {}
    BY <1>2
  <2> QED BY <2>1, FS_EmptySet DEF FragmentsOf
<1>3. ASSUME NEW k1, W = {k1}
      PROVE  FragmentsOf(file, aud, n, secs) = <<FragmentOf(file, k1, n, secs, 0)>>
  <2>1. Cardinality(W) = 1 /\ W # {}
    BY <1>3, FS_Singleton
  <2>2. Min(W) = k1
    <3>1. k1 \in W /\ \A j \in W : k1 <= j
      BY <1>1, <1>3
    <3> QED BY <1>1, <3>1, MinIsLeast
  <2> QED BY <2>1, <2>2 DEF FragmentsOf
<1>4. ASSUME NEW k1 \in W, NEW k2 \in W, k1 < k2, \A j \in W : j = k1 \/ k2 <= j
      PROVE  FragmentsOf(file, aud, n, secs)
               = <<FragmentOf(file, k1, n, secs, 0), SecondOf(file, k1, k2, n, secs)>>
  <2>1. k1 \in Int /\ k2 \in Int
    BY <1>1
  <2>2. W # {} /\ Cardinality(W) # 1
    BY <1>1, <1>4, <2>1, FS_Singleton
  <2>3. Min(W) = k1
    <3>1. \A j \in W : k1 <= j
      BY <1>1, <1>4
    <3> QED BY <1>1, <3>1, MinIsLeast
  <2>4. Min(W \ {k1}) = k2
    <3>1. k2 \in W \ {k1} /\ \A j \in W \ {k1} : k2 <= j
      BY <1>1, <1>4
    <3> QED BY <1>1, <3>1, MinIsLeast
  <2> QED BY <2>2, <2>3, <2>4 DEF FragmentsOf, SecondOf
<1> QED BY <1>2, <1>3, <1>4

\* A request for the number of a playlist entry that starts at a sync sample is
\* answered with the samples of that entry: the number identifies the sync
\* sample, and get_next stops where the playlist cut.
LEMMA EntryAnswered ==
  ASSUME NEW file, IsFile(file), Len(file) > 0, file[1].kind = "vide",
         NEW aud \in Nat, NEW secs \in Nat,
         NEW k \in DOMAIN PlaylistOf(file[1], secs),
         PlaylistOf(file[1], secs)[k].from \in file[1].sync
  PROVE  LET e  == PlaylistOf(file[1], secs)[k]
             fs == FragmentsOf(file, aud, e.number, secs)
         IN  fs # <<>> /\ fs[1] = [track |-> 0, first |-> e.from, last |-> e.to]
<1> DEFINE t == file[1]
           e == PlaylistOf(t, secs)[k]
           n == e.number
           W == Wanted(file, aud, n)
<1>1. IsTrak(t) /\ 1 \in DOMAIN file /\ 0 \in 0 .. Len(file) - 1
  BY DEF IsFile
<1>2. e.number = Rank(t, e.from) /\ e.to = Cut(t, e.from, secs) /\ e.from \in 0 .. t.size - 1
  <2> DEFINE list == PlaylistOf(t, secs)
  <2>1. PICK N \in Nat : EntriesAre(list, t, secs, N)
    <3> HIDE DEF t
    <3> QED BY <1>1, ListsTheCuts
  <2>2. k \in 1 .. N
    BY <2>1 DEF EntriesAre
  <2> HIDE DEF list
  <2>3. e = list[k]
    BY DEF list
  <2> HIDE DEF e
  <2> QED BY <2>1, <2>2, <2>3 DEF EntriesAre
<1>3. e.from \in t.sync /\ e.from \in Int
  BY <1>1, <1>2 DEF IsTrak
<1> HIDE DEF e
<1>4. Numbered(t, n) = {e.from} /\ Min(Numbered(t, n)) = e.from
  <2>1. Numbered(t, n) = {e.from}
    BY <1>1, <1>2, <1>3, NumberIdentifiesSync
  <2> HIDE DEF n, t
  <2>2. Min({e.from}) = e.from
    BY <1>3, MinOfOne
  <2> QED BY <2>1, <2>2
<1>t. t = file[0 + 1] /\ t.kind = "vide"
  OBVIOUS
<1> HIDE DEF t, n
<1>5. 0 \in W
  BY <1>1, <1>4, <1>t DEF Wanted
<1>6. FragmentOf(file, 0, n, secs, 0) = [track |-> 0, first |-> e.from, last |-> e.to]
  BY <1>2, <1>4, <1>t DEF FragmentOf, GetNext
<1>7. W \subseteq Nat
  BY WantedTracks
<1>8. FragmentsOf(file, aud, n, secs) # <<>>
      /\ FragmentsOf(file, aud, n, secs)[1] = FragmentOf(file, 0, n, secs, 0)
  <2>1. CASE \E k1 : W = {k1}
    <3>1. W = {0}
      BY <1>5, <2>1
    <3>2. FragmentsOf(file, aud, n, secs) = <<FragmentOf(file, 0, n, secs, 0)>>
      BY <3>1, FragmentsShape
    <3> QED BY <3>2
  <2>2. CASE \E k1, k2 \in W : k1 < k2 /\ \A j \in W : j = k1 \/ k2 <= j
    <3>1. PICK k1 \in W, k2 \in W : k1 < k2 /\ \A j \in W : j = k1 \/ k2 <= j
      BY <2>2
    <3>2. k1 = 0
      BY <1>5, <1>7, <3>1
    <3>3. FragmentsOf(file, aud, n, secs)
            = <<FragmentOf(file, k1, n, secs, 0), SecondOf(file, k1, k2, n, secs)>>
      BY <3>1, FragmentsShape
    <3> QED BY <3>2, <3>3
  <2>3. W # {}
    BY <1>5
  <2> HIDE DEF W
  <2> QED BY <1>7, <2>1, <2>2, <2>3, FirstAndSecond
<1> QED BY <1>6, <1>8 DEF e, n, t

-----------------------------------------------------------------------------
(* The audio markers                                                       *)

\* The conversion between time scales rounds down.
LEMMA DivBounds ==
  ASSUME NEW x \in Nat, NEW d \in Nat \ {0}
  PROVE  x \div d \in Nat /\ (x \div d) * d <= x /\ x < (x \div d) * d + d
<1>1. x \div d \in Nat
  BY Z3
<1>2. (x \div d) * d <= x /\ x < (x \div d) * d + d
  BY Z3
<1> QED BY <1>1, <1>2

\* A positive factor may be taken from both sides.
LEMMA LessTimes ==
  ASSUME NEW x \in Int, NEW y \in Int, NEW d \in Nat \ {0}, x * d < y * d
  PROVE  x < y
BY Z3

\* Converting a time rounds down, by less than a unit.
LEMMA ConvertBounds ==
  ASSUME NEW x \in Nat, NEW to \in Nat \ {0}, NEW from \in Nat \ {0}
  PROVE  /\ ConvertTime(x, to, from) \in Nat
         /\ ConvertTime(x, to, from) * from <= x * to
         /\ x * to < ConvertTime(x, to, from) * from + from
<1>1. x * to \in Nat
  BY Z3
<1> DEFINE n == x * to
<1> HIDE DEF n
<1>2. n \div from \in Nat /\ (n \div from) * from <= n /\ n < (n \div from) * from + from
  BY <1>1, DivBounds DEF n
<1> QED BY <1>2 DEF n, ConvertTime

\* Converting keeps the order of times.
LEMMA ConvertMonotone ==
  ASSUME NEW x \in Nat, NEW y \in Nat, x <= y, NEW to \in Nat \ {0}, NEW from \in Nat \ {0}
  PROVE  ConvertTime(x, to, from) <= ConvertTime(y, to, from)
<1> DEFINE p == ConvertTime(x, to, from)
           q == ConvertTime(y, to, from)
<1>1. p \in Nat /\ q \in Nat /\ p * from <= x * to /\ y * to < q * from + from
  BY ConvertBounds
<1>2. x * to <= y * to /\ x * to \in Nat /\ y * to \in Nat
  BY Z3
<1> HIDE DEF p, q
<1>3. (q + 1) * from = q * from + from /\ p * from \in Int /\ q * from \in Int
  BY <1>1, Z3
<1>4. p * from < (q + 1) * from
  BY <1>1, <1>2, <1>3
<1>5. p < q + 1
  BY <1>1, <1>4, LessTimes
<1> QED BY <1>1, <1>5 DEF p, q

\* The marker of a sample is the first audio sample that does not start before
\* it, when there is one.
LEMMA MarkerFacts ==
  ASSUME NEW v, NEW a, IsTrak(v), IsTrak(a), NEW s \in 0 .. v.size
  PROVE  LET m    == MarkerOf(v, a, s)
             time == ConvertTime(v.pts[s], a.scale, v.scale)
         IN  /\ m \in 0 .. a.size
             /\ m # a.size => /\ s # v.size /\ a.pts[m] >= time
                              /\ \A x \in 0 .. a.size - 1 : a.pts[x] >= time => m <= x
             /\ \A x \in 0 .. a.size - 1 :
                  s # v.size /\ a.pts[x] >= time => m # a.size
<1> DEFINE m     == MarkerOf(v, a, s)
           time  == ConvertTime(v.pts[s], a.scale, v.scale)
           later == {x \in 0 .. a.size - 1 : a.pts[x] >= time}
<1>1. a.size \in Nat
  BY DEF IsTrak
<1>2. m = IF s = v.size \/ later = {} THEN a.size ELSE Min(later)
  BY DEF MarkerOf
<1> HIDE DEF m, time
<1>3. CASE s = v.size \/ later = {}
  <2>1. \A x \in 0 .. a.size - 1 : ~ (s # v.size /\ a.pts[x] >= time)
    BY <1>3
  <2> HIDE DEF later
  <2> QED BY <1>1, <1>2, <1>3, <2>1 DEF m, time
<1>4. CASE ~ (s = v.size \/ later = {})
  <2>1. later \subseteq Nat /\ later \subseteq Int
    BY <1>1
  <2>2. PICK d \in later : \A x \in later : d <= x
    <3> HIDE DEF later
    <3> QED BY <1>4, <2>1, NatMin
  <2>3. m = d
    <3> HIDE DEF later
    <3> QED BY <1>2, <1>4, <2>1, <2>2, MinIsLeast
  <2>4. d \in 0 .. a.size - 1 /\ a.pts[d] >= time
    BY <2>2
  <2>5. \A x \in 0 .. a.size - 1 : a.pts[x] >= time => d <= x
    BY <2>2
  <2> HIDE DEF later
  <2> QED BY <1>1, <1>4, <2>3, <2>4, <2>5 DEF m, time
<1> QED BY <1>3, <1>4

\* Later samples have later markers, or share one.
LEMMA MarkerMonotone ==
  ASSUME NEW v, NEW a, IsTrak(v), IsTrak(a),
         NEW r \in 0 .. v.size, NEW s \in 0 .. v.size, r <= s
  PROVE  MarkerOf(v, a, r) <= MarkerOf(v, a, s)
<1> DEFINE timeR == ConvertTime(v.pts[r], a.scale, v.scale)
           timeS == ConvertTime(v.pts[s], a.scale, v.scale)
           mr == MarkerOf(v, a, r)
           ms == MarkerOf(v, a, s)
<1>1. a.size \in Nat /\ v.size \in Nat /\ mr \in 0 .. a.size /\ ms \in 0 .. a.size
  BY MarkerFacts DEF IsTrak
<1>2. CASE ms = a.size
  <2> HIDE DEF mr, ms
  <2>1. mr <= ms
    BY <1>1, <1>2
  <2> QED BY <2>1 DEF mr, ms
<1>3. CASE ms # a.size
  <2>1. timeR <= timeS
    <3>1. v.pts[r] <= v.pts[s] /\ v.pts[r] \in Nat /\ v.pts[s] \in Nat
          /\ a.scale \in Nat \ {0} /\ v.scale \in Nat \ {0}
      BY DEF IsTrak
    <3> QED BY <3>1, ConvertMonotone
  <2>2. s # v.size /\ a.pts[ms] >= timeS
    BY <1>3, MarkerFacts
  <2>3. ms \in 0 .. a.size - 1 /\ a.pts[ms] \in Nat
    <3>1. a.pts[ms] \in Nat
      BY <1>1 DEF IsTrak
    <3> HIDE DEF ms
    <3> QED BY <1>1, <1>3, <3>1
  <2>4. timeR \in Nat /\ timeS \in Nat
    <3>1. v.pts[r] \in Nat /\ v.pts[s] \in Nat
          /\ a.scale \in Nat \ {0} /\ v.scale \in Nat \ {0}
      BY DEF IsTrak
    <3> QED BY <3>1, ConvertBounds
  <2>5. a.pts[ms] >= timeR
    <3> HIDE DEF timeR, timeS, ms
    <3> QED BY <2>1, <2>2, <2>3, <2>4
  <2>6. r # v.size
    BY <1>1, <2>2
  <2>7. mr # a.size
    <3>1. \A x \in 0 .. a.size - 1 : r # v.size /\ a.pts[x] >= timeR => mr # a.size
      BY MarkerFacts
    <3> HIDE DEF ms, mr, timeR
    <3> QED BY <2>3, <2>5, <2>6, <3>1
  <2>8. \A x \in 0 .. a.size - 1 : a.pts[x] >= timeR => mr <= x
    BY <2>7, MarkerFacts
  <2> HIDE DEF ms, mr, timeR
  <2>9. mr <= ms
    BY <2>3, <2>5, <2>8
  <2> QED BY <2>9 DEF ms, mr
<1> QED BY <1>2, <1>3

\* The sync samples of the audio are the markers of those of the video.
LEMMA MarkersAre ==
  ASSUME NEW v, NEW a, IsTrak(v), IsTrak(a), MarkedBy(v, a)
  PROVE  /\ \A m \in a.sync : \E s \in v.sync : MarkerOf(v, a, s) = m /\ m # a.size
         /\ \A s \in v.sync : MarkerOf(v, a, s) # a.size => MarkerOf(v, a, s) \in a.sync
<1> DEFINE later(s) == {x \in 0 .. a.size - 1 :
                          a.pts[x] >= ConvertTime(v.pts[s], a.scale, v.scale)}
<1>1. a.sync = {Min(later(s)) : s \in {x \in v.sync : later(x) # {}}}
  BY DEF MarkedBy, MarkersFromVideo, Min
<1>2. \A s \in v.sync : MarkerOf(v, a, s) = IF later(s) = {} THEN a.size ELSE Min(later(s))
  BY DEF MarkerOf, IsTrak
<1>3. a.sync \subseteq 0 .. a.size - 1 /\ a.size \in Nat
  BY DEF IsTrak
<1> HIDE DEF later
<1>4. ASSUME NEW m \in a.sync
      PROVE  \E s \in v.sync : MarkerOf(v, a, s) = m /\ m # a.size
  <2>1. PICK s \in v.sync : later(s) # {} /\ m = Min(later(s))
    BY <1>1
  <2>2. MarkerOf(v, a, s) = m
    BY <1>2, <2>1
  <2> QED BY <1>3, <2>2
<1>5. ASSUME NEW s \in v.sync, MarkerOf(v, a, s) # a.size
      PROVE  MarkerOf(v, a, s) \in a.sync
  BY <1>1, <1>2, <1>5
<1> QED BY <1>4, <1>5

\* Where no two sync samples share a marker, the markers are numbered as the
\* sync samples they come from.
LEMMA MarkerNumber ==
  ASSUME NEW v, NEW a, IsTrak(v), IsTrak(a), MarkedBy(v, a), MarkersApart(v, a),
         NEW s \in v.sync, MarkerOf(v, a, s) # a.size
  PROVE  /\ MarkerOf(v, a, s) \in a.sync
         /\ Rank(a, MarkerOf(v, a, s)) = Rank(v, s)
<1> DEFINE M == [r \in v.sync |-> MarkerOf(v, a, r)]
           S == {r \in v.sync : r < s}
           T == {x \in a.sync : x < M[s]}
           f == [r \in S |-> M[r]]
<1>1. v.sync \subseteq 0 .. v.size - 1 /\ v.size \in Nat /\ a.sync \subseteq 0 .. a.size - 1
      /\ a.size \in Nat
  BY DEF IsTrak
<1>2. /\ \A x \in a.sync : \E r \in v.sync : M[r] = x
      /\ \A r \in v.sync : M[r] # a.size => M[r] \in a.sync
  BY MarkersAre
<1>3. \A r \in v.sync : M[r] \in 0 .. a.size
  BY <1>1, MarkerFacts
<1>4. \A r, q \in v.sync : r <= q => M[r] <= M[q]
  <2> SUFFICES ASSUME NEW r \in v.sync, NEW q \in v.sync, r <= q PROVE M[r] <= M[q]
    OBVIOUS
  <2>1. r \in 0 .. v.size /\ q \in 0 .. v.size
    BY <1>1
  <2> QED BY <2>1, MarkerMonotone
<1>5. \A r, q \in v.sync : r # q => M[r] # M[q] \/ M[r] = a.size
  BY DEF MarkersApart
<1>6. M[s] # a.size /\ M[s] = MarkerOf(v, a, s)
  OBVIOUS
<1> HIDE DEF M
<1>7. \A r \in S : M[r] \in T
  <2> SUFFICES ASSUME NEW r \in S PROVE M[r] \in T
    OBVIOUS
  <2>1. r \in v.sync /\ r < s /\ r \in Int /\ s \in Int
    BY <1>1
  <2>2. (M[r] <= M[s] /\ M[r] # M[s]) \/ M[r] = a.size
    BY <1>4, <1>5, <2>1
  <2>3. M[r] \in 0 .. a.size /\ M[s] \in 0 .. a.size /\ M[r] <= M[s]
    BY <1>3, <1>4, <2>1
  <2>4. M[r] # a.size /\ M[r] < M[s]
    BY <1>1, <1>6, <2>2, <2>3
  <2> QED BY <1>2, <2>1, <2>4
<1>8. \A x \in T : \E r \in S : M[r] = x
  <2> SUFFICES ASSUME NEW x \in T PROVE \E r \in S : M[r] = x
    OBVIOUS
  <2>1. PICK r \in v.sync : M[r] = x
    BY <1>2
  <2>2. r \in Int /\ s \in Int /\ M[r] \in Int /\ M[s] \in Int /\ M[r] < M[s]
    BY <1>1, <1>3, <2>1
  <2>3. r < s
    BY <1>4, <2>2
  <2> QED BY <2>1, <2>3
<1>9. f \in Bijection(S, T)
  <2>1. f \in [S -> T] /\ \A x \in T : \E r \in S : f[r] = x
    BY <1>7, <1>8
  <2>2. \A r, q \in S : f[r] = f[q] => r = q
    <3> SUFFICES ASSUME NEW r \in S, NEW q \in S, f[r] = f[q] PROVE r = q
      OBVIOUS
    <3>1. M[r] = M[q] /\ M[r] \in a.sync
      BY <1>7
    <3>2. M[r] # a.size
      BY <1>1, <3>1
    <3> QED BY <1>5, <3>1, <3>2
  <2> HIDE DEF f, S, T
  <2> QED BY <2>1, <2>2 DEF Bijection, Injection, Surjection, IsInjective
<1>10. IsFiniteSet(S)
  <2>1. s \in Int
    BY <1>1
  <2> QED BY <2>1, RankType
<1>11. Cardinality(T) = Cardinality(S)
  <2> HIDE DEF f, S, T
  <2>1. ExistsBijection(S, T)
    BY <1>9 DEF ExistsBijection
  <2> QED BY <1>10, <2>1, FS_Bijection
<1>12. Rank(v, s) = Cardinality(S) /\ Rank(a, M[s]) = Cardinality(T)
  BY DEF Rank
<1>13. M[s] \in a.sync
  BY <1>2, <1>6
<1> HIDE DEF S, T
<1> QED BY <1>6, <1>11, <1>12, <1>13

\* The segment from x to y of v is longer than asked for by at least one
\* sample of a and the rounding of the conversion.
Longer(v, a, x, y, secs) ==
  \A s \in 0 .. a.size - 1 :
    (v.pts[y] - v.pts[x]) * a.scale
      >= (secs * a.scale + a.pts[s + 1] - a.pts[s] + 1) * v.scale

\* Then the marker of y is far enough from that of x for the audio to be cut
\* there: what the arithmetic of the two time scales comes to.
LEMMA FarEnough ==
  ASSUME NEW P \in Nat, NEW Q \in Nat,            \* times of x and y in v
         NEW va \in Nat \ {0}, NEW sa \in Nat \ {0}, \* scales of v and a
         NEW secs \in Nat,
         NEW m0 \in Nat, NEW m1 \in Nat, NEW mk \in Nat, \* before, at, end in a
         (Q - P) * sa >= (secs * sa + m1 - m0 + 1) * va,
         mk >= ConvertTime(Q, sa, va),
         m0 < ConvertTime(P, sa, va)
  PROVE  mk - m1 >= secs * sa
<1> DEFINE cp == ConvertTime(P, sa, va)
           cq == ConvertTime(Q, sa, va)
           w  == secs * sa
           psa == P * sa
           qsa == Q * sa
<1>1. cp \in Nat /\ cq \in Nat /\ cp * va <= psa /\ qsa < cq * va + va
  BY ConvertBounds
<1>2. w \in Nat /\ psa \in Nat /\ qsa \in Nat
  BY Z3
<1>3. (Q - P) * sa = qsa - psa
  BY Z3
<1> HIDE DEF cp, cq, w, psa, qsa
<1>4. qsa - psa >= (w + m1 - m0 + 1) * va
  BY <1>3 DEF w
<1>5. m0 + 1 <= cp /\ cq <= mk
  BY <1>1 DEF cp, cq
<1>6. (m0 + 1) * va <= cp * va /\ cq * va <= mk * va
  BY <1>1, <1>5, Z3
<1>7. /\ (w + m1 - m0 + 1) * va + (m0 + 1) * va = (w + m1 + 2) * va
      /\ mk * va + va = (mk + 1) * va
      /\ (w + m1 - m0 + 1) * va \in Int /\ (m0 + 1) * va \in Int
      /\ mk * va \in Int /\ cq * va \in Int /\ cp * va \in Int
      /\ (w + m1 + 2) * va \in Int /\ (mk + 1) * va \in Int
  BY <1>1, <1>2, Z3
<1>8. (w + m1 + 2) * va < (mk + 1) * va
  BY <1>1, <1>2, <1>4, <1>6, <1>7
<1>9. w + m1 + 2 < mk + 1
  BY <1>2, <1>8, LessTimes
<1>10. mk - m1 >= w
  BY <1>2, <1>9
<1> QED BY <1>10 DEF w

\* The same where the audio begins: its first sample is at 0.
LEMMA FarEnoughAtFirst ==
  ASSUME NEW P \in Nat, NEW Q \in Nat, NEW va \in Nat \ {0}, NEW sa \in Nat \ {0},
         NEW secs \in Nat, NEW m1 \in Nat, NEW mk \in Nat,
         (Q - P) * sa >= (secs * sa + m1 - 0 + 1) * va,
         mk >= ConvertTime(Q, sa, va)
  PROVE  mk - 0 >= secs * sa
<1> DEFINE cq == ConvertTime(Q, sa, va)
           w  == secs * sa
           psa == P * sa
           qsa == Q * sa
<1>1. cq \in Nat /\ qsa < cq * va + va
  BY ConvertBounds
<1>2. w \in Nat /\ psa \in Nat /\ qsa \in Nat
  BY Z3
<1>3. (Q - P) * sa = qsa - psa
  BY Z3
<1> HIDE DEF cq, w, psa, qsa
<1>4. qsa - psa >= (w + m1 - 0 + 1) * va
  BY <1>3 DEF w
<1>5. cq * va <= mk * va
  <2>1. cq <= mk
    BY DEF cq
  <2> QED BY <1>1, <2>1, Z3
<1>6. /\ (w + m1 - 0 + 1) * va >= (w + 1) * va
      /\ mk * va + va = (mk + 1) * va
      /\ (w + m1 - 0 + 1) * va \in Int /\ (w + 1) * va \in Int
      /\ mk * va \in Int /\ cq * va \in Int /\ (mk + 1) * va \in Int
  BY <1>1, <1>2, Z3
<1>7. (w + 1) * va < (mk + 1) * va
  BY <1>1, <1>2, <1>4, <1>5, <1>6
<1>8. w + 1 < mk + 1
  BY <1>2, <1>7, LessTimes
<1>9. mk - 0 >= w
  BY <1>2, <1>8
<1> QED BY <1>9 DEF w

-----------------------------------------------------------------------------
\* Whatever lies behind a sync sample has a higher rank.
LEMMA RankStrict ==
  ASSUME NEW t, IsTrak(t), NEW p \in t.sync, NEW q \in Nat, p < q
  PROVE  Rank(t, p) \in Nat /\ Rank(t, q) \in Nat /\ Rank(t, p) < Rank(t, q)
<1>1. p \in Nat /\ p \in Int /\ q \in Int
  BY DEF IsTrak
<1>2. Rank(t, p) \in Nat /\ Rank(t, q) \in Nat
  BY <1>1, RankType
<1>3. Rank(t, p) < Rank(t, q)
  BY <1>1, RankMonotone
<1> QED BY <1>2, <1>3

\* A segment of the audio starts at the marker of the video's, runs at least to
\* the marker of its end, and stops there when other sync samples lie inside
\* or the segment has a frame to spare.
LEMMA AudioSegment ==
  ASSUME NEW v, NEW a, IsTrak(v), IsTrak(a), MarkedBy(v, a), MarkersApart(v, a),
         NEW secs \in Nat,
         NEW x \in v.sync, NEW m \in a.sync, Rank(a, m) = Rank(v, x)
  PROVE  LET y    == Cut(v, x, secs)
             last == GetNext(a, m, secs, Inside(v, x, y))
         IN  /\ m = MarkerOf(v, a, x)
             /\ last >= MarkerOf(v, a, y)
             /\ Inside(v, x, y) > 0 \/ Longer(v, a, x, y, secs) =>
                  last = MarkerOf(v, a, y)
<1> DEFINE y     == Cut(v, x, secs)
           chunk == Inside(v, x, y)
           last  == GetNext(a, m, secs, chunk)
           mk    == MarkerOf(v, a, y)
<1>1. /\ v.sync \subseteq 0 .. v.size - 1 /\ v.size \in Nat
      /\ a.sync \subseteq 0 .. a.size - 1 /\ a.size \in Nat
  BY DEF IsTrak
<1>2. x \in 0 .. v.size /\ x # v.size /\ x \in Nat /\ m \in 0 .. a.size /\ m \in Nat
      /\ m # a.size
  BY <1>1
<1>3. y \in x + 1 .. v.size /\ (y \in v.sync \/ y = v.size)
  <2>1. y \in CutPoints(v, x, secs)
    BY <1>2, CutProperties
  <2> QED BY <2>1 DEF CutPoints, Smooth
<1> HIDE DEF y
<1>4. y \in 0 .. v.size /\ y \in Nat /\ x < y
  BY <1>1, <1>2, <1>3
<1>5. Rank(v, x) \in Nat /\ Rank(v, y) \in Nat /\ Rank(v, x) < Rank(v, y)
  BY <1>4, RankStrict
<1>6. chunk \in Nat /\ Rank(a, m) + 1 + chunk = Rank(v, y)
  BY <1>5 DEF Inside
<1>7. ASSUME NEW n \in a.sync
      PROVE  \E s \in v.sync : n = MarkerOf(v, a, s) /\ Rank(a, n) = Rank(v, s)
  <2>1. PICK s \in v.sync : MarkerOf(v, a, s) = n /\ n # a.size
    BY MarkersAre
  <2> QED BY <2>1, MarkerNumber
<1>8. m = MarkerOf(v, a, x)
  <2>1. PICK s \in v.sync : m = MarkerOf(v, a, s) /\ Rank(a, m) = Rank(v, s)
    BY <1>7
  <2>2. s \in Numbered(v, Rank(v, x)) /\ Numbered(v, Rank(v, x)) = {x}
    BY <2>1, NumberIdentifiesSync DEF Numbered
  <2> QED BY <2>1, <2>2
<1>9. mk \in 0 .. a.size
  BY <1>4, MarkerFacts
<1>10. y \in v.sync /\ mk # a.size => mk \in a.sync /\ Rank(a, mk) = Rank(v, y)
  BY MarkerNumber
<1>11. y = v.size => mk = a.size
  BY DEF MarkerOf
<1> HIDE DEF chunk, mk
<1>12. CASE chunk # 0
  <2> DEFINE after == Numbered(a, Rank(a, m) + 1 + chunk)
  <2>1. last = IF after = {} THEN a.size ELSE Min(after)
    BY <1>12 DEF GetNext
  <2>2. after = Numbered(a, Rank(v, y))
    BY <1>6
  <2>3. CASE y = v.size
    <3>1. after = {}
      <4> SUFFICES ASSUME NEW n \in after PROVE FALSE
        OBVIOUS
      <4>1. n \in a.sync /\ Rank(a, n) = Rank(v, y)
        BY <2>2 DEF Numbered
      <4>2. PICK s \in v.sync : Rank(a, n) = Rank(v, s)
        BY <1>7, <4>1
      <4>3. s \in Nat /\ s < y /\ s \in Int /\ y \in Nat
        BY <1>1, <2>3
      <4>4. Rank(v, s) < Rank(v, y) /\ Rank(v, s) \in Nat
        BY <4>3, RankMonotone, RankType
      <4> QED BY <1>5, <4>1, <4>2, <4>4
    <3> HIDE DEF after
    <3> QED BY <1>8, <1>9, <1>11, <2>1, <2>3, <3>1 DEF mk, chunk, y
  <2>4. CASE y # v.size
    <3>1. y \in v.sync
      BY <1>3, <2>4
    <3>2. \A n \in after : n = mk /\ mk # a.size
      <4> SUFFICES ASSUME NEW n \in after PROVE n = mk /\ mk # a.size
        OBVIOUS
      <4>1. n \in a.sync /\ Rank(a, n) = Rank(v, y)
        BY <2>2 DEF Numbered
      <4>2. PICK s \in v.sync : n = MarkerOf(v, a, s) /\ Rank(a, n) = Rank(v, s)
        BY <1>7, <4>1
      <4>3. s = y
        <5>1. s \in Numbered(v, Rank(v, y)) /\ Numbered(v, Rank(v, y)) = {y}
          BY <3>1, <4>1, <4>2, NumberIdentifiesSync DEF Numbered
        <5> QED BY <5>1
      <4>4. n = mk
        BY <4>2, <4>3 DEF mk
      <4> QED BY <1>1, <4>1, <4>4
    <3>3. mk # a.size => mk \in after
      BY <1>10, <2>2, <3>1 DEF Numbered
    <3>4. mk # a.size => after = {mk}
      <4> HIDE DEF after
      <4> QED BY <3>2, <3>3
    <3>5. mk = a.size => after = {}
      <4> HIDE DEF after
      <4> QED BY <3>2
    <3> HIDE DEF after, last
    <3>6. last = mk
      <4>1. CASE mk = a.size
        BY <2>1, <3>5, <4>1
      <4>2. CASE mk # a.size
        <5>1. mk \in Int
          BY <1>9
        <5>2. Min({mk}) = mk
          BY <5>1, MinOfOne
        <5> QED BY <2>1, <3>4, <4>2, <5>2
      <4> QED BY <4>1, <4>2
    <3>7. last >= mk
      BY <1>9, <3>6
    <3> QED BY <1>8, <3>6, <3>7 DEF mk, chunk, y, last
  <2> QED BY <2>3, <2>4
<1>13. CASE chunk = 0
  <2>1. last = Cut(a, m, secs)
    BY <1>13 DEF GetNext
  <2> HIDE DEF last
  <2>2. /\ last \in CutPoints(a, m, secs)
        /\ \A p \in CutPoints(a, m, secs) : last <= p
    BY <1>2, <2>1, CutProperties
  <2>3. last \in m + 1 .. a.size /\ (last \in a.sync \/ last = a.size) /\ last \in Nat
    BY <1>2, <2>2 DEF CutPoints, Smooth
  <2>4. last >= mk
    <3> SUFFICES ASSUME last < mk PROVE FALSE
      BY <1>9, <2>3
    <3>1. last \in a.sync
      BY <1>9, <2>3
    <3>2. PICK s \in v.sync : last = MarkerOf(v, a, s) /\ Rank(a, last) = Rank(v, s)
      BY <1>7, <3>1
    <3>3. s \in Nat /\ s \in 0 .. v.size
      BY <1>1
    <3>4. Rank(a, m) < Rank(a, last) /\ Rank(a, m) \in Nat /\ Rank(a, last) \in Nat
      <4>1. m < last
        BY <1>2, <2>3
      <4> QED BY <2>3, <4>1, RankStrict
    <3>5. s < y
      <4> SUFFICES ASSUME y <= s PROVE FALSE
        BY <1>4, <3>3
      <4>1. mk <= last
        BY <1>4, <3>2, <3>3, MarkerMonotone DEF mk
      <4> QED BY <1>9, <2>3, <4>1
    <3>6. Rank(v, s) < Rank(v, y)
      BY <1>4, <3>3, <3>5, RankMonotone
    <3> QED BY <1>5, <1>6, <1>13, <3>2, <3>4, <3>6
  <2>5. ASSUME Longer(v, a, x, y, secs)
        PROVE  last <= mk
    <3>1. CASE mk = a.size
      BY <2>3, <3>1
    <3>2. CASE mk # a.size
      <4>1. y \in v.sync
        BY <1>3, <1>11, <3>2
      <4>2. mk \in a.sync /\ Rank(a, mk) = Rank(v, y) /\ mk \in 0 .. a.size /\ mk \in Nat
        BY <1>1, <1>10, <3>2, <4>1
      <4>3. m < mk
        <5> SUFFICES ASSUME mk <= m PROVE FALSE
          BY <1>2, <4>2
        <5>1. mk = m => FALSE
          BY <1>5, <4>2
        <5>2. mk < m => Rank(a, mk) < Rank(a, m)
          BY <1>2, <4>2, RankMonotone
        <5> QED BY <1>2, <1>5, <4>2, <5>1, <5>2
      <4>4. a.pts[mk] - a.pts[m] >= secs * a.scale
        <5>1. /\ a.scale \in Nat \ {0} /\ v.scale \in Nat \ {0}
              /\ \A p \in 0 .. a.size : a.pts[p] \in Nat
              /\ \A p \in 0 .. v.size : v.pts[p] \in Nat
              /\ a.pts[0] = 0
          BY DEF IsTrak
        <5>2. a.pts[mk] >= ConvertTime(v.pts[y], a.scale, v.scale)
          BY <1>4, <3>2, MarkerFacts DEF mk
        <5>3. \A p \in 0 .. a.size - 1 : a.pts[p] >= ConvertTime(v.pts[x], a.scale, v.scale) => m <= p
          BY <1>2, <1>8, MarkerFacts
        <5>4. v.pts[x] \in Nat /\ v.pts[y] \in Nat /\ a.pts[m] \in Nat /\ a.pts[mk] \in Nat
          BY <1>2, <1>4, <4>2, <5>1
        <5>5. CASE m = 0
          <6>1. 0 \in 0 .. a.size - 1 /\ 0 + 1 = 1 /\ 1 \in 0 .. a.size
            BY <1>1, <1>2, <5>5
          <6>2. (v.pts[y] - v.pts[x]) * a.scale
                  >= (secs * a.scale + a.pts[1] - 0 + 1) * v.scale
            BY <2>5, <5>1, <6>1 DEF Longer
          <6>3. a.pts[1] \in Nat
            BY <5>1, <6>1
          <6>4. a.pts[mk] - 0 >= secs * a.scale
            BY <5>1, <5>2, <5>4, <6>2, <6>3, FarEnoughAtFirst
          <6> QED BY <5>1, <5>5, <6>4
        <5>6. CASE m # 0
          <6> DEFINE p == m - 1
          <6>1. p \in 0 .. a.size - 1 /\ p + 1 = m /\ p \in 0 .. a.size /\ ~ (m <= p)
            BY <1>1, <1>2, <5>6
          <6> HIDE DEF p
          <6>2. (v.pts[y] - v.pts[x]) * a.scale
                  >= (secs * a.scale + a.pts[m] - a.pts[p] + 1) * v.scale
            BY <2>5, <6>1 DEF Longer
          <6>3. a.pts[p] \in Nat /\ ConvertTime(v.pts[x], a.scale, v.scale) \in Nat
            BY <5>1, <5>4, <6>1, ConvertBounds
          <6>4. a.pts[p] < ConvertTime(v.pts[x], a.scale, v.scale)
            BY <5>3, <6>1, <6>3
          <6> QED BY <5>1, <5>2, <5>4, <6>2, <6>3, <6>4, FarEnough
        <5> QED BY <5>5, <5>6
      <4>5. LongEnough(a, m, mk, secs)
        <5>1. /\ a.scale \in Nat /\ a.pts[m] \in Nat /\ a.pts[mk] \in Nat
          BY <1>2, <4>2 DEF IsTrak
        <5> DEFINE w == secs * a.scale
        <5>2. w \in Nat /\ 2000 * secs * a.scale = 2000 * w
          BY <5>1, Z3
        <5>3. a.pts[mk] - a.pts[m] >= w
          BY <4>4
        <5> HIDE DEF w
        <5>4. \A p, q, z, u \in Nat : p - q >= u => 2000 * (p - q) + z >= 2000 * u
          OBVIOUS
        <5>5. 2000 * (a.pts[mk] - a.pts[m]) + a.scale >= 2000 * w
          BY <5>1, <5>2, <5>3, <5>4
        <5> QED BY <5>2, <5>5 DEF LongEnough
      <4>6. mk \in CutPoints(a, m, secs)
        BY <1>1, <1>2, <4>2, <4>3, <4>5 DEF CutPoints, Smooth
      <4> QED BY <2>2, <4>6
    <3> QED BY <3>1, <3>2
  <2>6. chunk > 0 \/ Longer(v, a, x, y, secs) => last = mk
    BY <1>9, <1>13, <2>3, <2>4, <2>5
  <2> QED BY <1>8, <2>4, <2>6 DEF mk, chunk, y, last
<1> QED BY <1>12, <1>13

\* Audio that has its markers from a video has no more of them than the video
\* has sync samples.
LEMMA MarkersNeedSync ==
  ASSUME NEW v, NEW a, IsTrak(v), IsTrak(a), MarkedBy(v, a), NEW n \in Nat,
         Numbered(a, n) # {}
  PROVE  Numbered(v, n) # {}
<1> DEFINE M == [r \in v.sync |-> MarkerOf(v, a, r)]
           S == {r \in v.sync : M[r] \in a.sync}
           f == [r \in S |-> M[r]]
<1>1. v.sync \subseteq 0 .. v.size - 1 /\ v.size \in Nat /\ a.sync \subseteq 0 .. a.size - 1
      /\ a.size \in Nat
  BY DEF IsTrak
<1>2. \A x \in a.sync : \E r \in v.sync : M[r] = x
  BY MarkersAre
<1> HIDE DEF M
<1>3. f \in Surjection(S, a.sync)
  <2>1. f \in [S -> a.sync] /\ \A x \in a.sync : \E r \in S : f[r] = x
    BY <1>2
  <2> HIDE DEF f, S
  <2> QED BY <2>1 DEF Surjection
<1>4. IsFiniteSet(v.sync)
  <2>1. v.size - 1 \in Int
    BY <1>1
  <2>2. IsFiniteSet(0 .. v.size - 1)
    BY <2>1, FS_Interval
  <2> QED BY <1>1, <2>2, FS_Subset
<1>5. IsFiniteSet(S) /\ Cardinality(S) <= Cardinality(v.sync) /\ S \subseteq v.sync
  <2>1. S \subseteq v.sync
    OBVIOUS
  <2> HIDE DEF S
  <2> QED BY <1>4, <2>1, FS_Subset
<1>6. Cardinality(a.sync) <= Cardinality(S) /\ IsFiniteSet(a.sync)
  <2> HIDE DEF f, S
  <2> QED BY <1>3, <1>5, FS_Surjection
<1>7. Rank(v, v.size) = Cardinality(v.sync) /\ Rank(a, a.size) = Cardinality(a.sync)
  <2>1. {x \in v.sync : x < v.size} = v.sync /\ {x \in a.sync : x < a.size} = a.sync
    BY <1>1
  <2> QED BY <2>1 DEF Rank
<1>8. Cardinality(v.sync) \in Nat /\ Cardinality(S) \in Nat /\ Cardinality(a.sync) \in Nat
  BY <1>4, <1>5, <1>6, FS_CardinalityType
<1>9. n < Rank(a, a.size)
  BY NumberedWithin
<1> HIDE DEF S
<1>10. n < Rank(v, v.size)
  BY <1>5, <1>6, <1>7, <1>8, <1>9
<1> QED BY <1>10, NumberedWithin

\* With one video and one audio track, as the playlist is made from the video
\* alone: the audio of the next segment begins where that of this one ends, or
\* before.
LEMMA NoHole ==
  ASSUME NEW file, IsFile(file), Len(file) = 2, file[1].kind = "vide", 0 \in file[1].sync,
         MarkedBy(file[1], file[2]), MarkersApart(file[1], file[2]),
         NEW secs \in Nat,
         NEW k \in DOMAIN PlaylistOf(file[1], secs), k + 1 \in DOMAIN PlaylistOf(file[1], secs),
         Len(FragmentsOf(file, 1, PlaylistOf(file[1], secs)[k + 1].number, secs)) = 2
  PROVE  LET fs  == FragmentsOf(file, 1, PlaylistOf(file[1], secs)[k].number, secs)
             fs2 == FragmentsOf(file, 1, PlaylistOf(file[1], secs)[k + 1].number, secs)
         IN  Len(fs) = 2 /\ fs2[2].first <= fs[2].last
<1> DEFINE v == file[1]
           a == file[2]
           list == PlaylistOf(v, secs)
           e  == list[k]
           e2 == list[k + 1]
           fs(n) == FragmentsOf(file, 1, n, secs)
           W(n)  == Wanted(file, 1, n)
           F(n)  == FragmentOf(file, 0, n, secs, 0)
           S(n)  == SecondOf(file, 0, 1, n, secs)
<1>1. IsTrak(v) /\ IsTrak(a)
  BY DEF IsFile
<1>2. v.sync \subseteq Nat /\ a.sync \subseteq Nat /\ v.size \in Nat /\ a.size \in Nat
  BY <1>1 DEF IsTrak
<1>3. PICK N \in Nat : EntriesAre(list, v, secs, N)
  <2> HIDE DEF v
  <2> QED BY <1>1, ListsTheCuts
<1>4. k \in 1 .. N /\ k + 1 \in 1 .. N /\ k < N /\ k + 1 # 1
  BY <1>3 DEF EntriesAre
<1>5. /\ e.from \in v.sync /\ e2.from \in v.sync
      /\ e.number = Rank(v, e.from) /\ e2.number = Rank(v, e2.from)
      /\ e.to = Cut(v, e.from, secs) /\ e.to = e2.from /\ e.from \in 0 .. v.size - 1
  <2> HIDE DEF list
  <2> QED BY <1>3, <1>4 DEF EntriesAre
<1>6. v = file[0 + 1] /\ a = file[1 + 1] /\ v.kind = "vide" /\ 0 .. Len(file) - 1 = {0, 1}
      /\ IsFile(file) /\ MarkedBy(v, a) /\ MarkersApart(v, a) /\ Len(fs(e2.number)) = 2
  OBVIOUS
<1> HIDE DEF v, a, e, e2, list
\* Which tracks are answered for.
<1>7. ASSUME NEW n \in Nat, Numbered(v, n) # {}
      PROVE  /\ Len(fs(n)) = 2 => Numbered(a, n) # {}
             /\ Numbered(a, n) # {} => fs(n) = <<F(n), S(n)>>
  <2>1. 0 \in W(n) /\ W(n) \subseteq {0, 1} /\ (1 \in W(n) <=> Numbered(a, n) # {})
    BY <1>6, <1>7 DEF Wanted
  <2>2. Numbered(a, n) = {} => W(n) = {0}
    <3> HIDE DEF W
    <3> QED BY <2>1
  <2>3. W(n) = {0} => fs(n) = <<F(n)>>
    BY <1>6, FragmentsShape
  <2>4. Numbered(a, n) # {} => fs(n) = <<F(n), S(n)>>
    <3> SUFFICES ASSUME Numbered(a, n) # {} PROVE fs(n) = <<F(n), S(n)>>
      OBVIOUS
    <3> DEFINE k2 == 1
    <3>1. 0 \in W(n) /\ k2 \in W(n) /\ 0 < k2 /\ \A j \in W(n) : j = 0 \/ k2 <= j
      <4> HIDE DEF W
      <4> QED BY <2>1
    <3> QED BY <1>6, <3>1, FragmentsShape
  <2>5. fs(n) = <<F(n)>> => Len(fs(n)) # 2
    <3> HIDE DEF fs, F
    <3> QED OBVIOUS
  <2> QED BY <2>2, <2>3, <2>4, <2>5
\* What is answered for the segment of a sync sample that the audio has too.
<1>8. ASSUME NEW x \in v.sync, Numbered(a, Rank(v, x)) # {}
      PROVE  LET n == Rank(v, x)
             IN  /\ Len(fs(n)) = 2
                 /\ fs(n)[2].first = MarkerOf(v, a, x)
                 /\ fs(n)[2].last >= MarkerOf(v, a, Cut(v, x, secs))
  <2> DEFINE n == Rank(v, x)
             m == Min(Numbered(a, n))
  <2>1. x \in Int /\ n \in Nat
    <3>1. x \in Int
      BY <1>2
    <3> QED BY <1>1, <3>1, RankType
  <2>2. Numbered(v, n) = {x} /\ Min(Numbered(v, n)) = x
    <3>1. Numbered(v, n) = {x}
      BY <1>1, NumberIdentifiesSync
    <3> QED BY <2>1, <3>1, MinOfOne
  <2>3. fs(n) = <<F(n), S(n)>>
    BY <1>7, <1>8, <2>1, <2>2
  <2>4. m \in a.sync /\ Rank(a, m) = n
    BY <1>1, <1>8, <2>1, MinNumbered
  <2>5. F(n).first = x /\ F(n).last = Cut(v, x, secs)
    BY <1>6, <2>2 DEF FragmentOf, GetNext
  <2>6. S(n).first = m /\ S(n).last = GetNext(a, m, secs, Inside(v, F(n).first, F(n).last))
    BY <1>6 DEF SecondOf, FragmentOf
  <2> HIDE DEF F, S, m
  <2>7. /\ m = MarkerOf(v, a, x)
        /\ GetNext(a, m, secs, Inside(v, x, Cut(v, x, secs))) >= MarkerOf(v, a, Cut(v, x, secs))
    BY <1>1, <1>6, <2>4, AudioSegment
  <2> HIDE DEF fs
  <2> QED BY <2>3, <2>5, <2>6, <2>7
<1>9. e.from \in Nat /\ e2.from \in Nat /\ e.from < e2.from
  <2>1. Cut(v, e.from, secs) \in CutPoints(v, e.from, secs)
    <3>1. e.from \in 0 .. v.size /\ e.from # v.size
      BY <1>2, <1>5
    <3> QED BY <1>1, <3>1, CutProperties
  <2> QED BY <1>2, <1>5, <2>1 DEF CutPoints
<1>10. /\ Rank(v, e.from) \in Nat /\ Rank(v, e2.from) \in Nat
       /\ Rank(v, e.from) < Rank(v, e2.from)
  BY <1>1, <1>5, <1>9, RankStrict
<1>11. Numbered(a, Rank(v, e2.from)) # {}
  <2>1. Numbered(v, Rank(v, e2.from)) # {}
    BY <1>5 DEF Numbered
  <2> HIDE DEF fs
  <2> QED BY <1>5, <1>6, <1>7, <1>10, <2>1
<1>12. Numbered(a, Rank(v, e.from)) # {}
  <2>1. Rank(v, e2.from) < Rank(a, a.size)
    BY <1>1, <1>10, <1>11, NumberedWithin
  <2>2. Rank(a, a.size) \in Nat
    <3>1. a.size \in Int
      BY <1>2
    <3> QED BY <1>1, <3>1, RankType
  <2>3. Rank(v, e.from) < Rank(a, a.size)
    BY <1>10, <2>1, <2>2
  <2> QED BY <1>1, <1>10, <2>3, NumberedWithin
<1> DEFINE p == fs(e.number)[2].last
           q == fs(e2.number)[2].first
           mark == MarkerOf(v, a, e2.from)
<1>13. Len(fs(e.number)) = 2 /\ p >= mark
  BY <1>5, <1>8, <1>12
<1>14. q = mark
  BY <1>5, <1>8, <1>11
<1>15. q <= p
  <2> HIDE DEF p, q, mark
  <2> QED BY <1>13, <1>14
<1> QED BY <1>13, <1>15 DEF v, e, e2, list

-----------------------------------------------------------------------------
(* Sums of naturals.                                                       *)

\* f[n] is the sum of the first n weights.
SumsUp(f, w, N) ==
  /\ f \in [0 .. N -> Nat] /\ f[0] = 0
  /\ \A n \in 0 .. N - 1 : f[n + 1] = f[n] + w[n]

\* There is such a sum.
LEMMA SumExists ==
  ASSUME NEW N \in Nat, NEW w, \A n \in 0 .. N - 1 : w[n] \in Nat
  PROVE  \E f : SumsUp(f, w, N)
<1> DEFINE Bad == {n \in Nat : n <= N /\ ~ \E f : SumsUp(f, w, n)}
<1>1. Bad = {}
  <2> SUFFICES ASSUME Bad # {} PROVE FALSE
    OBVIOUS
  <2>1. Bad \subseteq Nat
    OBVIOUS
  <2>2. PICK m \in Bad : \A n \in Bad : m <= n
    <3> HIDE DEF Bad
    <3> QED BY <2>1, NatMin
  <2>3. m \in Nat /\ m <= N /\ ~ \E f : SumsUp(f, w, m)
    BY <2>2
  <2>4. CASE m = 0
    <3>1. SumsUp([n \in 0 .. 0 |-> 0], w, 0)
      BY DEF SumsUp
    <3> QED BY <2>3, <2>4, <3>1
  <2>5. CASE m # 0
    <3>1. m - 1 \in Nat /\ m - 1 < m
      BY <2>3, <2>5
    <3>2. \E f : SumsUp(f, w, m - 1)
      BY <2>2, <2>3, <3>1
    <3>3. PICK f : SumsUp(f, w, m - 1)
      BY <3>2
    <3> DEFINE g == [n \in 0 .. m |-> IF n = m THEN f[m - 1] + w[m - 1] ELSE f[n]]
    <3>4. f \in [0 .. m - 1 -> Nat] /\ f[0] = 0 /\ \A n \in 0 .. m - 2 : f[n + 1] = f[n] + w[n]
      BY <3>1, <3>3 DEF SumsUp
    <3>5. w[m - 1] \in Nat /\ f[m - 1] \in Nat
      BY <2>3, <3>1, <3>4
    <3>6. g \in [0 .. m -> Nat] /\ g[0] = 0
      BY <2>3, <2>5, <3>4, <3>5
    <3>7. ASSUME NEW n \in 0 .. m - 1 PROVE g[n + 1] = g[n] + w[n]
      <4>1. CASE n = m - 1
        <5>1. g[m] = f[m - 1] + w[m - 1] /\ g[m - 1] = f[m - 1]
          BY <2>3, <3>1
        <5> QED BY <2>3, <4>1, <5>1
      <4>2. CASE n # m - 1
        <5>1. n \in 0 .. m - 2 /\ n + 1 \in 0 .. m - 1
          BY <2>3, <4>2
        <5>2. g[n + 1] = f[n + 1] /\ g[n] = f[n]
          BY <2>3, <5>1
        <5> QED BY <3>4, <5>1, <5>2
      <4> QED BY <4>1, <4>2
    <3> HIDE DEF g
    <3>8. SumsUp(g, w, m)
      BY <3>6, <3>7 DEF SumsUp
    <3> QED BY <2>3, <3>8
  <2> QED BY <2>4, <2>5
<1>2. N \notin Bad
  BY <1>1
<1> HIDE DEF SumsUp
<1> QED BY <1>2

\* What holds of 0, and of n + 1 when it holds of n, holds of all: the set of
\* those of which it does.
LEMMA UpTo ==
  ASSUME NEW N \in Nat, NEW S, 0 \in S, \A n \in 0 .. N - 1 : n \in S => n + 1 \in S
  PROVE  0 .. N \subseteq S
<1> DEFINE Bad == {n \in 0 .. N : n \notin S}
<1> SUFFICES ASSUME Bad # {} PROVE FALSE
  OBVIOUS
<1>1. Bad \subseteq Nat
  OBVIOUS
<1>2. PICK m \in Bad : \A n \in Bad : m <= n
  <2> HIDE DEF Bad
  <2> QED BY <1>1, NatMin
<1>3. m \in 1 .. N
  BY <1>2
<1>4. m - 1 \in 0 .. N - 1 /\ m - 1 \in S /\ m - 1 + 1 = m
  BY <1>2, <1>3
<1> QED BY <1>2, <1>4

\* Sums are determined, and rise.
LEMMA SumUnique ==
  ASSUME NEW N \in Nat, NEW w, NEW f, NEW g, SumsUp(f, w, N), SumsUp(g, w, N)
  PROVE  f = g
<1> DEFINE S == {n \in 0 .. N : f[n] = g[n]}
<1>1. 0 \in S
  BY DEF SumsUp
<1>2. \A n \in 0 .. N - 1 : n \in S => n + 1 \in S
  BY DEF SumsUp
<1>3. 0 .. N \subseteq S
  <2> HIDE DEF S
  <2> QED BY <1>1, <1>2, UpTo
<1> QED BY <1>3 DEF SumsUp

\* They rise.
LEMMA SumRises ==
  ASSUME NEW N \in Nat, NEW w, NEW f, SumsUp(f, w, N), \A n \in 0 .. N - 1 : w[n] \in Nat,
         NEW a \in 0 .. N, NEW b \in a .. N
  PROVE  f[a] <= f[b]
<1> DEFINE S == {n \in 0 .. N : n >= a => f[a] <= f[n]}
<1>1. 0 \in S
  BY DEF SumsUp
<1>2. ASSUME NEW n \in 0 .. N - 1, n \in S PROVE n + 1 \in S
  <2>1. f[n] \in Nat /\ f[a] \in Nat /\ w[n] \in Nat /\ f[n + 1] = f[n] + w[n]
    BY DEF SumsUp
  <2>2. CASE n + 1 = a
    BY <2>1, <2>2
  <2>3. CASE n + 1 # a
    BY <1>2, <2>1, <2>3
  <2> QED BY <2>2, <2>3
<1>3. 0 .. N \subseteq S
  <2> HIDE DEF S
  <2> QED BY <1>1, <1>2, UpTo
<1>4. b \in S
  BY <1>3
<1> QED BY <1>4

-----------------------------------------------------------------------------
(* Run length coded tables, and what is left of them when they are cropped. *)

\* The least and the greatest of a set, when known.
LEMMA MinIs ==
  ASSUME NEW S, S \subseteq Nat, NEW m \in S, \A n \in S : m <= n
  PROVE  Min(S) = m
<1>1. \A y \in S : (\A n \in S : y <= n) => y = m
  OBVIOUS
<1> QED BY <1>1 DEF Min

\* The greatest.
LEMMA MaxIs ==
  ASSUME NEW S, S \subseteq Nat, NEW m \in S, \A n \in S : n <= m
  PROVE  Max(S) = m
<1>1. \A y \in S : (\A n \in S : y >= n) => y = m
  OBVIOUS
<1> QED BY <1>1 DEF Max

\* Sum adds up.
LEMMA SumIs ==
  ASSUME NEW N \in Nat, NEW w, \A e \in 1 .. N : w[e] \in Nat
  PROVE  /\ Sum(w, 0) = 0
         /\ \A e \in 0 .. N : Sum(w, e) \in Nat
         /\ \A e \in 1 .. N : Sum(w, e) = Sum(w, e - 1) + w[e]
         /\ \A d, e \in 0 .. N : d <= e => Sum(w, d) <= Sum(w, e)
<1> DEFINE v == [n \in 0 .. N - 1 |-> w[n + 1]]
<1>1. \A n \in 0 .. N - 1 : v[n] = w[n + 1] /\ v[n] \in Nat
  OBVIOUS
<1> HIDE DEF v
<1>2. PICK f : SumsUp(f, v, N)
  BY <1>1, SumExists
<1>3. /\ f \in [0 .. N -> Nat] /\ f[0] = 0
      /\ \A n \in 0 .. N - 1 : f[n + 1] = f[n] + v[n]
  BY <1>2 DEF SumsUp
<1>4. \A e \in 1 .. N : f[e] = f[e - 1] + w[e]
  <2> SUFFICES ASSUME NEW e \in 1 .. N PROVE f[e] = f[e - 1] + w[e]
    OBVIOUS
  <2>1. e - 1 \in 0 .. N - 1 /\ e - 1 + 1 = e
    OBVIOUS
  <2> QED BY <1>1, <1>3, <2>1
<1>5. ASSUME NEW k \in 0 .. N PROVE Sum(w, k) = f[k]
  <2> DEFINE Body(g) == [d \in 0 .. k |-> IF d = 0 THEN 0 ELSE g[d - 1] + w[d]]
             sum == CHOOSE g : g = Body(g)
             h == [d \in 0 .. k |-> f[d]]
  <2>1. Sum(w, k) = sum[k]
    BY DEF Sum
  <2>2. h = Body(h)
    <3>1. \A d \in 0 .. k : Body(h)[d] = h[d]
      <4> SUFFICES ASSUME NEW d \in 0 .. k PROVE Body(h)[d] = h[d]
        OBVIOUS
      <4>1. CASE d = 0
        BY <1>3, <4>1
      <4>2. CASE d # 0
        <5>1. d \in 1 .. N /\ d - 1 \in 0 .. k
          BY <4>2
        <5>2. h[d - 1] = f[d - 1] /\ h[d] = f[d]
          BY <5>1
        <5>3. Body(h)[d] = h[d - 1] + w[d]
          BY <4>2
        <5> QED BY <1>4, <5>1, <5>2, <5>3
      <4> QED BY <4>1, <4>2
    <3>2. Body(h) = [d \in 0 .. k |-> Body(h)[d]] /\ h = [d \in 0 .. k |-> h[d]]
      OBVIOUS
    <3> HIDE DEF Body, h
    <3> QED BY <3>1, <3>2
  <2>3. sum = Body(sum)
    <3> HIDE DEF Body, h
    <3> QED BY <2>2
  <2> HIDE DEF sum
  <2> DEFINE S == {d \in 0 .. k : sum[d] = f[d]}
  <2>4. 0 \in S
    <3>1. Body(sum)[0] = 0
      OBVIOUS
    <3> HIDE DEF Body
    <3> QED BY <1>3, <2>3, <3>1
  <2>5. ASSUME NEW d \in 0 .. k - 1, d \in S PROVE d + 1 \in S
    <3>1. d + 1 \in 1 .. N /\ d + 1 \in 0 .. k /\ d + 1 # 0 /\ d + 1 - 1 = d
      OBVIOUS
    <3>2. Body(sum)[d + 1] = sum[d] + w[d + 1]
      BY <3>1
    <3> HIDE DEF Body
    <3>3. sum[d + 1] = sum[d] + w[d + 1]
      BY <2>3, <3>2
    <3>4. f[d + 1] = f[d] + w[d + 1] /\ sum[d] = f[d]
      BY <1>4, <2>5, <3>1
    <3> QED BY <3>1, <3>3, <3>4
  <2>6. k \in S
    <3> HIDE DEF S
    <3>1. 0 .. k \subseteq S
      BY <2>4, <2>5, UpTo
    <3> QED BY <3>1
  <2> QED BY <2>1, <2>6
<1>6. \A e \in 1 .. N : e \in 0 .. N /\ e - 1 \in 0 .. N
  OBVIOUS
<1>7. \A e \in 1 .. N : Sum(w, e) = Sum(w, e - 1) + w[e]
  BY <1>4, <1>5, <1>6
<1>8. \A d, e \in 0 .. N : d <= e => f[d] <= f[e]
  BY <1>1, <1>2, SumRises
<1>9. Sum(w, 0) = 0 /\ \A e \in 0 .. N : Sum(w, e) \in Nat
  BY <1>3, <1>5
<1> QED BY <1>5, <1>7, <1>8, <1>9

\* The entry at which a sum passes a number.
LEMMA FirstBeyondIs ==
  ASSUME NEW w, Len(w) \in Nat, DOMAIN w = 1 .. Len(w), \A e \in 1 .. Len(w) : w[e] \in Nat,
         NEW at \in Nat
  PROVE  /\ FirstBeyond(w, at) \in 1 .. Len(w) + 1
         /\ FirstBeyond(w, at) <= Len(w) => at < Sum(w, FirstBeyond(w, at))
         /\ Sum(w, FirstBeyond(w, at) - 1) <= at
<1> DEFINE N == Len(w)
           S == {N + 1} \cup {e \in DOMAIN w : at < Sum(w, e)}
<1>1. /\ Sum(w, 0) = 0 /\ \A e \in 0 .. N : Sum(w, e) \in Nat
  BY SumIs
<1>2. S \subseteq 1 .. N + 1 /\ S \subseteq Nat /\ S # {}
  OBVIOUS
<1>3. PICK m \in S : \A n \in S : m <= n
  BY <1>2, NatMin
<1>4. FirstBeyond(w, at) = m
  BY <1>2, <1>3, MinIs DEF FirstBeyond
<1>5. m \in 1 .. N + 1
  BY <1>2
<1>6. m <= N => at < Sum(w, m)
  OBVIOUS
<1>7. Sum(w, m - 1) <= at
  <2>1. CASE m = 1
    BY <1>1, <2>1
  <2>2. CASE m # 1
    <3>1. m - 1 \in 1 .. N /\ ~ m <= m - 1 /\ m - 1 \in 0 .. N
      BY <1>5, <2>2
    <3>2. m - 1 \notin S
      BY <1>3, <3>1
    <3>3. ~ at < Sum(w, m - 1)
      BY <3>1, <3>2
    <3> QED BY <1>1, <3>1, <3>3
  <2> QED BY <2>1, <2>2
<1> QED BY <1>4, <1>5, <1>6, <1>7

\* The entry in which a number falls.
LEMMA EntryWith ==
  ASSUME NEW w, Len(w) \in Nat, DOMAIN w = 1 .. Len(w), \A e \in 1 .. Len(w) : w[e] \in Nat,
         NEW k \in 1 .. Sum(w, Len(w))
  PROVE  \E e \in 1 .. Len(w) : \E n \in 1 .. w[e] : k = Sum(w, e - 1) + n
<1> DEFINE e == FirstBeyond(w, k - 1)
<1>1. \A d \in 0 .. Len(w) : Sum(w, d) \in Nat
  BY SumIs
<1>2. Sum(w, Len(w)) \in Nat /\ k - 1 \in Nat /\ k \in Nat /\ k <= Sum(w, Len(w))
  BY <1>1
<1>3. e \in 1 .. Len(w) + 1 /\ (e <= Len(w) => k - 1 < Sum(w, e)) /\ Sum(w, e - 1) <= k - 1
  BY <1>2, FirstBeyondIs
<1> HIDE DEF e
<1>4. e \in 1 .. Len(w)
  <2> SUFFICES ASSUME e = Len(w) + 1 PROVE FALSE
    BY <1>3
  <2>1. e - 1 = Len(w)
    OBVIOUS
  <2> QED BY <1>2, <1>3, <2>1
<1>5. Sum(w, e) = Sum(w, e - 1) + w[e] /\ e - 1 \in 0 .. Len(w) /\ e \in 0 .. Len(w) /\ w[e] \in Nat
  <2>1. \A d \in 1 .. Len(w) : Sum(w, d) = Sum(w, d - 1) + w[d]
    BY SumIs
  <2>2. e - 1 \in 0 .. Len(w) /\ e \in 0 .. Len(w)
    BY <1>4
  <2> QED BY <1>4, <2>1, <2>2
<1>6. Sum(w, e - 1) \in Nat /\ k - 1 < Sum(w, e)
  BY <1>1, <1>3, <1>4, <1>5
<1>7. k - Sum(w, e - 1) \in 1 .. w[e] /\ k = Sum(w, e - 1) + (k - Sum(w, e - 1))
  BY <1>2, <1>3, <1>5, <1>6
<1> QED BY <1>4, <1>7

\* What a sequence of naturals is.
LEMMA NatSeq ==
  ASSUME NEW w \in Seq(Nat)
  PROVE  Len(w) \in Nat /\ DOMAIN w = 1 .. Len(w) /\ \A e \in 1 .. Len(w) : w[e] \in Nat
OBVIOUS

\* Sum adds up, of a sequence.
LEMMA SeqSum ==
  ASSUME NEW w \in Seq(Nat)
  PROVE  /\ Sum(w, 0) = 0
         /\ \A e \in 0 .. Len(w) : Sum(w, e) \in Nat
         /\ \A e \in 1 .. Len(w) : Sum(w, e) = Sum(w, e - 1) + w[e]
         /\ \A d, e \in 0 .. Len(w) : d <= e => Sum(w, d) <= Sum(w, e)
<1>1. Len(w) \in Nat /\ \A e \in 1 .. Len(w) : w[e] \in Nat
  BY NatSeq
<1> QED BY <1>1, SumIs

\* Sequences behind each other: each keeps its elements, behind those of the others.
LEMMA FlattenIs ==
  ASSUME NEW V, NEW seqs \in Seq(Seq(V)), NEW w \in Seq(Nat), Len(w) = Len(seqs),
         \A e \in 1 .. Len(w) : Len(seqs[e]) = w[e]
  PROVE  /\ FlattenSeq(seqs) \in Seq(V)
         /\ Len(FlattenSeq(seqs)) = Sum(w, Len(w))
         /\ \A e \in 1 .. Len(w) : \A n \in 1 .. w[e] :
              FlattenSeq(seqs)[Sum(w, e - 1) + n] = seqs[e][n]
<1> DEFINE N == Len(w)
           C(e) == Sum(w, e)
           Step(f, e) == IF e = 1 THEN seqs[e] ELSE f[e - 1] \o seqs[e]
           flatten == CHOOSE f : f = [e \in 1 .. Len(seqs) |-> Step(f, e)]
<1>1. N \in Nat /\ (\A e \in 1 .. N : w[e] \in Nat)
      /\ C(0) = 0 /\ (\A e \in 0 .. N : C(e) \in Nat)
      /\ (\A e \in 1 .. N : C(e) = C(e - 1) + w[e])
      /\ (\A d, e \in 0 .. N : d <= e => C(d) <= C(e))
  BY NatSeq, SeqSum
<1>2. FlattenSeq(seqs) = IF Len(seqs) = 0 THEN seqs ELSE flatten[Len(seqs)]
  BY DEF FlattenSeq
<1>3. Len(seqs) = N
  OBVIOUS
<1>4. ASSUME NEW e \in 1 .. N
      PROVE  seqs[e] \in Seq(V) /\ Len(seqs[e]) = w[e]
  OBVIOUS
<1> HIDE DEF N, C
<1>6. CASE N = 0
  <2>1. FlattenSeq(seqs) = <<>>
    BY <1>2, <1>3, <1>6
  <2>2. FlattenSeq(seqs) \in Seq(V) /\ Len(FlattenSeq(seqs)) = 0
    BY <2>1
  <2>3. Sum(w, Len(w)) = 0
    BY <1>1, <1>6 DEF C, N
  <2>4. 1 .. Len(w) = {}
    BY <1>6 DEF N
  <2> QED BY <2>2, <2>3, <2>4
<1>7. CASE N # 0
  <2> DEFINE Defined == {n \in 0 .. N : \E f : f = [e \in 1 .. n |-> Step(f, e)]}
  <2>1. 0 \in Defined
    <3> DEFINE g == [e \in 1 .. 0 |-> 0]
    <3> HIDE DEF Step
    <3>1. g = [e \in 1 .. 0 |-> Step(g, e)]
      OBVIOUS
    <3>2. 0 \in 0 .. N
      BY <1>1
    <3> HIDE DEF g
    <3> QED BY <3>1, <3>2
  <2>2. ASSUME NEW n \in 0 .. N - 1, n \in Defined PROVE n + 1 \in Defined
    <3>1. PICK f : f = [e \in 1 .. n |-> Step(f, e)]
      BY <2>2
    <3> DEFINE g == [e \in 1 .. n + 1 |-> IF e = n + 1 THEN Step(f, n + 1) ELSE f[e]]
    <3>2. ASSUME NEW e \in 1 .. n + 1 PROVE g[e] = Step(g, e)
      <4>1. e # 1 => e - 1 \in 1 .. n /\ g[e - 1] = f[e - 1]
        OBVIOUS
      <4>2. Step(g, e) = Step(f, e)
        <5> HIDE DEF g
        <5> QED BY <4>1
      <4>3. CASE e = n + 1
        <5>1. g[e] = Step(f, n + 1)
          BY <4>3
        <5> QED BY <4>2, <4>3, <5>1
      <4>4. CASE e # n + 1
        <5>1. e \in 1 .. n /\ g[e] = f[e]
          BY <4>4
        <5> HIDE DEF g
        <5>2. f[e] = Step(f, e)
          BY <3>1, <5>1
        <5> QED BY <4>2, <5>1, <5>2
      <4> QED BY <4>3, <4>4
    <3>3. g = [e \in 1 .. n + 1 |-> g[e]]
      OBVIOUS
    <3> HIDE DEF g, Step
    <3>4. g = [e \in 1 .. n + 1 |-> Step(g, e)]
      BY <3>2, <3>3
    <3> QED BY <1>1, <3>4
  <2>3. N \in Defined
    <3>1. 0 .. N \subseteq Defined
      <4> HIDE DEF Defined
      <4> QED BY <1>1, <2>1, <2>2, UpTo
    <3>2. N \in 0 .. N
      BY <1>1
    <3> HIDE DEF Defined
    <3> QED BY <3>1, <3>2
  <2>4. flatten = [e \in 1 .. N |-> Step(flatten, e)]
    <3> HIDE DEF Step
    <3> QED BY <1>3, <2>3
  <2> HIDE DEF flatten
  <2> DEFINE Right(q, k) ==
               /\ q \in Seq(V) /\ Len(q) = C(k)
               /\ \A e \in 1 .. k : \A n \in 1 .. w[e] : q[C(e - 1) + n] = seqs[e][n]
             S == {k \in 0 .. N : k # 0 => Right(flatten[k], k)}
  <2>5. 0 \in S
    BY <1>1
  <2>6. ASSUME NEW k \in 0 .. N - 1, k \in S PROVE k + 1 \in S
    <3>0. k + 1 \in 1 .. N
      BY <1>1
    <3>1. seqs[k + 1] \in Seq(V) /\ Len(seqs[k + 1]) = w[k + 1]
      BY <1>4, <3>0
    <3>2. flatten[k + 1] = IF k = 0 THEN seqs[k + 1] ELSE flatten[k] \o seqs[k + 1]
      <4>1. flatten[k + 1] = Step(flatten, k + 1)
        BY <2>4, <3>0
      <4>2. k + 1 - 1 = k /\ (k + 1 = 1 <=> k = 0)
        BY <1>1
      <4> QED BY <4>1, <4>2
    <3>3. C(k) \in Nat /\ C(k + 1) = C(k) + w[k + 1] /\ w[k + 1] \in Nat
      <4>1. k \in 0 .. N /\ k + 1 - 1 = k
        BY <1>1
      <4> QED BY <1>1, <3>0, <4>1
    <3>4. CASE k = 0
      <4>1. flatten[1] = seqs[1] /\ C(1) = w[1] /\ C(0) = 0
        BY <1>1, <3>2, <3>3, <3>4
      <4>2. \A n \in 1 .. w[1] : C(1 - 1) + n = n
        BY <3>3, <3>4, <4>1
      <4>3. Right(flatten[1], 1)
        BY <3>1, <3>4, <4>1, <4>2
      <4> QED BY <3>0, <3>4, <4>3
    <3>5. CASE k # 0
      <4> DEFINE q == flatten[k]
                 r == seqs[k + 1]
      <4>1. q \in Seq(V) /\ Len(q) = C(k)
            /\ \A e \in 1 .. k : \A n \in 1 .. w[e] : q[C(e - 1) + n] = seqs[e][n]
        BY <2>6, <3>5
      <4>2. r \in Seq(V) /\ Len(r) = w[k + 1]
        BY <3>1
      <4>3. flatten[k + 1] = q \o r
        BY <3>2, <3>5
      <4>0. r = seqs[k + 1]
        OBVIOUS
      <4> HIDE DEF q, r
      <4>4. q \o r \in Seq(V) /\ Len(q \o r) = C(k + 1)
            /\ (\A n \in 1 .. Len(q) : (q \o r)[n] = q[n])
            /\ \A n \in 1 .. Len(r) : (q \o r)[Len(q) + n] = r[n]
        <5>1. q \o r \in Seq(V) /\ Len(q \o r) = Len(q) + Len(r)
              /\ (\A n \in 1 .. Len(q) : (q \o r)[n] = q[n])
              /\ \A n \in 1 .. Len(r) : (q \o r)[Len(q) + n] = r[n]
          <6>1. q \in Seq(V) /\ r \in Seq(V)
            BY <4>1, <4>2
          <6> QED BY <6>1
        <5>2. Len(q) + Len(r) = C(k + 1)
          BY <3>3, <4>1, <4>2
        <5> QED BY <5>1, <5>2
      <4>5. ASSUME NEW e \in 1 .. k + 1, NEW n \in 1 .. w[e]
            PROVE  (q \o r)[C(e - 1) + n] = seqs[e][n]
        <5>1. CASE e = k + 1
          <6>1. e - 1 = k
            BY <1>1, <5>1
          <6>2. C(e - 1) = Len(q) /\ n \in 1 .. Len(r)
            BY <4>1, <4>2, <5>1, <6>1
          <6> QED BY <4>0, <4>4, <5>1, <6>2
        <5>2. CASE e # k + 1
          <6>1. e \in 1 .. k /\ e \in 1 .. N
            <7>1. k \in Nat /\ k + 1 <= N
              BY <1>1
            <7> QED BY <1>1, <5>2, <7>1
          <6>2. C(e) = C(e - 1) + w[e] /\ C(e) <= C(k) /\ C(e - 1) \in Nat /\ C(e) \in Nat
            <7>1. e \in 0 .. N /\ k \in 0 .. N /\ e <= k /\ e - 1 \in 0 .. N
              BY <1>1, <3>0, <6>1
            <7> QED BY <1>1, <6>1, <7>1
          <6>3. C(e - 1) + n \in 1 .. Len(q)
            <7>1. w[e] \in Nat
              BY <1>1, <6>1
            <7>2. Len(q) = C(k) /\ C(k) \in Nat
              BY <3>3, <4>1
            <7>3. \A a, b, m \in Nat : a + b <= m => \A y \in 1 .. b : a + y \in 1 .. m
              OBVIOUS
            <7>4. C(e - 1) + w[e] <= C(k)
              BY <6>2
            <7>5. C(e - 1) + n \in 1 .. C(k)
              BY <6>2, <7>1, <7>2, <7>3, <7>4
            <7> QED BY <7>2, <7>5
          <6>4. (q \o r)[C(e - 1) + n] = q[C(e - 1) + n]
            BY <4>4, <6>3
          <6> QED BY <4>1, <6>1, <6>4
        <5> QED BY <5>1, <5>2
      <4>6. Right(flatten[k + 1], k + 1)
        BY <4>3, <4>4, <4>5
      <4> QED BY <3>0, <4>6
    <3> QED BY <3>4, <3>5
  <2>7. N \in S
    <3>1. 0 .. N \subseteq S
      <4> HIDE DEF S
      <4> QED BY <1>1, <2>5, <2>6, UpTo
    <3> QED BY <1>1, <3>1
  <2>8. Right(flatten[N], N)
    BY <1>7, <2>7
  <2>9. FlattenSeq(seqs) = flatten[N]
    BY <1>2, <1>3, <1>7
  <2>10. Right(FlattenSeq(seqs), N)
    BY <2>8, <2>9
  <2> HIDE DEF S, Defined
  <2> QED BY <2>10 DEF N, C
<1> QED BY <1>6, <1>7

\* The entry a number falls into is the first one with which the sum passes it.
LEMMA EntryIs ==
  ASSUME NEW w \in Seq(Nat), NEW e \in 1 .. Len(w), NEW at \in Nat,
         Sum(w, e - 1) <= at, at < Sum(w, e)
  PROVE  FirstBeyond(w, at) = e
<1> DEFINE N == Len(w)
           S == {N + 1} \cup {d \in DOMAIN w : at < Sum(w, d)}
<1>1. N \in Nat /\ DOMAIN w = 1 .. N /\ e \in 1 .. N
  BY NatSeq
<1>2. (\A d \in 0 .. N : Sum(w, d) \in Nat)
      /\ \A c, d \in 0 .. N : c <= d => Sum(w, c) <= Sum(w, d)
  BY SeqSum
<1> HIDE DEF N
<1>3. S \subseteq Nat /\ e \in S
  BY <1>1
<1>4. ASSUME NEW d \in S PROVE e <= d
  <2>1. CASE d = N + 1
    BY <1>1, <2>1
  <2>2. CASE d # N + 1
    <3>1. d \in 1 .. N /\ at < Sum(w, d)
      BY <1>1, <2>2
    <3> SUFFICES ASSUME d < e PROVE FALSE
      BY <1>1, <3>1
    <3>2. d \in 0 .. N /\ e - 1 \in 0 .. N /\ d <= e - 1
      BY <1>1, <3>1
    <3>3. Sum(w, d) <= Sum(w, e - 1) /\ Sum(w, d) \in Nat /\ Sum(w, e - 1) \in Nat
      BY <1>2, <3>2
    <3> QED BY <3>1, <3>3
  <2> QED BY <2>1, <2>2
<1>5. Min(S) = e
  <2> HIDE DEF S
  <2> QED BY <1>3, <1>4, MinIs
<1> QED BY <1>5 DEF FirstBeyond, N

\* Numbers that are not passed by the sum of all have no entry, the others have one.
LEMMA EntryFound ==
  ASSUME NEW w \in Seq(Nat), NEW at \in Nat
  PROVE  /\ FirstBeyond(w, at) \in 1 .. Len(w) + 1
         /\ Sum(w, FirstBeyond(w, at) - 1) <= at
         /\ FirstBeyond(w, at) \in 1 .. Len(w) => at < Sum(w, FirstBeyond(w, at))
         /\ FirstBeyond(w, at) \in 1 .. Len(w) <=> at < Sum(w, Len(w))
         /\ FirstBeyond(w, at) = Len(w) + 1 <=> Sum(w, Len(w)) <= at
<1> DEFINE e == FirstBeyond(w, at)
           N == Len(w)
<1>1. N \in Nat /\ DOMAIN w = 1 .. N /\ \A d \in 1 .. N : w[d] \in Nat
  BY NatSeq
<1>2. (\A d \in 0 .. N : Sum(w, d) \in Nat)
      /\ \A c, d \in 0 .. N : c <= d => Sum(w, c) <= Sum(w, d)
  BY SeqSum
<1>3. e \in 1 .. N + 1 /\ (e <= N => at < Sum(w, e)) /\ Sum(w, e - 1) <= at
  BY <1>1, FirstBeyondIs
<1> HIDE DEF e, N
<1>4. e \in 1 .. N => at < Sum(w, e)
  BY <1>1, <1>3
<1>5. ASSUME e \in 1 .. N PROVE at < Sum(w, N)
  <2>1. e \in 0 .. N /\ N \in 0 .. N /\ e <= N
    BY <1>1, <1>5
  <2>2. Sum(w, e) <= Sum(w, N) /\ Sum(w, e) \in Nat /\ Sum(w, N) \in Nat
    BY <1>2, <2>1
  <2> QED BY <1>4, <1>5, <2>2
<1>6. ASSUME e = N + 1 PROVE Sum(w, N) <= at
  <2>1. e - 1 = N
    BY <1>1, <1>6
  <2> QED BY <1>3, <2>1
<1>7. Sum(w, N) \in Nat
  BY <1>1, <1>2
<1>8. e \in 1 .. N \/ e = N + 1
  BY <1>1, <1>3
<1>9. e \in 1 .. N => e # N + 1
  BY <1>1
<1> QED BY <1>3, <1>4, <1>5, <1>6, <1>7, <1>8, <1>9 DEF e, N

\* What is left when a table loses what comes before a number.
LEMMA LeftSums ==
  ASSUME NEW w \in Seq(Nat), NEW e \in 1 .. Len(w), NEW at \in Nat,
         Sum(w, e - 1) <= at, at < Sum(w, e),
         NEW v \in Seq(Nat), Len(v) = Len(w) - e + 1, v[1] = Sum(w, e) - at,
         \A d \in 2 .. Len(v) : v[d] = w[e - 1 + d]
  PROVE  /\ Sum(v, Len(v)) = Sum(w, Len(w)) - at
         /\ \A d \in 1 .. Len(v) : Sum(v, d) = Sum(w, e - 1 + d) - at
         /\ \A k \in 0 .. Sum(w, Len(w)) - at - 1 :
              FirstBeyond(v, k) \in 1 .. Len(v) /\ FirstBeyond(w, at + k) = e - 1 + FirstBeyond(v, k)
<1> DEFINE N == Len(w)
           M == Len(v)
<1>1. N \in Nat /\ M \in Nat /\ e \in 1 .. N /\ M = N - e + 1 /\ M >= 1
  BY NatSeq
<1>2. Sum(w, 0) = 0 /\ (\A d \in 0 .. N : Sum(w, d) \in Nat)
      /\ (\A d \in 1 .. N : Sum(w, d) = Sum(w, d - 1) + w[d])
      /\ (\A c, d \in 0 .. N : c <= d => Sum(w, c) <= Sum(w, d))
  BY SeqSum
<1>3. Sum(v, 0) = 0 /\ (\A d \in 0 .. M : Sum(v, d) \in Nat)
      /\ (\A d \in 1 .. M : Sum(v, d) = Sum(v, d - 1) + v[d])
  BY SeqSum
<1>4. \A d \in 1 .. N : w[d] \in Nat
  BY NatSeq
<1>5. v[1] = Sum(w, e) - at /\ \A d \in 2 .. M : v[d] = w[e - 1 + d]
  OBVIOUS
<1> HIDE DEF N, M
<1>6. \A d \in 1 .. M : Sum(v, d) = Sum(w, e - 1 + d) - at
  <2> DEFINE S == {d \in 0 .. M : d # 0 => Sum(v, d) = Sum(w, e - 1 + d) - at}
  <2>1. 0 \in S
    BY <1>1
  <2>2. ASSUME NEW d \in 0 .. M - 1, d \in S PROVE d + 1 \in S
    <3>1. d + 1 \in 1 .. M /\ d + 1 - 1 = d /\ d \in 0 .. M /\ d + 1 \in 0 .. M
      BY <1>1
    <3>2. Sum(v, d + 1) = Sum(v, d) + v[d + 1]
      BY <1>3, <3>1, SMTT(20)
    <3>3. CASE d = 0
      <4>1. v[1] = Sum(w, e) - at /\ Sum(v, 1) = 0 + v[1]
        BY <1>3, <1>5, <3>2, <3>3
      <4>2. Sum(w, e) \in Nat
        BY <1>1, <1>2
      <4>3. e - 1 + 1 = e
        BY <1>1
      <4>4. Sum(v, 1) = Sum(w, e - 1 + 1) - at
        BY <4>1, <4>2, <4>3
      <4> QED BY <3>1, <3>3, <4>4
    <3>4. CASE d # 0
      <4>1. d + 1 \in 2 .. M /\ e - 1 + (d + 1) \in 1 .. N /\ e - 1 + (d + 1) - 1 = e - 1 + d
            /\ e - 1 + d \in 0 .. N
        BY <1>1, <3>1, <3>4
      <4>2. v[d + 1] = w[e - 1 + (d + 1)]
        BY <1>5, <4>1
      <4>3. Sum(w, e - 1 + (d + 1)) = Sum(w, e - 1 + d) + w[e - 1 + (d + 1)]
        BY <1>2, <4>1
      <4>4. Sum(v, d) = Sum(w, e - 1 + d) - at
        BY <2>2, <3>4
      <4>5. Sum(w, e - 1 + d) \in Nat /\ w[e - 1 + (d + 1)] \in Nat
        BY <1>2, <1>4, <4>1
      <4> DEFINE m == e - 1 + (d + 1)
                 a == w[m]
                 b == Sum(w, e - 1 + d)
      <4>6. Sum(w, m) = b + a /\ Sum(v, d + 1) = b - at + a /\ b \in Nat /\ a \in Nat
        BY <3>2, <4>2, <4>3, <4>4, <4>5
      <4>7. Sum(v, d + 1) = Sum(w, m) - at
        <5> HIDE DEF m, a, b
        <5> QED BY <4>6
      <4> QED BY <3>1, <4>7
    <3> QED BY <3>3, <3>4
  <2>3. 0 .. M \subseteq S
    <3> HIDE DEF S
    <3> QED BY <1>1, <2>1, <2>2, UpTo
  <2>4. ASSUME NEW d \in 1 .. M PROVE Sum(v, d) = Sum(w, e - 1 + d) - at
    <3>1. d \in 0 .. M /\ d # 0
      BY <1>1
    <3> QED BY <2>3, <3>1
  <2> QED BY <2>4
<1>7. Sum(v, M) = Sum(w, N) - at
  <2>1. M \in 1 .. M /\ e - 1 + M = N
    BY <1>1
  <2>2. Sum(v, M) = Sum(w, e - 1 + M) - at
    BY <1>6, <2>1
  <2> QED BY <2>1, <2>2
<1>8. ASSUME NEW k \in 0 .. Sum(w, N) - at - 1
      PROVE  FirstBeyond(v, k) \in 1 .. M /\ FirstBeyond(w, at + k) = e - 1 + FirstBeyond(v, k)
  <2> DEFINE f == FirstBeyond(v, k)
  <2>1. Sum(w, N) \in Nat /\ k \in Nat /\ at + k \in Nat
    <3>1. Sum(w, N) \in Nat
      BY <1>1, <1>2
    <3> QED BY <3>1
  <2>2. k < Sum(v, M)
    BY <1>7, <2>1
  <2>3. f \in 1 .. M /\ Sum(v, f - 1) <= k /\ k < Sum(v, f)
    <3>1. v \in Seq(Nat) /\ M = Len(v)
      BY DEF M
    <3> QED BY <2>1, <2>2, <3>1, EntryFound
  <2> HIDE DEF f
  <2>4. e - 1 + f \in 1 .. N /\ e - 1 + f - 1 \in 0 .. N /\ e - 1 + f \in 0 .. N
    BY <1>1, <2>3
  <2>5. Sum(w, e - 1 + f) \in Nat /\ Sum(w, e - 1 + f - 1) \in Nat
    BY <1>2, <2>4
  <2>6. at + k < Sum(w, e - 1 + f)
    <3>1. Sum(v, f) = Sum(w, e - 1 + f) - at
      BY <1>6, <2>3
    <3> QED BY <2>1, <2>3, <2>5, <3>1
  <2>7. Sum(w, e - 1 + f - 1) <= at + k
    <3>1. CASE f = 1
      <4>1. e - 1 + f - 1 = e - 1
        BY <1>1, <3>1
      <4>2. Sum(w, e - 1) \in Nat /\ Sum(w, e - 1) <= at
        BY <2>5, <4>1
      <4> QED BY <2>1, <4>1, <4>2
    <3>2. CASE f # 1
      <4>1. f - 1 \in 1 .. M /\ e - 1 + (f - 1) = e - 1 + f - 1
        BY <1>1, <2>3, <3>2
      <4>2. Sum(v, f - 1) = Sum(w, e - 1 + f - 1) - at
        BY <1>6, <4>1
      <4> QED BY <2>1, <2>3, <2>5, <4>2
    <3> QED BY <3>1, <3>2
  <2>8. FirstBeyond(w, at + k) = e - 1 + f
    <3>1. PICK m : m = e - 1 + f
      OBVIOUS
    <3>2. m \in 1 .. Len(w)
      BY <2>4, <3>1 DEF N
    <3>3. Sum(w, m - 1) <= at + k
      <4>1. m - 1 = e - 1 + f - 1
        BY <1>1, <2>3, <3>1
      <4> QED BY <2>7, <4>1
    <3>4. at + k < Sum(w, m)
      BY ONLY <2>6, <3>1
    <3>5. FirstBeyond(w, at + k) = m
      BY <2>1, <3>2, <3>3, <3>4, EntryIs
    <3> QED BY <3>1, <3>5
  <2> QED BY <2>3, <2>8 DEF f
<1>9. \A k \in 0 .. Sum(w, N) - at - 1 :
        FirstBeyond(v, k) \in 1 .. M /\ FirstBeyond(w, at + k) = e - 1 + FirstBeyond(v, k)
  BY <1>8
<1>10. N = Len(w) /\ M = Len(v)
  BY DEF N, M
<1>11. \A d \in 1 .. Len(v) : Sum(v, d) = Sum(w, e - 1 + d) - at
  BY ONLY <1>6, <1>10
<1>12. \A k \in 0 .. Sum(w, Len(w)) - at - 1 :
        FirstBeyond(v, k) \in 1 .. Len(v) /\ FirstBeyond(w, at + k) = e - 1 + FirstBeyond(v, k)
  BY ONLY <1>9, <1>10
<1> QED BY <1>7, <1>10, <1>11, <1>12

\* And when it loses what comes behind one.
LEMMA RightSums ==
  ASSUME NEW w \in Seq(Nat), NEW e \in 1 .. Len(w), NEW at \in Nat,
         Sum(w, e - 1) <= at, at < Sum(w, e),
         NEW v \in Seq(Nat), Len(v) = e, v[e] = at - Sum(w, e - 1),
         \A d \in 1 .. e - 1 : v[d] = w[d]
  PROVE  /\ Sum(v, Len(v)) = at
         /\ \A k \in 0 .. at - 1 :
              FirstBeyond(v, k) \in 1 .. e /\ FirstBeyond(w, k) = FirstBeyond(v, k)
<1> DEFINE N == Len(w)
<1>1. N \in Nat /\ e \in 1 .. N
  BY NatSeq
<1>2. Sum(w, 0) = 0 /\ (\A d \in 0 .. N : Sum(w, d) \in Nat)
      /\ (\A d \in 1 .. N : Sum(w, d) = Sum(w, d - 1) + w[d])
  BY SeqSum
<1>3. Sum(v, 0) = 0 /\ (\A d \in 0 .. e : Sum(v, d) \in Nat)
      /\ (\A d \in 1 .. e : Sum(v, d) = Sum(v, d - 1) + v[d])
  BY SeqSum
<1>5. v[e] = at - Sum(w, e - 1) /\ \A d \in 1 .. e - 1 : v[d] = w[d]
  OBVIOUS
<1> HIDE DEF N
<1>6. \A d \in 0 .. e - 1 : Sum(v, d) = Sum(w, d)
  <2> DEFINE S == {d \in 0 .. e - 1 : Sum(v, d) = Sum(w, d)}
  <2>1. 0 \in S
    BY <1>1, <1>2, <1>3
  <2>2. ASSUME NEW d \in 0 .. e - 1 - 1, d \in S PROVE d + 1 \in S
    <3>1. d + 1 \in 1 .. e - 1 /\ d + 1 - 1 = d /\ d + 1 \in 1 .. e /\ d + 1 \in 1 .. N
          /\ d + 1 \in 0 .. e - 1
      BY <1>1
    <3>2. Sum(v, d + 1) = Sum(v, d) + v[d + 1]
      BY <1>3, <3>1
    <3>3. Sum(w, d + 1) = Sum(w, d) + w[d + 1]
      BY <1>2, <3>1
    <3>4. v[d + 1] = w[d + 1] /\ Sum(v, d) = Sum(w, d)
      BY <1>5, <2>2, <3>1
    <3> QED BY <3>1, <3>2, <3>3, <3>4
  <2>3. 0 .. e - 1 \subseteq S
    <3>1. e - 1 \in Nat
      BY <1>1
    <3> HIDE DEF S
    <3> QED BY <3>1, <2>1, <2>2, UpTo
  <2> QED BY <2>3
<1>7. Sum(v, e) = at
  <2>1. e \in 1 .. e /\ e - 1 \in 0 .. e - 1 /\ e - 1 \in 0 .. N
    BY <1>1
  <2>2. Sum(v, e) = Sum(v, e - 1) + v[e] /\ Sum(v, e - 1) = Sum(w, e - 1) /\ Sum(w, e - 1) \in Nat
    BY <1>2, <1>3, <1>6, <2>1
  <2> QED BY <1>5, <2>2
<1>8. ASSUME NEW k \in 0 .. at - 1
      PROVE  FirstBeyond(v, k) \in 1 .. e /\ FirstBeyond(w, k) = FirstBeyond(v, k)
  <2> DEFINE f == FirstBeyond(v, k)
  <2>1. k \in Nat /\ k < at
    OBVIOUS
  <2>2. k < Sum(v, e)
    BY <1>7, <2>1
  <2>3. f \in 1 .. e /\ Sum(v, f - 1) <= k /\ k < Sum(v, f)
    BY <2>1, <2>2, EntryFound
  <2> HIDE DEF f
  <2>4. f \in 1 .. N /\ f - 1 \in 0 .. e - 1 /\ f \in 0 .. N
    BY <1>1, <2>3
  <2>5. Sum(w, f - 1) <= k
    BY <1>6, <2>3, <2>4
  <2>6. k < Sum(w, f)
    <3>1. CASE f = e
      <4>1. at < Sum(w, f)
        BY <3>1
      <4>2. Sum(w, f) \in Nat
        BY <1>2, <2>4
      <4> QED BY <2>1, <4>1, <4>2
    <3>2. CASE f # e
      <4>1. f \in 0 .. e - 1
        BY <2>3, <3>2
      <4> QED BY <1>6, <2>3, <4>1
    <3> QED BY <3>1, <3>2
  <2>7. FirstBeyond(w, k) = f
    <3>1. w \in Seq(Nat) /\ N = Len(w)
      BY DEF N
    <3> QED BY <2>1, <2>4, <2>5, <2>6, <3>1, EntryIs
  <2> QED BY <2>3, <2>7 DEF f
<1> QED BY <1>7, <1>8 DEF N

(* Tables that are run length coded.                                       *)

Run == [count : Nat, duration : Nat]
Total(r) == Sum(Counts(r), Len(r))

\* The entry of the item with number k, from 0.
RunAt(r, k) == r[FirstBeyond(Counts(r), k)]

\* P[k] is the time of item k.
Elapses(P, r) == SumsUp(P, [k \in 0 .. Total(r) - 1 |-> RunAt(r, k).duration], Total(r))

\* What is known of a table with counts.
LEMMA CountsKnown ==
  ASSUME NEW R, NEW r \in Seq(R), \A x \in R : x.count \in Nat
  PROVE  /\ Len(r) \in Nat /\ DOMAIN r = 1 .. Len(r) /\ \A e \in 1 .. Len(r) : r[e] \in R
         /\ Counts(r) \in Seq(Nat) /\ Len(Counts(r)) = Len(r)
         /\ \A e \in 1 .. Len(r) : Counts(r)[e] = r[e].count
         /\ Total(r) = Sum(Counts(r), Len(Counts(r))) /\ Total(r) \in Nat
<1>1. Len(r) \in Nat /\ DOMAIN r = 1 .. Len(r) /\ \A e \in 1 .. Len(r) : r[e] \in R
  BY SMTT(20)
<1>2. PICK N \in Nat : N = Len(r)
  BY <1>1
<1>3. Counts(r) = [e \in 1 .. N |-> r[e].count]
  BY <1>1, <1>2 DEF Counts
<1>4. \A e \in 1 .. N : r[e].count \in Nat
  BY <1>1, <1>2
<1>5. Counts(r) \in Seq(Nat) /\ Len(Counts(r)) = N
  BY <1>3, <1>4
<1>6. Sum(Counts(r), Len(Counts(r))) \in Nat
  <2>1. Len(Counts(r)) \in 0 .. Len(Counts(r))
    BY <1>5
  <2> QED BY <1>5, <2>1, SeqSum
<1> QED BY <1>1, <1>2, <1>3, <1>5, <1>6 DEF Total

\* And with durations.
LEMMA RunsKnown ==
  ASSUME NEW r \in Seq(Run)
  PROVE  /\ Len(r) \in Nat /\ DOMAIN r = 1 .. Len(r)
         /\ \A e \in 1 .. Len(r) : r[e].count \in Nat /\ r[e].duration \in Nat
         /\ Counts(r) \in Seq(Nat) /\ Len(Counts(r)) = Len(r)
         /\ \A e \in 1 .. Len(r) : Counts(r)[e] = r[e].count
         /\ Spans(r) \in Seq(Nat) /\ Len(Spans(r)) = Len(r)
         /\ \A e \in 1 .. Len(r) : Spans(r)[e] = r[e].count * r[e].duration
         /\ Total(r) = Sum(Counts(r), Len(Counts(r))) /\ Total(r) \in Nat
<1>1. \A x \in Run : x.count \in Nat /\ x.duration \in Nat
  BY DEF Run
<1>2. /\ Len(r) \in Nat /\ DOMAIN r = 1 .. Len(r) /\ \A e \in 1 .. Len(r) : r[e] \in Run
      /\ Counts(r) \in Seq(Nat) /\ Len(Counts(r)) = Len(r)
      /\ \A e \in 1 .. Len(r) : Counts(r)[e] = r[e].count
      /\ Total(r) = Sum(Counts(r), Len(Counts(r))) /\ Total(r) \in Nat
  BY <1>1, CountsKnown, SMTT(20)
<1>3. PICK N \in Nat : N = Len(r)
  BY <1>2
<1>4. \A e \in 1 .. N : r[e].count \in Nat /\ r[e].duration \in Nat
  BY <1>1, <1>2, <1>3
<1>5. Spans(r) = [e \in 1 .. N |-> r[e].count * r[e].duration]
  BY <1>2, <1>3 DEF Spans, Span
<1>6. \A a, b \in Nat : a * b \in Nat
  OBVIOUS
<1>7. \A e \in 1 .. N : r[e].count * r[e].duration \in Nat
  BY <1>4, <1>6
<1>8. Spans(r) \in Seq(Nat) /\ Len(Spans(r)) = N
  BY <1>5, <1>7
<1>9. \A e \in 1 .. Len(r) : Spans(r)[e] = r[e].count * r[e].duration
  BY <1>3, <1>5
<1> QED BY <1>2, <1>3, <1>4, <1>8, <1>9

\* What is expanded of a table has its entry for each item.
LEMMA ExpandedIs ==
  ASSUME NEW R, NEW r \in Seq(R), \A x \in R : x.count \in Nat
  PROVE  /\ Len(Expanded(r)) = Total(r) /\ DOMAIN Expanded(r) = 1 .. Total(r)
         /\ \A k \in 0 .. Total(r) - 1 : Expanded(r)[k + 1] = RunAt(r, k)
<1> DEFINE w == Counts(r)
           seqs == [e \in DOMAIN r |-> [n \in 1 .. r[e].count |-> r[e]]]
<1>1. /\ Len(r) \in Nat /\ DOMAIN r = 1 .. Len(r) /\ \A e \in 1 .. Len(r) : r[e] \in R
      /\ w \in Seq(Nat) /\ Len(w) = Len(r)
      /\ \A e \in 1 .. Len(r) : w[e] = r[e].count
      /\ Total(r) = Sum(w, Len(w)) /\ Total(r) \in Nat
  BY CountsKnown
<1>2. \A x \in R : x.count \in Nat
  OBVIOUS
<1>3. Expanded(r) = FlattenSeq(seqs)
  BY DEF Expanded
<1>4. PICK N \in Nat : N = Len(r)
  BY <1>1
<1>5. ASSUME NEW e \in 1 .. N
      PROVE  /\ seqs[e] = [n \in 1 .. r[e].count |-> r[e]]
             /\ seqs[e] \in Seq(R) /\ Len(seqs[e]) = r[e].count
             /\ \A n \in 1 .. r[e].count : seqs[e][n] = r[e]
  <2>1. r[e] \in R /\ r[e].count \in Nat
    BY <1>1, <1>2, <1>4
  <2>2. seqs[e] = [n \in 1 .. r[e].count |-> r[e]]
    BY <1>1, <1>4
  <2> HIDE DEF seqs
  <2> QED BY <2>1, <2>2
<1>6. seqs = [e \in 1 .. N |-> seqs[e]]
  BY <1>1, <1>4
<1> HIDE DEF seqs, w
<1>7. seqs \in Seq(Seq(R)) /\ Len(seqs) = N
  BY <1>4, <1>5, <1>6
<1>8. Len(w) = Len(seqs) /\ \A e \in 1 .. Len(w) : Len(seqs[e]) = w[e]
  BY <1>1, <1>4, <1>5, <1>7
<1>9. /\ FlattenSeq(seqs) \in Seq(R) /\ Len(FlattenSeq(seqs)) = Sum(w, Len(w))
      /\ \A e \in 1 .. Len(w) : \A n \in 1 .. w[e] :
           FlattenSeq(seqs)[Sum(w, e - 1) + n] = seqs[e][n]
  BY <1>1, <1>7, <1>8, FlattenIs, Zenon
<1>10. ASSUME NEW k \in 0 .. Total(r) - 1 PROVE Expanded(r)[k + 1] = RunAt(r, k)
  <2> DEFINE e == FirstBeyond(w, k)
  <2>1. k \in Nat /\ k < Sum(w, Len(w))
    BY <1>1
  <2>2. e \in 1 .. Len(w) /\ Sum(w, e - 1) <= k /\ k < Sum(w, e)
    BY <1>1, <2>1, EntryFound
  <2>3. RunAt(r, k) = r[e]
    BY DEF RunAt, w
  <2> HIDE DEF e
  <2>4. Sum(w, e) = Sum(w, e - 1) + w[e] /\ Sum(w, e - 1) \in Nat /\ w[e] \in Nat
    <3>1. e - 1 \in 0 .. Len(w)
      BY <1>1, <2>2
    <3>2. w[e] \in Nat
      BY <1>1, <2>2, NatSeq
    <3> QED BY <1>1, <2>2, <3>1, <3>2, SeqSum
  <2>5. PICK n \in 1 .. w[e] : k + 1 = Sum(w, e - 1) + n
    <3>1. k + 1 - Sum(w, e - 1) \in 1 .. w[e] /\ k + 1 = Sum(w, e - 1) + (k + 1 - Sum(w, e - 1))
      BY <2>1, <2>2, <2>4
    <3> QED BY <3>1
  <2>6. FlattenSeq(seqs)[k + 1] = seqs[e][n]
    BY <1>9, <2>2, <2>5
  <2>7. seqs[e][n] = r[e]
    BY <1>1, <1>4, <1>5, <2>2
  <2> QED BY <1>3, <2>3, <2>6, <2>7
<1>11. Len(Expanded(r)) = Total(r) /\ DOMAIN Expanded(r) = 1 .. Total(r)
  <2>1. \A V : \A q \in Seq(V) : DOMAIN q = 1 .. Len(q)
    OBVIOUS
  <2> QED BY <1>1, <1>3, <1>9, <2>1
<1> QED BY <1>10, <1>11

\* There are such times, and they rise.
LEMMA ElapsesKnown ==
  ASSUME NEW r \in Seq(Run), NEW P, Elapses(P, r)
  PROVE  /\ P[0] = 0 /\ \A k \in 0 .. Total(r) : P[k] \in Nat
         /\ \A k \in 0 .. Total(r) - 1 : P[k + 1] = P[k] + RunAt(r, k).duration
         /\ \A k, m \in 0 .. Total(r) : k <= m => P[k] <= P[m]
<1> DEFINE N == Total(r)
           w == [k \in 0 .. N - 1 |-> RunAt(r, k).duration]
<1>1. N \in Nat /\ Counts(r) \in Seq(Nat) /\ Len(Counts(r)) = Len(r) /\ N = Sum(Counts(r), Len(Counts(r)))
  BY RunsKnown
<1>2. SumsUp(P, w, N)
  BY DEF Elapses
<1>3. ASSUME NEW k \in 0 .. N - 1 PROVE w[k] = RunAt(r, k).duration /\ w[k] \in Nat
  <2>1. k \in Nat /\ k < Sum(Counts(r), Len(Counts(r)))
    BY <1>1
  <2>2. FirstBeyond(Counts(r), k) \in 1 .. Len(r)
    BY <1>1, <2>1, EntryFound
  <2>3. r[FirstBeyond(Counts(r), k)].duration \in Nat
    BY <2>2, RunsKnown
  <2> QED BY <2>3 DEF RunAt
<1> HIDE DEF w, N
<1>4. \A k, m \in 0 .. N : k <= m => P[k] <= P[m]
  BY <1>1, <1>2, <1>3, SumRises
<1>5. P[0] = 0 /\ (\A k \in 0 .. N : P[k] \in Nat) /\ \A k \in 0 .. N - 1 : P[k + 1] = P[k] + w[k]
  BY <1>2 DEF SumsUp
<1>6. \A k \in 0 .. N - 1 : P[k + 1] = P[k] + RunAt(r, k).duration
  BY <1>3, <1>5
<1> QED BY <1>4, <1>5, <1>6 DEF N

\* Within an entry they go on by its duration, and with all of it by its span.
LEMMA RunTimes ==
  ASSUME NEW r \in Seq(Run), NEW P, Elapses(P, r)
  PROVE  /\ \A e \in 1 .. Len(r) : \A m \in 0 .. r[e].count :
              P[Sum(Counts(r), e - 1) + m] = P[Sum(Counts(r), e - 1)] + m * r[e].duration
         /\ \A e \in 0 .. Len(r) : Sum(Spans(r), e) = P[Sum(Counts(r), e)]
<1> DEFINE N == Len(r)
           w == Counts(r)
           C(e) == Sum(w, e)
           T(e) == Sum(Spans(r), e)
           T0 == Total(r)
<1>1. /\ N \in Nat /\ \A e \in 1 .. N : r[e].count \in Nat /\ r[e].duration \in Nat
      /\ w \in Seq(Nat) /\ Len(w) = N /\ \A e \in 1 .. N : w[e] = r[e].count
      /\ Spans(r) \in Seq(Nat) /\ Len(Spans(r)) = N
      /\ \A e \in 1 .. N : Spans(r)[e] = r[e].count * r[e].duration
      /\ T0 = C(N) /\ T0 \in Nat
  BY RunsKnown
<1>2. /\ P[0] = 0 /\ \A k \in 0 .. T0 : P[k] \in Nat
      /\ \A k \in 0 .. T0 - 1 : P[k + 1] = P[k] + RunAt(r, k).duration
  BY ElapsesKnown
<1>3. C(0) = 0 /\ (\A e \in 0 .. N : C(e) \in Nat)
      /\ (\A e \in 1 .. N : C(e) = C(e - 1) + r[e].count)
      /\ (\A d, e \in 0 .. N : d <= e => C(d) <= C(e))
  BY <1>1, SeqSum
<1>4. T(0) = 0 /\ (\A e \in 0 .. N : T(e) \in Nat)
      /\ (\A e \in 1 .. N : T(e) = T(e - 1) + Spans(r)[e])
  BY <1>1, SeqSum
<1>5. RunAt(r, 0) = r[FirstBeyond(w, 0)] /\ \A k : RunAt(r, k) = r[FirstBeyond(w, k)]
  BY DEF RunAt
<1> HIDE DEF N, T0
<1>6. ASSUME NEW e \in 1 .. N
      PROVE  \A m \in 0 .. r[e].count : P[C(e - 1) + m] = P[C(e - 1)] + m * r[e].duration
  <2> DEFINE a == C(e - 1)
             M == r[e].count
             dur == r[e].duration
             S == {m \in 0 .. M : P[a + m] = P[a] + m * dur}
  <2>1. a \in Nat /\ M \in Nat /\ dur \in Nat /\ a + M = C(e) /\ a + M <= T0 /\ T0 \in Nat
    <3>1. e - 1 \in 0 .. N /\ e \in 0 .. N /\ N \in 0 .. N /\ e <= N
      BY <1>1
    <3>2. C(e) <= C(N) /\ C(e - 1) \in Nat /\ C(e) \in Nat
      BY <1>3, <3>1
    <3>3. C(e) = C(e - 1) + r[e].count
      BY <1>3
    <3>4. M \in Nat /\ dur \in Nat /\ T0 = C(N) /\ T0 \in Nat
      BY <1>1
    <3> HIDE DEF C
    <3> QED BY <3>2, <3>3, <3>4
  <2>2. ASSUME NEW m \in 0 .. M - 1 PROVE RunAt(r, a + m) = r[e]
    <3>1. a + m \in Nat /\ a <= a + m /\ a + m < C(e)
      BY <2>1
    <3>2. FirstBeyond(w, a + m) = e
      <4>1. w \in Seq(Nat) /\ e \in 1 .. Len(w)
        BY <1>1
      <4> QED BY <3>1, <4>1, EntryIs
    <3> QED BY <1>5, <3>2
  <2>3. 0 \in S
    <3>1. a + 0 = a /\ 0 * dur = 0 /\ a \in 0 .. T0
      <4> HIDE DEF a, dur, M
      <4> QED BY <2>1
    <3>2. P[a] \in Nat
      BY <1>2, <3>1
    <3> QED BY <2>1, <3>1, <3>2
  <2>4. ASSUME NEW m \in 0 .. M - 1, m \in S PROVE m + 1 \in S
    <3>1. P[a + m] = P[a] + m * dur
      BY <2>4
    <3> HIDE DEF a, M, dur, S, C
    <3>2. a + m \in 0 .. T0 - 1 /\ a + (m + 1) = a + m + 1 /\ m + 1 \in 0 .. M /\ a \in 0 .. T0
      BY <2>1
    <3>3. P[a + m + 1] = P[a + m] + RunAt(r, a + m).duration
      BY <1>2, <3>2
    <3>4. RunAt(r, a + m).duration = dur
      BY <2>2 DEF dur
    <3>5. (m + 1) * dur = m * dur + dur /\ m * dur \in Int
      BY <2>1
    <3>6. P[a] \in Nat
      BY <1>2, <3>2
    <3>7. P[a + (m + 1)] = P[a] + (m + 1) * dur
      BY <2>1, <3>1, <3>2, <3>3, <3>4, <3>5, <3>6
    <3> QED BY <3>2, <3>7 DEF S
  <2>5. 0 .. M \subseteq S
    <3> HIDE DEF S, a
    <3> QED BY <2>1, <2>3, <2>4, UpTo
  <2> QED BY <2>5
<1>7. \A e \in 0 .. N : T(e) = P[C(e)]
  <2> DEFINE S == {e \in 0 .. N : T(e) = P[C(e)]}
  <2>1. 0 \in S
    BY <1>1, <1>2, <1>3, <1>4
  <2>2. ASSUME NEW d \in 0 .. N - 1, d \in S PROVE d + 1 \in S
    <3>1. PICK e : e = d + 1
      OBVIOUS
    <3>2. e \in 1 .. N /\ e - 1 = d
      BY <1>1, <3>1
    <3>3. T(e) = T(e - 1) + r[e].count * r[e].duration /\ T(e - 1) = P[C(e - 1)]
      BY <1>1, <1>4, <2>2, <3>2
    <3>4. C(e) = C(e - 1) + r[e].count /\ r[e].count \in Nat /\ r[e].count \in 0 .. r[e].count
      BY <1>1, <1>3, <3>2, SMTT(20)
    <3>5. P[C(e - 1) + r[e].count] = P[C(e - 1)] + r[e].count * r[e].duration
      BY <1>6, <3>2, <3>4
    <3>6. T(e) = P[C(e)]
      BY <3>3, <3>4, <3>5
    <3>7. e \in 0 .. N
      BY <1>1, <3>2
    <3> QED BY <3>1, <3>6, <3>7
  <2>3. 0 .. N \subseteq S
    <3> HIDE DEF S
    <3> QED BY <1>1, <2>1, <2>2, UpTo
  <2> QED BY <2>3
<1> QED BY <1>6, <1>7 DEF N

\* The last item that is not later than a time.
LEMMA PositionIs ==
  ASSUME NEW r \in Seq(Run), NEW P, Elapses(P, r), NEW at \in Nat,
         NEW e, e = FirstBeyond(Spans(r), at), e \in 1 .. Len(r),
         NEW n, n = Sum(Counts(r), e - 1) + (at - Sum(Spans(r), e - 1)) \div r[e].duration
  PROVE  /\ n \in 0 .. Total(r) - 1 /\ P[n] <= at /\ at < P[n + 1]
         /\ Sum(Counts(r), e - 1) <= n /\ n < Sum(Counts(r), e)
         /\ Sum(Counts(r), e) = Sum(Counts(r), e - 1) + r[e].count
         /\ r[e].duration \in Nat \ {0}
         /\ P[n] = Sum(Spans(r), e - 1) + (n - Sum(Counts(r), e - 1)) * r[e].duration
         /\ at - P[n] = (at - Sum(Spans(r), e - 1)) % r[e].duration
         /\ RunAt(r, n) = r[e]
<1> DEFINE N == Len(r)
           w == Counts(r)
           C(d) == Sum(w, d)
           T(d) == Sum(Spans(r), d)
           dur == r[e].duration
           count == r[e].count
           x == at - T(e - 1)
           rest == x \div dur
<1>1. /\ N \in Nat /\ \A d \in 1 .. N : r[d].count \in Nat /\ r[d].duration \in Nat
      /\ w \in Seq(Nat) /\ Len(w) = N /\ \A d \in 1 .. N : w[d] = r[d].count
      /\ Spans(r) \in Seq(Nat) /\ Len(Spans(r)) = N
      /\ \A d \in 1 .. N : Spans(r)[d] = r[d].count * r[d].duration
      /\ Total(r) = C(N) /\ Total(r) \in Nat
  BY RunsKnown
<1>2. e \in 1 .. N /\ e \in 0 .. N /\ e - 1 \in 0 .. N /\ e <= N /\ N \in 0 .. N
  BY <1>1
<1>3. C(e) = C(e - 1) + count /\ C(e - 1) \in Nat /\ C(e) \in Nat /\ C(e) <= C(N)
      /\ count \in Nat /\ dur \in Nat
  <2>1. (\A d \in 0 .. N : C(d) \in Nat)
        /\ (\A d \in 1 .. N : C(d) = C(d - 1) + w[d])
        /\ (\A c, d \in 0 .. N : c <= d => C(c) <= C(d))
    BY <1>1, SeqSum
  <2>2. w[e] = count /\ count \in Nat /\ dur \in Nat
    BY <1>1, <1>2
  <2>3. C(e) = C(e - 1) + w[e]
    BY <1>2, <2>1
  <2>4. C(e - 1) \in Nat /\ C(e) \in Nat /\ C(e) <= C(N)
    BY <1>2, <2>1
  <2> QED BY <2>2, <2>3, <2>4
<1>4. T(e) = T(e - 1) + count * dur /\ T(e - 1) \in Nat
  BY <1>1, <1>2, SeqSum
<1>5. T(e - 1) <= at /\ at < T(e)
  BY <1>1, <1>2, EntryFound
<1>6. x \in Nat /\ x < count * dur
  BY <1>3, <1>4, <1>5, SMTT(20)
<1>7. n = C(e - 1) + rest
  OBVIOUS
<1>8. /\ \A m \in 0 .. count : P[C(e - 1) + m] = P[C(e - 1)] + m * dur
      /\ T(e - 1) = P[C(e - 1)]
  BY <1>2, RunTimes
<1>9. at = T(e - 1) + x
  BY <1>4
<1>10. \A k : RunAt(r, k) = r[FirstBeyond(w, k)]
  BY DEF RunAt
<1> HIDE DEF C, T, dur, count, x
<1>11. dur # 0
  <2> SUFFICES ASSUME dur = 0 PROVE FALSE
    OBVIOUS
  <2>1. count * dur = 0
    BY <1>3
  <2> QED BY <1>6, <2>1
<1>12. rest \in Nat /\ rest * dur <= x /\ x < (rest + 1) * dur /\ rest < count /\ x - rest * dur = x % dur
  <2>1. dur \in Nat /\ dur > 0 /\ x \in Nat /\ count \in Nat
    BY <1>3, <1>6, <1>11
  <2>2. x = dur * (x \div dur) + (x % dur) /\ x % dur \in 0 .. dur - 1 /\ x \div dur \in Int
    BY <2>1
  <2>3. rest >= 0
    BY <2>1
  <2>4. rest \in Nat /\ rest * dur = dur * rest /\ (rest + 1) * dur = dur * rest + dur
    BY <2>1, <2>2, <2>3
  <2> HIDE DEF rest
  <2>5. rest < count
    <3> SUFFICES ASSUME count <= rest PROVE FALSE
      BY <1>3, <2>4
    <3>1. count * dur <= rest * dur
      BY <1>3, <2>1, <2>4
    <3>2. x >= dur * rest
      BY <2>1, <2>2, <2>4 DEF rest
    <3> QED BY <1>6, <2>1, <2>4, <3>1, <3>2
  <2>6. x = dur * rest + (x % dur)
    BY <2>2 DEF rest
  <2> QED BY <2>1, <2>2, <2>4, <2>5, <2>6
<1> HIDE DEF rest
<1>13. n \in Nat /\ C(e - 1) <= n /\ n < C(e) /\ n < C(N) /\ n \in 0 .. Total(r) - 1 /\ n - C(e - 1) = rest
  <2>1. Total(r) \in Nat /\ Total(r) = C(N)
    BY <1>1
  <2>2. n \in Nat /\ C(e - 1) <= n /\ n < C(e) /\ n - C(e - 1) = rest
    <3>1. rest \in Nat /\ rest < count
      BY <1>12
    <3> QED BY <1>3, <1>7, <3>1
  <2> QED BY <1>3, <2>1, <2>2
<1>14. P[n] = T(e - 1) + rest * dur /\ P[n + 1] = T(e - 1) + (rest + 1) * dur
  <2>1. rest \in 0 .. count /\ rest + 1 \in 0 .. count /\ n + 1 = C(e - 1) + (rest + 1)
    BY <1>3, <1>7, <1>12
  <2> QED BY <1>7, <1>8, <2>1
<1>15. P[n] <= at /\ at < P[n + 1] /\ at - P[n] = x % dur
  <2> DEFINE a == rest * dur
             b == (rest + 1) * dur
             c == x % dur
  <2>1. a \in Int /\ b \in Int /\ c \in Int
    BY <1>3, <1>6, <1>11, <1>12
  <2>2. a <= x /\ x < b /\ x - a = c /\ P[n] = T(e - 1) + a /\ P[n + 1] = T(e - 1) + b
    BY <1>12, <1>14
  <2>3. T(e - 1) \in Nat /\ x \in Nat
    BY <1>4, <1>6
  <2> HIDE DEF a, b, c
  <2>4. P[n] <= at /\ at < P[n + 1] /\ at - P[n] = c
    BY <1>9, <2>1, <2>2, <2>3, SMTT(20)
  <2> QED BY <2>4 DEF c
<1>16. RunAt(r, n) = r[e]
  <2>1. w \in Seq(Nat) /\ e \in 1 .. Len(w)
    BY <1>1, <1>2
  <2>2. Sum(w, e - 1) <= n /\ n < Sum(w, e)
    BY <1>13 DEF C
  <2>3. FirstBeyond(w, n) = e
    BY <1>13, <2>1, <2>2, EntryIs
  <2> QED BY <1>10, <2>3
<1> QED BY <1>3, <1>11, <1>13, <1>14, <1>15, <1>16 DEF C, T, dur, count, x

\* Entries that are alike but for the number of items.
Countable(R) ==
  \A x \in R : x.count \in Nat /\ \A c \in Nat : [x EXCEPT !.count = c] \in R
                                                 /\ [x EXCEPT !.count = c].count = c
                 /\ \A a : a = x.count => [x EXCEPT !.count = a] = x

\* Two of them, in all but that number.
Alike(x, y) == \E c : x = [y EXCEPT !.count = c]

\* What two entries share that differ in their counts only.
LEMMA RunsAlike == ASSUME NEW x \in Run, NEW y, Alike(y, x) PROVE y.duration = x.duration
BY DEF Alike, Run

\* For those of ctts as well.
LEMMA OffsetsAlike ==
  ASSUME NEW x \in [count : Nat, offset : Nat], NEW y, Alike(y, x) PROVE y.offset = x.offset
BY DEF Alike

\* The entries of stts can be counted.
LEMMA RunsCountable == Countable(Run)
BY DEF Countable, Run

\* So can those of ctts.
LEMMA OffsetsCountable == Countable([count : Nat, offset : Nat])
BY DEF Countable

\* One in front of what remains of a sequence.
LEMMA InFront ==
  ASSUME NEW R, NEW r \in Seq(R), NEW e \in 1 .. Len(r), NEW x \in R
  PROVE  /\ <<x>> \o SubSeq(r, e + 1, Len(r)) \in Seq(R)
         /\ Len(<<x>> \o SubSeq(r, e + 1, Len(r))) = Len(r) - e + 1
         /\ (<<x>> \o SubSeq(r, e + 1, Len(r)))[1] = x
         /\ \A d \in 2 .. Len(r) - e + 1 :
              (<<x>> \o SubSeq(r, e + 1, Len(r)))[d] = r[e - 1 + d]
<1>1. PICK N \in Nat : N = Len(r)
  OBVIOUS
<1>2. \A k \in 1 .. N : r[k] \in R
  BY <1>1
<1>3. e \in 1 .. N /\ e + 1 \in Int /\ N \in Int /\ N - e \in Nat
  BY <1>1
<1> DEFINE q == SubSeq(r, e + 1, N)
<1>4. q \in Seq(R) /\ Len(q) = N - e /\ \A d \in 1 .. N - e : q[d] = r[e + d]
  <2>1. \A d \in e + 1 .. N : r[d] \in R
    BY <1>2, <1>3
  <2>2. q \in Seq(R) /\ Len(q) = (IF e + 1 <= N THEN N - (e + 1) + 1 ELSE 0)
        /\ \A d \in 1 .. N - (e + 1) + 1 : q[d] = r[e + 1 + d - 1]
    BY <1>3, <2>1, SubSeqProperties
  <2> HIDE DEF q
  <2>3. Len(q) = N - e
    BY <1>3, <2>2
  <2>4. ASSUME NEW d \in 1 .. N - e PROVE q[d] = r[e + d]
    <3>1. d \in 1 .. N - (e + 1) + 1 /\ e + 1 + d - 1 = e + d
      BY <1>3
    <3> QED BY <2>2, <3>1
  <2> QED BY <2>2, <2>3, <2>4
<1> HIDE DEF q
<1>5. PICK one : one = <<x>>
  OBVIOUS
<1>10. one \in Seq(R) /\ Len(one) = 1 /\ one[1] = x
  BY <1>5
<1> DEFINE u == one \o q
<1>6. u \in Seq(R) /\ Len(u) = 1 + (N - e)
      /\ \A d \in 1 .. 1 + (N - e) : u[d] = IF d <= 1 THEN one[d] ELSE q[d - 1]
  <2>1. u \in Seq(R) /\ Len(u) = Len(one) + Len(q)
        /\ \A d \in 1 .. Len(one) + Len(q) : u[d] = IF d <= Len(one) THEN one[d] ELSE q[d - Len(one)]
    BY <1>4, <1>10, ConcatProperties
  <2> HIDE DEF u
  <2>2. Len(one) = 1 /\ Len(q) = N - e
    BY <1>4, <1>10
  <2> QED BY <2>1, <2>2
<1> HIDE DEF u
<1>7. u[1] = x
  <2>1. 1 \in 1 .. 1 + (N - e)
    BY <1>3
  <2> QED BY <1>6, <1>10, <2>1
<1>8. ASSUME NEW d \in 2 .. N - e + 1 PROVE u[d] = r[e - 1 + d]
  <2>1. d \in 1 .. 1 + (N - e) /\ ~ d <= 1 /\ d - 1 \in 1 .. N - e /\ e + (d - 1) = e - 1 + d
    BY <1>3
  <2>2. u[d] = q[d - 1] /\ q[d - 1] = r[e + (d - 1)]
    BY <1>4, <1>6, <2>1
  <2> QED BY <2>1, <2>2
<1>9. Len(u) = N - e + 1
  BY <1>3, <1>6
<1> QED BY <1>1, <1>5, <1>6, <1>7, <1>8, <1>9 DEF u, q

\* One behind what is before it.
LEMMA Behind ==
  ASSUME NEW R, NEW r \in Seq(R), NEW e \in 1 .. Len(r) + 1, NEW x \in R
  PROVE  /\ Append(SubSeq(r, 1, e - 1), x) \in Seq(R)
         /\ Len(Append(SubSeq(r, 1, e - 1), x)) = e
         /\ Append(SubSeq(r, 1, e - 1), x)[e] = x
         /\ \A d \in 1 .. e - 1 : Append(SubSeq(r, 1, e - 1), x)[d] = r[d]
<1>1. PICK N \in Nat : N = Len(r)
  OBVIOUS
<1>2. \A k \in 1 .. N : r[k] \in R
  BY <1>1
<1>3. e \in 1 .. N + 1 /\ 1 \in Int /\ e - 1 \in Int /\ e - 1 \in 0 .. N
  BY <1>1
<1> DEFINE q == SubSeq(r, 1, e - 1)
<1>4. q \in Seq(R) /\ Len(q) = e - 1 /\ \A d \in 1 .. e - 1 : q[d] = r[d]
  <2>1. \A d \in 1 .. e - 1 : r[d] \in R
    BY <1>2, <1>3
  <2>2. q \in Seq(R) /\ Len(q) = (IF 1 <= e - 1 THEN e - 1 - 1 + 1 ELSE 0)
        /\ \A d \in 1 .. e - 1 - 1 + 1 : q[d] = r[1 + d - 1]
    BY <1>3, <2>1, SubSeqProperties
  <2> HIDE DEF q
  <2>3. Len(q) = e - 1
    BY <1>3, <2>2
  <2>4. ASSUME NEW d \in 1 .. e - 1 PROVE q[d] = r[d]
    <3>1. d \in 1 .. e - 1 - 1 + 1 /\ 1 + d - 1 = d
      BY <1>3
    <3> QED BY <2>2, <3>1
  <2> QED BY <2>2, <2>3, <2>4
<1> HIDE DEF q
<1> DEFINE u == Append(q, x)
<1>5. u \in Seq(R) /\ Len(u) = Len(q) + 1 /\ u[Len(q) + 1] = x
      /\ \A d \in 1 .. Len(q) : u[d] = q[d]
  BY <1>4
<1> HIDE DEF u
<1>6. Len(u) = e /\ u[e] = x /\ \A d \in 1 .. e - 1 : u[d] = r[d]
  <2>1. Len(q) + 1 = e
    BY <1>3, <1>4
  <2> QED BY <1>4, <1>5, <2>1
<1> QED BY <1>5, <1>6 DEF u, q

\* The items left when the first n are taken away are the same.
LEMMA LeftRuns ==
  ASSUME NEW R, Countable(R), NEW r \in Seq(R), NEW e \in 1 .. Len(r), NEW n \in Nat,
         Sum(Counts(r), e - 1) <= n, n < Sum(Counts(r), e),
         NEW q, q = LeftCrop(r, e, n - Sum(Counts(r), e - 1))
  PROVE  /\ q \in Seq(R) /\ Len(q) = Len(r) - e + 1
         /\ Total(q) = Total(r) - n
         /\ \A k \in 0 .. Total(r) - n - 1 :
              Alike(RunAt(q, k), RunAt(r, n + k))
<1> DEFINE w == Counts(r)
           rest == n - Sum(w, e - 1)
           x == [r[e] EXCEPT !.count = @ - rest]
           v == Counts(q)
<1>0. \A y \in R : y.count \in Nat /\ \A c \in Nat : [y EXCEPT !.count = c] \in R
                                                    /\ [y EXCEPT !.count = c].count = c
                  /\ \A a : a = y.count => [y EXCEPT !.count = a] = y
  BY DEF Countable
<1>1. /\ Len(r) \in Nat /\ \A d \in 1 .. Len(r) : r[d] \in R
      /\ w \in Seq(Nat) /\ Len(w) = Len(r)
      /\ \A d \in 1 .. Len(r) : w[d] = r[d].count
      /\ Total(r) = Sum(w, Len(w))
  BY <1>0, CountsKnown
<1>2. PICK N \in Nat : N = Len(r)
  BY <1>1
<1>3. Sum(w, e) = Sum(w, e - 1) + r[e].count /\ Sum(w, e - 1) \in Nat /\ Sum(w, e) \in Nat
  <2>1. e \in 1 .. Len(w) /\ e - 1 \in 0 .. Len(w) /\ e \in 0 .. Len(w)
    BY <1>1, <1>2
  <2>2. Sum(w, e) = Sum(w, e - 1) + w[e]
    BY <1>1, <2>1, SeqSum
  <2> QED BY <1>1, <2>1, <2>2, SeqSum
<1>4. r[e] \in R /\ r[e].count \in Nat
  BY <1>0, <1>1
<1>5. rest \in Nat /\ r[e].count - rest \in Nat /\ r[e].count - rest = Sum(w, e) - n
  BY <1>3, <1>4
<1>6. x \in R /\ x.count = Sum(w, e) - n /\ x = [r[e] EXCEPT !.count = r[e].count - rest]
  <2>1. x = [r[e] EXCEPT !.count = r[e].count - rest]
    OBVIOUS
  <2> HIDE DEF x
  <2> QED BY <1>0, <1>4, <1>5, <2>1
<1>7. q = <<x>> \o SubSeq(r, e + 1, Len(r))
  BY DEF LeftCrop
<1> HIDE DEF x
<1>8. q \in Seq(R) /\ Len(q) = N - e + 1 /\ q[1] = x /\ \A d \in 2 .. N - e + 1 : q[d] = r[e - 1 + d]
  <2>1. /\ q \in Seq(R) /\ Len(q) = Len(r) - e + 1 /\ q[1] = x
        /\ \A d \in 2 .. Len(r) - e + 1 : q[d] = r[e - 1 + d]
    <3>1. /\ <<x>> \o SubSeq(r, e + 1, Len(r)) \in Seq(R)
          /\ Len(<<x>> \o SubSeq(r, e + 1, Len(r))) = Len(r) - e + 1
          /\ (<<x>> \o SubSeq(r, e + 1, Len(r)))[1] = x
          /\ \A d \in 2 .. Len(r) - e + 1 :
               (<<x>> \o SubSeq(r, e + 1, Len(r)))[d] = r[e - 1 + d]
      <4>1. x \in R
        BY <1>6
      <4> HIDE DEF w, rest, v
      <4> QED BY <4>1, InFront
    <3> QED BY <1>7, <3>1
  <2> QED BY <1>2, <2>1
<1>9. /\ Len(q) \in Nat /\ v \in Seq(Nat) /\ Len(v) = Len(q)
      /\ \A d \in 1 .. Len(q) : v[d] = q[d].count
      /\ Total(q) = Sum(v, Len(v))
  BY <1>0, <1>8, CountsKnown
<1>10. e \in 1 .. N /\ \A k : RunAt(r, k) = r[FirstBeyond(w, k)] /\ RunAt(q, k) = q[FirstBeyond(v, k)]
  BY <1>2 DEF RunAt
<1>11. Len(w) = N
  BY <1>1, <1>2
<1> HIDE DEF w, v
<1>12. v[1] = Sum(w, e) - n /\ Len(v) = N - e + 1
  <2>1. 1 \in 1 .. Len(q)
    BY <1>8, <1>10
  <2> QED BY <1>6, <1>8, <1>9, <2>1
<1>13. ASSUME NEW d \in 2 .. Len(v) PROVE v[d] = w[e - 1 + d]
  <2>1. d \in 2 .. N - e + 1 /\ d \in 1 .. Len(q) /\ e - 1 + d \in 1 .. N
    BY <1>8, <1>10, <1>12
  <2> QED BY <1>1, <1>2, <1>8, <1>9, <2>1, ZenonT(30)
<1>14. /\ Sum(v, Len(v)) = Sum(w, Len(w)) - n
       /\ \A k \in 0 .. Sum(w, Len(w)) - n - 1 :
            FirstBeyond(v, k) \in 1 .. Len(v) /\ FirstBeyond(w, n + k) = e - 1 + FirstBeyond(v, k)
  <2>1. Sum(w, e - 1) <= n /\ n < Sum(w, e)
    BY DEF w
  <2>2. w \in Seq(Nat) /\ v \in Seq(Nat) /\ e \in 1 .. Len(w) /\ Len(v) = Len(w) - e + 1
    BY <1>1, <1>9, <1>10, <1>11, <1>12
  <2> QED BY <1>12, <1>13, <2>1, <2>2, LeftSums
<1>15. Total(q) = Total(r) - n
  BY <1>1, <1>9, <1>14
<1>16. ASSUME NEW k \in 0 .. Total(r) - n - 1
       PROVE  Alike(RunAt(q, k), RunAt(r, n + k))
  <2>1. PICK f : f = FirstBeyond(v, k)
    OBVIOUS
  <2>2. f \in 1 .. N - e + 1 /\ FirstBeyond(w, n + k) = e - 1 + f
    BY <1>1, <1>12, <1>14, <2>1
  <2>3. RunAt(q, k) = q[f] /\ RunAt(r, n + k) = r[e - 1 + f]
    BY <1>10, <2>1, <2>2
  <2>4. CASE f = 1
    <3>1. e - 1 + f = e
      BY <1>10, <2>4
    <3>2. RunAt(q, k) = x /\ RunAt(r, n + k) = r[e]
      BY <1>8, <2>3, <2>4, <3>1
    <3> QED BY <1>6, <3>2 DEF Alike
  <2>5. CASE f # 1
    <3>1. f \in 2 .. N - e + 1 /\ e - 1 + f \in 1 .. N
      BY <1>10, <2>2, <2>5
    <3>2. RunAt(q, k) = r[e - 1 + f] /\ r[e - 1 + f] \in R
      BY <1>1, <1>2, <1>8, <2>3, <3>1
    <3>3. r[e - 1 + f] = [r[e - 1 + f] EXCEPT !.count = r[e - 1 + f].count]
      BY <1>0, <3>2
    <3> QED BY <2>3, <3>2, <3>3 DEF Alike
  <2> QED BY <2>4, <2>5
<1> QED BY <1>2, <1>8, <1>15, <1>16

\* So are the first n when those behind are taken away.
LEMMA RightRuns ==
  ASSUME NEW R, Countable(R), NEW r \in Seq(R), NEW e \in 1 .. Len(r), NEW n \in Nat,
         Sum(Counts(r), e - 1) <= n, n < Sum(Counts(r), e),
         NEW q, q = RightCrop(r, e, n - Sum(Counts(r), e - 1))
  PROVE  /\ q \in Seq(R) /\ Len(q) = e
         /\ Total(q) = n
         /\ \A k \in 0 .. n - 1 :
              Alike(RunAt(q, k), RunAt(r, k))
<1> DEFINE w == Counts(r)
           rest == n - Sum(w, e - 1)
           x == [r[e] EXCEPT !.count = rest]
           v == Counts(q)
<1>0. \A y \in R : y.count \in Nat /\ \A c \in Nat : [y EXCEPT !.count = c] \in R
                                                    /\ [y EXCEPT !.count = c].count = c
                  /\ \A a : a = y.count => [y EXCEPT !.count = a] = y
  BY DEF Countable
<1>1. /\ Len(r) \in Nat /\ \A d \in 1 .. Len(r) : r[d] \in R
      /\ w \in Seq(Nat) /\ Len(w) = Len(r)
      /\ \A d \in 1 .. Len(r) : w[d] = r[d].count
  BY <1>0, CountsKnown
<1>2. PICK N \in Nat : N = Len(r)
  BY <1>1
<1>3. Sum(w, e - 1) \in Nat
  <2>1. e \in 1 .. Len(w) /\ e - 1 \in 0 .. Len(w)
    BY <1>1, <1>2
  <2> QED BY <1>1, <2>1, SeqSum
<1>4. r[e] \in R
  BY <1>1
<1>5. rest \in Nat
  BY <1>3
<1>6. x \in R /\ x.count = rest
  BY <1>0, <1>4, <1>5
<1>7. q = Append(SubSeq(r, 1, e - 1), x)
  BY DEF RightCrop
<1>17. x = [r[e] EXCEPT !.count = rest]
  OBVIOUS
<1> HIDE DEF x
<1>8. q \in Seq(R) /\ Len(q) = e /\ q[e] = x /\ \A d \in 1 .. e - 1 : q[d] = r[d]
  <2>1. e \in 1 .. Len(r) + 1
    BY <1>1
  <2>2. /\ Append(SubSeq(r, 1, e - 1), x) \in Seq(R)
         /\ Len(Append(SubSeq(r, 1, e - 1), x)) = e
         /\ Append(SubSeq(r, 1, e - 1), x)[e] = x
         /\ \A d \in 1 .. e - 1 : Append(SubSeq(r, 1, e - 1), x)[d] = r[d]
    BY <1>6, <2>1, Behind
  <2> QED BY <1>7, <2>2
<1>9. /\ v \in Seq(Nat) /\ Len(v) = Len(q)
      /\ \A d \in 1 .. Len(q) : v[d] = q[d].count
      /\ Total(q) = Sum(v, Len(v))
  BY <1>0, <1>8, CountsKnown
<1>10. e \in 1 .. N /\ \A k : RunAt(r, k) = r[FirstBeyond(w, k)] /\ RunAt(q, k) = q[FirstBeyond(v, k)]
  BY <1>2 DEF RunAt
<1>11. Len(w) = N /\ rest = n - Sum(w, e - 1)
  BY <1>1, <1>2
<1> HIDE DEF w, v, rest
<1>12. v[e] = n - Sum(w, e - 1) /\ Len(v) = e
  <2>1. e \in 1 .. Len(q)
    BY <1>8, <1>10
  <2> QED BY <1>6, <1>8, <1>9, <1>11, <2>1
<1>13. ASSUME NEW d \in 1 .. e - 1 PROVE v[d] = w[d]
  <2>1. d \in 1 .. Len(q) /\ d \in 1 .. N
    BY <1>8, <1>10
  <2> QED BY <1>1, <1>2, <1>8, <1>9, <2>1
<1>14. /\ Sum(v, Len(v)) = n
       /\ \A k \in 0 .. n - 1 :
            FirstBeyond(v, k) \in 1 .. e /\ FirstBeyond(w, k) = FirstBeyond(v, k)
  <2>1. Sum(w, e - 1) <= n /\ n < Sum(w, e)
    BY DEF w
  <2>2. w \in Seq(Nat) /\ v \in Seq(Nat) /\ e \in 1 .. Len(w)
    BY <1>1, <1>9, <1>10, <1>11
  <2> QED BY <1>12, <1>13, <2>1, <2>2, RightSums
<1>15. Total(q) = n
  BY <1>9, <1>14
<1>16. ASSUME NEW k \in 0 .. n - 1
       PROVE  Alike(RunAt(q, k), RunAt(r, k))
  <2>1. PICK f : f = FirstBeyond(v, k)
    OBVIOUS
  <2>2. f \in 1 .. e /\ FirstBeyond(w, k) = f
    BY <1>14, <2>1
  <2>3. RunAt(q, k) = q[f] /\ RunAt(r, k) = r[f]
    BY <1>10, <2>1, <2>2
  <2>4. CASE f = e
    BY <1>8, <1>17, <2>3, <2>4 DEF Alike
  <2>5. CASE f # e
    <3>1. f \in 1 .. e - 1 /\ f \in 1 .. N
      BY <1>10, <2>2, <2>5
    <3>2. RunAt(q, k) = r[f] /\ r[f] \in R
      BY <1>1, <1>2, <1>8, <2>3, <3>1
    <3>3. r[f] = [r[f] EXCEPT !.count = r[f].count]
      BY <1>0, <3>2
    <3> QED BY <2>3, <3>2, <3>3 DEF Alike
  <2> QED BY <2>4, <2>5
<1> QED BY <1>8, <1>15, <1>16

(* Sequences.                                                              *)

ChunkRun == [chunk : Nat, samples : Nat]

\* The quotient and the rest of samples that are spread over chunks.
LEMMA Divided ==
  ASSUME NEW v \in Nat, NEW d \in Nat \ {0}, NEW c \in Nat, v <= c * d
  PROVE  /\ v \div d \in 0 .. c /\ v % d \in 0 .. d - 1 /\ v = (v \div d) * d + (v % d)
         /\ v % d # 0 => v \div d < c
         /\ v = 0 <=> v \div d = 0 /\ v % d = 0
<1> DEFINE q == v \div d
           r == v % d
<1>1. v = d * q + r /\ r \in 0 .. d - 1 /\ q \in Int
  OBVIOUS
<1>2. q >= 0
  OBVIOUS
<1>3. q * d = d * q /\ q * d \in Int
  BY <1>1
<1> HIDE DEF q, r
<1>4. v = q * d + r
  BY <1>1, <1>3
<1>5. q <= c
  <2> SUFFICES ASSUME c + 1 <= q PROVE FALSE
    BY <1>1
  <2>1. (c + 1) * d <= q * d
    BY <1>1
  <2>2. (c + 1) * d = c * d + d
    OBVIOUS
  <2>3. c * d \in Int
    OBVIOUS
  <2> QED BY <1>1, <1>3, <1>4, <2>1, <2>2, <2>3
<1>6. ASSUME r # 0 PROVE q < c
  <2> SUFFICES ASSUME q = c PROVE FALSE
    BY <1>1, <1>5
  <2>1. q * d = c * d /\ c * d \in Int
    OBVIOUS
  <2> QED BY <1>1, <1>4, <1>6, <2>1
<1>7. v = 0 <=> q = 0 /\ r = 0
  <2>1. ASSUME q = 0 PROVE q * d = 0
    BY <2>1
  <2>2. ASSUME q # 0 PROVE q * d >= d
    <3>1. q >= 1
      BY <1>1, <1>2, <2>2
    <3>2. q * d >= 1 * d
      BY <1>1, <3>1
    <3> QED BY <3>2
  <2>3. CASE q = 0
    BY <1>1, <1>4, <2>1, <2>3
  <2>4. CASE q # 0
    BY <1>1, <1>3, <1>4, <2>2, <2>4
  <2> QED BY <2>3, <2>4
<1> QED BY <1>1, <1>2, <1>4, <1>5, <1>6, <1>7 DEF q, r

\* A function on 1 .. n is a sequence.
LEMMA FunctionSeq ==
  ASSUME NEW n \in Nat, NEW V, NEW f \in [1 .. n -> V] PROVE f \in Seq(V) /\ Len(f) = n
BY LenProperties, SeqDef

\* From an entry on, which begins later and may count fewer samples.
FromEntry(q, e, b, d) == <<[chunk |-> b + 1, samples |-> d]>> \o SubSeq(q, e + 1, Len(q))

FrontOf(q, e, b, d) ==
  [f \in 1 .. Len(q) - e + 1 |-> IF f = 1 THEN [chunk |-> b + 1, samples |-> d] ELSE q[e - 1 + f]]

\* The first entry of what is left.
LEMMA FrontIs ==
  ASSUME NEW q \in Seq(ChunkRun), NEW e \in 1 .. Len(q), NEW b \in Nat, NEW d \in Nat
  PROVE  /\ DOMAIN FromEntry(q, e, b, d) = 1 .. Len(q) - e + 1 /\ 1 \in 1 .. Len(q) - e + 1
         /\ Len(FromEntry(q, e, b, d)) = Len(q) - e + 1
         /\ FromEntry(q, e, b, d) = FrontOf(q, e, b, d)
<1> DEFINE rec == [chunk |-> b + 1, samples |-> d]
           L == Len(q) - e + 1
<1>1. PICK r : r = FromEntry(q, e, b, d)
  OBVIOUS
<1>2. r \in Seq(ChunkRun) /\ Len(r) = L /\ r[1] = rec /\ \A f \in 2 .. L : r[f] = q[e - 1 + f]
  <2>1. PICK a : a = rec
    OBVIOUS
  <2>2. a \in ChunkRun
    BY <2>1 DEF ChunkRun
  <2>3. r = <<a>> \o SubSeq(q, e + 1, Len(q))
    BY <1>1, <2>1 DEF FromEntry
  <2>4. /\ <<a>> \o SubSeq(q, e + 1, Len(q)) \in Seq(ChunkRun)
        /\ Len(<<a>> \o SubSeq(q, e + 1, Len(q))) = Len(q) - e + 1
        /\ (<<a>> \o SubSeq(q, e + 1, Len(q)))[1] = a
        /\ \A f \in 2 .. Len(q) - e + 1 :
             (<<a>> \o SubSeq(q, e + 1, Len(q)))[f] = q[e - 1 + f]
    BY <2>2, InFront
  <2> HIDE DEF rec
  <2> QED BY <2>1, <2>3, <2>4
<1>3. 1 \in 1 .. L
  <2>1. Len(q) \in Nat
    OBVIOUS
  <2> QED BY <2>1
<1> HIDE DEF rec
<1>4. DOMAIN r = 1 .. L /\ r = [f \in 1 .. L |-> r[f]]
  BY <1>2
<1>5. L \in Int
  BY <1>2
<1> HIDE DEF L
<1>6. \A f \in 1 .. L : r[f] = IF f = 1 THEN rec ELSE q[e - 1 + f]
  <2>1. ASSUME NEW f \in 1 .. L, f # 1 PROVE f \in 2 .. L
    BY <1>5, <2>1
  <2> QED BY <1>2, <2>1
<1>7. r = [f \in 1 .. L |-> IF f = 1 THEN rec ELSE q[e - 1 + f]]
  BY <1>4, <1>6
<1>8. r = FrontOf(q, e, b, d)
  BY <1>7 DEF FrontOf, L, rec
<1> QED BY <1>1, <1>2, <1>3, <1>4, <1>8 DEF L

\* As long as what remains.
LEMMA FrontLength ==
  ASSUME NEW q \in Seq(ChunkRun), NEW e \in 1 .. Len(q), NEW b \in Nat, NEW d \in Nat
  PROVE  Len(FromEntry(q, e, b, d)) = Len(q) - e + 1
BY FrontIs

\* It may be changed.
LEMMA FrontSamples ==
  ASSUME NEW q \in Seq(ChunkRun), NEW e \in 1 .. Len(q), NEW b \in Nat, NEW d \in Nat, NEW k \in Nat
  PROVE  [FromEntry(q, e, b, d) EXCEPT ![1].samples = k] = FromEntry(q, e, b, k)
<1> DEFINE L == Len(q) - e + 1
<1>1. PICK r, u : r = FromEntry(q, e, b, d) /\ u = FromEntry(q, e, b, k)
  OBVIOUS
<1>7. DOMAIN r = 1 .. L /\ 1 \in 1 .. L /\ r = FrontOf(q, e, b, d)
  BY <1>1, FrontIs
<1>8. u = FrontOf(q, e, b, k)
  BY <1>1, FrontIs
<1>2. /\ DOMAIN r = 1 .. L /\ 1 \in 1 .. L
      /\ r = [f \in 1 .. L |-> IF f = 1 THEN [chunk |-> b + 1, samples |-> d] ELSE q[e - 1 + f]]
  BY <1>7 DEF FrontOf
<1>3. u = [f \in 1 .. L |-> IF f = 1 THEN [chunk |-> b + 1, samples |-> k] ELSE q[e - 1 + f]]
  BY <1>8 DEF FrontOf
<1> HIDE DEF L
<1>4. [r[1] EXCEPT !.samples = k] = [chunk |-> b + 1, samples |-> k]
  BY <1>2
<1>5. [r EXCEPT ![1] = [r[1] EXCEPT !.samples = k]] = u
  BY <1>2, <1>3, <1>4
<1>6. [r EXCEPT ![1].samples = k] = [r EXCEPT ![1] = [r[1] EXCEPT !.samples = k]]
  OBVIOUS
<1> QED BY <1>1, <1>5, <1>6

OneMore(k) == k + 1

\* So may its chunk.
LEMMA FrontChunk ==
  ASSUME NEW q \in Seq(ChunkRun), NEW e \in 1 .. Len(q), NEW b \in Nat, NEW d \in Nat, NEW k \in Nat
  PROVE  [FromEntry(q, e, b, d) EXCEPT ![1].chunk = OneMore(k)] = FromEntry(q, e, k, d)
<1>9. PICK h : h = k + 1 /\ h = OneMore(k)
  BY DEF OneMore
<1> DEFINE L == Len(q) - e + 1
<1>1. PICK r, u : r = FromEntry(q, e, b, d) /\ u = FromEntry(q, e, k, d)
  OBVIOUS
<1>7. DOMAIN r = 1 .. L /\ 1 \in 1 .. L /\ r = FrontOf(q, e, b, d)
  BY <1>1, <1>9, FrontIs
<1>8. u = FrontOf(q, e, k, d)
  BY <1>1, <1>9, FrontIs
<1>2. /\ DOMAIN r = 1 .. L /\ 1 \in 1 .. L
      /\ r = [f \in 1 .. L |-> IF f = 1 THEN [chunk |-> b + 1, samples |-> d] ELSE q[e - 1 + f]]
  BY <1>7 DEF FrontOf
<1>3. u = [f \in 1 .. L |-> IF f = 1 THEN [chunk |-> k + 1, samples |-> d] ELSE q[e - 1 + f]]
  BY <1>8 DEF FrontOf
<1> HIDE DEF L
<1>4. [r[1] EXCEPT !.chunk = h] = [chunk |-> k + 1, samples |-> d]
  BY <1>2, <1>9
<1>5. [r EXCEPT ![1] = [r[1] EXCEPT !.chunk = h]] = u
  BY <1>2, <1>3, <1>4
<1>6. [r EXCEPT ![1].chunk = h] = [r EXCEPT ![1] = [r[1] EXCEPT !.chunk = h]]
  OBVIOUS
<1> QED BY <1>1, <1>5, <1>6, <1>9

\* At first it is the entry itself.
LEMMA FrontEntry ==
  ASSUME NEW q \in Seq(ChunkRun), NEW e \in 1 .. Len(q), NEW b \in Nat
  PROVE  <<[q[e] EXCEPT !.chunk = b + 1]>> \o SubSeq(q, e + 1, Len(q)) = FromEntry(q, e, b, q[e].samples)
<1>1. [q[e] EXCEPT !.chunk = b + 1] = [chunk |-> b + 1, samples |-> q[e].samples]
  <2>1. q[e] \in ChunkRun
    OBVIOUS
  <2> QED BY <2>1 DEF ChunkRun
<1> QED BY <1>1 DEF FromEntry

\* The first entries of a sequence.
LEMMA CutIs ==
  ASSUME NEW R, NEW q \in Seq(R), NEW l \in 0 .. Len(q)
  PROVE  /\ SubSeq(q, 1, l) \in Seq(R) /\ Len(SubSeq(q, 1, l)) = l
         /\ \A d \in 1 .. l : SubSeq(q, 1, l)[d] = q[d]
<1>1. Len(q) \in Nat /\ l \in Int /\ 1 \in 1 .. Len(q) + 1 /\ l \in 1 - 1 .. Len(q)
  OBVIOUS
<1>2. SubSeq(q, 1, l) \in Seq(R) /\ Len(SubSeq(q, 1, l)) = IF 1 <= l THEN l - 1 + 1 ELSE 0
  BY <1>1, SubSeqProperties
<1>3. \A d \in 1 .. l - 1 + 1 : SubSeq(q, 1, l)[d] = q[1 + d - 1]
  BY <1>1, SubSeqProperties
<1>4. Len(SubSeq(q, 1, l)) = l
  BY <1>1, <1>2
<1>5. ASSUME NEW d \in 1 .. l PROVE SubSeq(q, 1, l)[d] = q[d]
  <2>1. d \in 1 .. l - 1 + 1 /\ 1 + d - 1 = d
    BY <1>1
  <2> QED BY <1>3, <2>1
<1> QED BY <1>2, <1>4, <1>5

\* A part of a sequence.
LEMMA PartOf ==
  ASSUME NEW V, NEW p \in Seq(V), NEW a \in Nat, NEW n \in Nat, a + n <= Len(p)
  PROVE  /\ SubSeq(p, a + 1, a + n) \in Seq(V) /\ Len(SubSeq(p, a + 1, a + n)) = n
         /\ \A c \in 1 .. n : SubSeq(p, a + 1, a + n)[c] = p[a + c]
<1>1. PICK r, b, e, l : r = SubSeq(p, b, e) /\ b = a + 1 /\ e = a + n /\ l = Len(p)
  OBVIOUS
<1>2. l \in Nat /\ b \in 1 .. l + 1 /\ e \in b - 1 .. l /\ e - b + 1 = n /\ b \in Nat /\ e \in Nat
  <2>1. l \in Nat
    BY <1>1
  <2> QED BY <1>1, <2>1
<1>3. \A k \in b .. e : p[k] \in V
  <2>1. \A k \in b .. e : k \in 1 .. Len(p)
    BY <1>1, <1>2
  <2> QED BY <2>1
<1>4. /\ r \in Seq(V) /\ Len(r) = (IF b <= e THEN e - b + 1 ELSE 0)
      /\ \A k \in 1 .. e - b + 1 : r[k] = p[b + k - 1]
  <2>1. b \in Int /\ e \in Int
    BY <1>2
  <2> QED BY <1>1, <1>3, <2>1, SubSeqProperties
<1>5. b <= e => Len(r) = n
  BY <1>2, <1>4
<1>6. ~ b <= e => n = 0
  BY <1>1, <1>2
<1>7. Len(r) = n
  BY <1>4, <1>5, <1>6
<1>8. \A k \in 1 .. n : b + k - 1 = a + k
  BY <1>1, <1>2
<1> QED BY <1>1, <1>2, <1>4, <1>7, <1>8

\* The lesser of two, and the greatest of three.
LEMMA Lesser ==
  ASSUME NEW a \in Nat, NEW b \in Nat
  PROVE  Min({a, b}) \in Nat /\ Min({a, b}) <= b
<1>1. PICK m \in {a, b} : \A n \in {a, b} : m <= n
  <2>1. CASE a <= b
    <3>1. \A n \in {a, b} : a <= n
      BY <2>1
    <3> QED BY <3>1
  <2>2. CASE b <= a
    <3>1. \A n \in {a, b} : b <= n
      BY <2>2
    <3> QED BY <3>1
  <2> QED BY <2>1, <2>2
<1>2. {a, b} \subseteq Nat
  OBVIOUS
<1>3. Min({a, b}) = m
  BY <1>1, <1>2, MinIs
<1> QED BY <1>1, <1>2, <1>3

\* The greatest of three is none of them less.
LEMMA Greatest ==
  ASSUME NEW a \in Nat, NEW b \in Nat, NEW c \in Nat
  PROVE  Max({a, b, c}) \in Nat /\ c <= Max({a, b, c})
<1>1. PICK m \in {a, b, c} : \A n \in {a, b, c} : n <= m
  <2>1. CASE a >= b /\ a >= c
    <3>1. \A n \in {a, b, c} : n <= a
      BY <2>1
    <3> QED BY <3>1
  <2>2. CASE b >= a /\ b >= c
    <3>1. \A n \in {a, b, c} : n <= b
      BY <2>2
    <3> QED BY <3>1
  <2>3. CASE c >= a /\ c >= b
    <3>1. \A n \in {a, b, c} : n <= c
      BY <2>3
    <3> QED BY <3>1
  <2> QED BY <2>1, <2>2, <2>3
<1>2. {a, b, c} \subseteq Nat
  OBVIOUS
<1>3. Max({a, b, c}) = m
  BY <1>1, <1>2, MaxIs
<1> QED BY <1>1, <1>2, <1>3
=============================================================================
