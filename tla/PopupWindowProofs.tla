--------------------------- MODULE PopupWindowProofs ----------------------------
(***************************************************************************)
(* Proofs about PopupWindow, for every history and every limit.  The list  *)
(* on the screen is made twice, once by ORDER BY pinned and LIMIT and once *)
(* by the sections of the window; that both agree rests on what taking     *)
(* some positions of a sequence yields (the first part).  The invariant    *)
(* joins it to the selection, and adds the reason why no change of this    *)
(* process is lost between two rebuilds.                                   *)
(***************************************************************************)
EXTENDS PopupWindow, FiniteSetTheorems, TLAPS

(* Some positions of a sequence, in their order *)

\* how many of the positions are up to i, and which one is the n-th
Rank(positions, i) == Cardinality({j \in positions : j <= i})
Nth(positions, n) == CHOOSE i \in positions : Rank(positions, i) = n

\* A set of numbers that is not empty has a least one.
LEMMA LeastNumber ==
    ASSUME NEW T \in SUBSET Nat, T # {}
    PROVE  \E n \in T : \A m \in T : n <= m
<1> DEFINE R == {pair \in Nat \X Nat : pair[1] < pair[2]}
<1>1. IsWellFoundedOn(R, Nat)
  BY NatLessThanWellFounded DEF OpToRel
<1>2. PICK n \in T : \A m \in T : ~(<<m, n>> \in R)
  <2> HIDE DEF R
  <2> QED
    BY <1>1, WFMin
<1>3. ASSUME NEW m \in T PROVE n <= m
  <2>1. m \in Nat /\ n \in Nat
    OBVIOUS
  <2>2. ~(m < n)
    BY <1>2, <2>1
  <2> QED
    BY <2>1, <2>2
<1> QED
  BY <1>3

\* The rank grows by one at each position and stays elsewhere.
LEMMA RankSteps ==
    ASSUME NEW m \in Nat, NEW P \in SUBSET (1 .. m)
    PROVE  /\ IsFiniteSet(P) /\ Cardinality(P) \in Nat
           /\ Rank(P, 0) = 0 /\ Rank(P, m) = Cardinality(P)
           /\ \A i \in Nat : Rank(P, i) \in Nat
           /\ \A i \in Nat : i + 1 \in P => Rank(P, i + 1) = Rank(P, i) + 1
           /\ \A i \in Nat : i + 1 \notin P => Rank(P, i + 1) = Rank(P, i)
<1>0. \A j \in P : j \in Nat /\ 1 <= j /\ j <= m
  OBVIOUS
<1>1. IsFiniteSet(P) /\ P \subseteq Nat
  <2>1. IsFiniteSet(1 .. m)
    BY FS_Interval
  <2>2. IsFiniteSet(P)
    BY <2>1, FS_Subset
  <2> QED
    BY <1>0, <2>2
<1>2. \A i \in Nat : IsFiniteSet({j \in P : j <= i})
  BY <1>1, FS_Subset
<1>3. Cardinality(P) \in Nat /\ \A i \in Nat : Rank(P, i) \in Nat
  BY <1>1, <1>2, FS_CardinalityType DEF Rank
<1>4. Rank(P, 0) = 0
  <2>1. {j \in P : j <= 0} = {}
    <3>1. \A j \in P : ~(j <= 0)
      BY <1>0
    <3> QED
      BY <3>1
  <2> QED
    BY <2>1, FS_EmptySet DEF Rank
<1>5. Rank(P, m) = Cardinality(P)
  <2>1. {j \in P : j <= m} = P
    BY <1>0
  <2> QED
    BY <2>1 DEF Rank
<1>6. ASSUME NEW i \in Nat, i + 1 \in P PROVE Rank(P, i + 1) = Rank(P, i) + 1
  <2> DEFINE T == {j \in P : j <= i}
  <2>1. {j \in P : j <= i + 1} = T \cup {i + 1} /\ i + 1 \notin T
    <3>1. \A j \in P : j <= i + 1 <=> j <= i \/ j = i + 1
      BY <1>0
    <3>2. i + 1 \notin T
      OBVIOUS
    <3>3. \A j : j \in {k \in P : k <= i + 1} <=> j \in T \cup {i + 1}
      BY <1>6, <3>1
    <3> HIDE DEF T
    <3> QED
      BY <3>2, <3>3
  <2>2. IsFiniteSet(T)
    BY <1>2
  <2> HIDE DEF T
  <2>3. Cardinality(T \cup {i + 1}) = Cardinality(T) + 1
    BY <2>1, <2>2, FS_AddElement
  <2> QED
    BY <2>1, <2>3 DEF Rank, T
<1>7. ASSUME NEW i \in Nat, i + 1 \notin P PROVE Rank(P, i + 1) = Rank(P, i)
  <2>1. {j \in P : j <= i + 1} = {j \in P : j <= i}
    <3>1. \A j \in P : j <= i + 1 <=> j <= i
      BY <1>0, <1>7
    <3> QED
      BY <3>1
  <2> QED
    BY <2>1 DEF Rank
<1> QED
  BY <1>1, <1>3, <1>4, <1>5, <1>6, <1>7

\* Of two positions the later one has the higher rank.
LEMMA RankGrows ==
    ASSUME NEW m \in Nat, NEW P \in SUBSET (1 .. m), NEW i \in P, NEW j \in P, i < j
    PROVE  Rank(P, i) < Rank(P, j)
<1> DEFINE low == {k \in P : k <= i}
           high == {k \in P : k <= j}
<1>1. P \subseteq Nat /\ IsFiniteSet(high)
  BY RankSteps, FS_Subset
<1>2. low \subseteq high /\ j \in high /\ j \notin low
  <2>1. \A k \in P : k \in Nat
    BY <1>1
  <2>2. j <= j /\ ~(j <= i) /\ \A k \in P : k <= i => k <= j
    BY <2>1
  <2> QED
    BY <2>2
<1>3. low # high /\ IsFiniteSet(low)
  BY <1>1, <1>2, FS_Subset
<1> HIDE DEF low, high
<1>4. Cardinality(low) <= Cardinality(high) /\ Cardinality(low) # Cardinality(high)
  BY <1>1, <1>2, <1>3, FS_Subset
<1>5. Cardinality(low) \in Nat /\ Cardinality(high) \in Nat
  BY <1>1, <1>3, FS_CardinalityType
<1>6. Cardinality(low) < Cardinality(high)
  BY <1>4, <1>5
<1> QED
  BY <1>6 DEF Rank, low, high

\* There is an n-th position for every n up to their number: the first place with that rank.
LEMMA NthIsThere ==
    ASSUME NEW m \in Nat, NEW P \in SUBSET (1 .. m), NEW n \in 1 .. Cardinality(P)
    PROVE  Nth(P, n) \in P /\ Rank(P, Nth(P, n)) = n
<1>1. /\ Cardinality(P) \in Nat /\ Rank(P, 0) = 0 /\ Rank(P, m) = Cardinality(P)
      /\ \A i \in Nat : Rank(P, i) \in Nat
  BY RankSteps
<1> DEFINE T == {i \in Nat : Rank(P, i) >= n}
<1>2. m \in T
  BY <1>1
<1>3. PICK i \in T : \A k \in T : i <= k
  <2> HIDE DEF T
  <2>1. T \in SUBSET Nat /\ T # {}
    BY <1>2 DEF T
  <2> QED
    BY <2>1, LeastNumber
<1>4. i \in Nat /\ i # 0 /\ Rank(P, i) >= n
  BY <1>1
<1>5. i - 1 \in Nat /\ i - 1 \notin T /\ (i - 1) + 1 = i
  BY <1>3, <1>4
<1>6. Rank(P, i - 1) < n /\ Rank(P, i - 1) \in Nat
  BY <1>1, <1>5
<1>7. i \in P => Rank(P, i) = Rank(P, i - 1) + 1
  BY <1>5, RankSteps
<1>8. i \notin P => Rank(P, i) = Rank(P, i - 1)
  BY <1>5, RankSteps
<1>9. i \in P /\ Rank(P, i) = n
  BY <1>1, <1>4, <1>6, <1>7, <1>8
<1> QED
  BY <1>9 DEF Nth

\* The n-th positions are all of them, in their order.
LEMMA NthInOrder ==
    ASSUME NEW m \in Nat, NEW P \in SUBSET (1 .. m)
    PROVE  /\ \A n, k \in 1 .. Cardinality(P) : n < k => Nth(P, n) < Nth(P, k)
           /\ \A i \in P : Rank(P, i) \in 1 .. Cardinality(P) /\ Nth(P, Rank(P, i)) = i
<1>1. Cardinality(P) \in Nat /\ IsFiniteSet(P) /\ P \subseteq Nat
  BY RankSteps
<1>2. ASSUME NEW n \in 1 .. Cardinality(P), NEW k \in 1 .. Cardinality(P), n < k
      PROVE  Nth(P, n) < Nth(P, k)
  <2>1. /\ Nth(P, n) \in P /\ Rank(P, Nth(P, n)) = n
        /\ Nth(P, k) \in P /\ Rank(P, Nth(P, k)) = k
    BY NthIsThere
  <2>2. Nth(P, k) < Nth(P, n) => k < n
    BY <2>1, RankGrows
  <2>3. Nth(P, k) # Nth(P, n)
    BY <1>2, <2>1
  <2>4. Nth(P, n) \in Nat /\ Nth(P, k) \in Nat /\ n \in Nat /\ k \in Nat
    <3>1. \A i \in P : i \in Nat
      BY <1>1
    <3>2. n \in Nat /\ k \in Nat
      BY <1>1
    <3> QED
      BY <2>1, <3>1, <3>2
  <2> QED
    BY <1>2, <2>2, <2>3, <2>4
<1>3. ASSUME NEW i \in P PROVE Rank(P, i) \in 1 .. Cardinality(P) /\ Nth(P, Rank(P, i)) = i
  <2> DEFINE low == {k \in P : k <= i}
  <2>1. IsFiniteSet(low) /\ Cardinality(low) <= Cardinality(P) /\ i \in low
    BY <1>1, FS_Subset
  <2>2. Cardinality(low) \in Nat /\ Cardinality(low) # 0
    BY <2>1, FS_CardinalityType, FS_EmptySet
  <2>3. Rank(P, i) \in 1 .. Cardinality(P)
    <3> HIDE DEF low
    <3>1. Cardinality(low) \in 1 .. Cardinality(P)
      BY <1>1, <2>1, <2>2
    <3> QED
      BY <3>1 DEF Rank, low
  <2>4. Nth(P, Rank(P, i)) \in P /\ Rank(P, Nth(P, Rank(P, i))) = Rank(P, i)
    BY <2>3, NthIsThere
  <2>5. /\ Nth(P, Rank(P, i)) < i => Rank(P, Nth(P, Rank(P, i))) < Rank(P, i)
        /\ i < Nth(P, Rank(P, i)) => Rank(P, i) < Rank(P, Nth(P, Rank(P, i)))
    BY <2>4, RankGrows
  <2>6. Rank(P, i) \in Nat /\ i \in Nat /\ Nth(P, Rank(P, i)) \in Nat
    <3>1. \A j \in P : j \in Nat
      BY <1>1
    <3>2. Rank(P, i) \in Nat
      BY <1>1, <2>3
    <3> QED
      BY <2>4, <3>1, <3>2
  <2> QED
    BY <2>3, <2>4, <2>5, <2>6
<1> QED
  BY <1>2, <1>3

\* What taking some positions of a sequence yields.
LEMMA KeptElements ==
    ASSUME NEW S, NEW s \in Seq(S), NEW P \in SUBSET DOMAIN s
    PROVE  /\ Kept(s, P) \in Seq(S) /\ Len(Kept(s, P)) = Cardinality(P)
           /\ Cardinality(P) \in Nat
           /\ DOMAIN Kept(s, P) = 1 .. Cardinality(P)
           /\ \A n \in 1 .. Cardinality(P) : Nth(P, n) \in P /\ Kept(s, P)[n] = s[Nth(P, n)]
           /\ \A n, k \in 1 .. Cardinality(P) : n < k => Nth(P, n) < Nth(P, k)
<1>1. Len(s) \in Nat /\ P \in SUBSET (1 .. Len(s))
  OBVIOUS
<1>2. Cardinality(P) \in Nat
  BY <1>1, RankSteps
<1>3. Kept(s, P) = [n \in 1 .. Cardinality(P) |-> s[Nth(P, n)]]
  BY DEF Kept, Nth, Rank
<1>4. \A n \in 1 .. Cardinality(P) : Nth(P, n) \in P /\ s[Nth(P, n)] \in S
  <2>1. \A n \in 1 .. Cardinality(P) : Nth(P, n) \in P
    BY <1>1, NthIsThere
  <2>2. \A i \in P : s[i] \in S
    BY <1>1
  <2> QED
    BY <2>1, <2>2
<1>5. Kept(s, P) \in Seq(S) /\ Len(Kept(s, P)) = Cardinality(P)
  BY <1>2, <1>3, <1>4
<1> QED
  BY <1>1, <1>2, <1>3, <1>4, <1>5, NthInOrder

\* The first p positions, and those from p + 1 to m, one after the other.
LEMMA NthOfInterval ==
    ASSUME NEW p \in Nat, NEW m \in Nat
    PROVE  /\ \A n \in 1 .. p : Nth(1 .. p, n) = n
           /\ \A n \in 1 .. m - p : Nth(p + 1 .. m, n) = p + n
<1>1. ASSUME NEW a \in Nat, NEW b \in Nat, NEW n \in 1 .. b - a
      PROVE  Nth(a + 1 .. b, n) = a + n
  <2> DEFINE P == a + 1 .. b
  <2>1. Cardinality(P) = b - a
    <3>1. Cardinality(P) = IF a + 1 > b THEN 0 ELSE b - (a + 1) + 1
      BY FS_Interval
    <3> QED
      BY <3>1
  <2>2. P \in SUBSET (1 .. b) /\ a + n \in P /\ a + n \in Int /\ a + 1 \in Int
    OBVIOUS
  <2>3. Rank(P, a + n) = n
    <3>1. {j \in P : j <= a + n} = a + 1 .. a + n
      OBVIOUS
    <3>2. Cardinality(a + 1 .. a + n) = IF a + 1 > a + n THEN 0 ELSE (a + n) - (a + 1) + 1
      BY <2>2, FS_Interval
    <3>3. Cardinality(a + 1 .. a + n) = n
      BY <3>2
    <3> QED
      BY <3>1, <3>3 DEF Rank
  <2> HIDE DEF P
  <2>4. Nth(P, Rank(P, a + n)) = a + n
    BY <2>2, NthInOrder
  <2> QED
    BY <2>3, <2>4 DEF P
<1>2. ASSUME NEW n \in 1 .. p PROVE Nth(1 .. p, n) = n
  <2>1. Nth(0 + 1 .. p, n) = 0 + n
    <3>1. n \in 1 .. p - 0
      OBVIOUS
    <3> QED
      BY <1>1, <3>1
  <2>2. 0 + 1 = 1 /\ 0 + n = n
    OBVIOUS
  <2> QED
    BY <2>1, <2>2
<1> QED
  BY <1>1, <1>2

--------------------------------------------------------------------------------
(* What the window makes of a list *)

\* the pinned items come first
Sectioned(list) ==
    \E p \in 0 .. Len(list) : \A i \in DOMAIN list : list[i].pinned <=> i <= p

\* ORDER BY pinned DESC makes two sections.
LEMMA PinnedFirstSections ==
    ASSUME NEW s \in Seq(Items), NEW P \in SUBSET DOMAIN s
    PROVE  PinnedFirst(s, P) \in Seq(Items) /\ Sectioned(PinnedFirst(s, P))
<1> DEFINE pins == Kept(s, P \cap PinnedAt(s))
           rest == Kept(s, P \ PinnedAt(s))
<1>1. /\ pins \in Seq(Items) /\ Len(pins) \in Nat /\ DOMAIN pins = 1 .. Len(pins)
      /\ \A i \in DOMAIN pins : pins[i].pinned
  <2> DEFINE Q == P \cap PinnedAt(s)
  <2>1. Q \in SUBSET DOMAIN s /\ \A i \in Q : s[i].pinned
    BY DEF PinnedAt
  <2> HIDE DEF Q
  <2>2. /\ Kept(s, Q) \in Seq(Items) /\ Len(Kept(s, Q)) = Cardinality(Q) /\ Cardinality(Q) \in Nat
        /\ DOMAIN Kept(s, Q) = 1 .. Cardinality(Q)
        /\ \A n \in 1 .. Cardinality(Q) : Nth(Q, n) \in Q /\ Kept(s, Q)[n] = s[Nth(Q, n)]
    BY <2>1, KeptElements
  <2> QED
    BY <2>1, <2>2 DEF Q
<1>2. /\ rest \in Seq(Items) /\ Len(rest) \in Nat /\ DOMAIN rest = 1 .. Len(rest)
      /\ \A i \in DOMAIN rest : ~rest[i].pinned
  <2> DEFINE Q == P \ PinnedAt(s)
  <2>1. Q \in SUBSET DOMAIN s /\ \A i \in Q : ~s[i].pinned
    BY DEF PinnedAt
  <2> HIDE DEF Q
  <2>2. /\ Kept(s, Q) \in Seq(Items) /\ Len(Kept(s, Q)) = Cardinality(Q) /\ Cardinality(Q) \in Nat
        /\ DOMAIN Kept(s, Q) = 1 .. Cardinality(Q)
        /\ \A n \in 1 .. Cardinality(Q) : Nth(Q, n) \in Q /\ Kept(s, Q)[n] = s[Nth(Q, n)]
    BY <2>1, KeptElements
  <2> QED
    BY <2>1, <2>2 DEF Q
<1> HIDE DEF pins, rest
<1>3. /\ pins \o rest \in Seq(Items) /\ Len(pins \o rest) = Len(pins) + Len(rest)
      /\ DOMAIN (pins \o rest) = 1 .. Len(pins) + Len(rest)
      /\ \A i \in 1 .. Len(pins) + Len(rest) :
            (pins \o rest)[i] = IF i <= Len(pins) THEN pins[i] ELSE rest[i - Len(pins)]
  BY <1>1, <1>2
<1>4. ASSUME NEW i \in 1 .. Len(pins) + Len(rest)
      PROVE  (pins \o rest)[i].pinned <=> i <= Len(pins)
  <2>1. CASE i <= Len(pins)
    BY <1>1, <1>3, <2>1
  <2>2. CASE ~(i <= Len(pins))
    <3>1. i - Len(pins) \in DOMAIN rest
      BY <1>1, <1>2, <2>2
    <3> QED
      BY <1>2, <1>3, <2>2, <3>1
  <2> QED
    BY <2>1, <2>2
<1>5. Len(pins) \in 0 .. Len(pins \o rest)
  BY <1>1, <1>2, <1>3
<1>6. Sectioned(pins \o rest)
  BY <1>3, <1>4, <1>5 DEF Sectioned
<1> QED
  BY <1>3, <1>6 DEF PinnedFirst, pins, rest

\* A list of two sections is what the window's two sections make of it.
LEMMA SectionsAreTheList ==
    ASSUME NEW list \in Seq(Items), Sectioned(list)
    PROVE  PinnedFirst(list, DOMAIN list) = list
<1> DEFINE m == Len(list)
<1>0. m \in Nat /\ DOMAIN list = 1 .. m
  OBVIOUS
<1> HIDE DEF m
<1>1. PICK p \in 0 .. m : \A i \in 1 .. m : list[i].pinned <=> i <= p
  BY <1>0 DEF Sectioned, m
<1>2. p \in Nat /\ p <= m
  BY <1>0
<1>3. DOMAIN list \cap PinnedAt(list) = 1 .. p
  <2>1. \A i : i \in DOMAIN list \cap PinnedAt(list) <=> i \in 1 .. p
    BY <1>0, <1>1, <1>2 DEF PinnedAt
  <2> QED
    BY <2>1
<1>4. DOMAIN list \ PinnedAt(list) = p + 1 .. m
  <2>1. \A i : i \in DOMAIN list \ PinnedAt(list) <=> i \in p + 1 .. m
    BY <1>0, <1>1, <1>2 DEF PinnedAt
  <2> QED
    BY <2>1
<1> DEFINE pins == Kept(list, 1 .. p)
           rest == Kept(list, p + 1 .. m)
<1>5. Cardinality(1 .. p) = p /\ Cardinality(p + 1 .. m) = m - p
  <2>1. Cardinality(1 .. p) = IF 1 > p THEN 0 ELSE p - 1 + 1
    BY <1>2, FS_Interval
  <2>2. Cardinality(p + 1 .. m) = IF p + 1 > m THEN 0 ELSE m - (p + 1) + 1
    BY <1>0, <1>2, FS_Interval
  <2> QED
    BY <1>0, <1>2, <2>1, <2>2
<1>6. pins \in Seq(Items) /\ Len(pins) = p /\ \A n \in 1 .. p : pins[n] = list[n]
  <2>1. 1 .. p \in SUBSET DOMAIN list
    BY <1>3
  <2>2. /\ pins \in Seq(Items) /\ Len(pins) = Cardinality(1 .. p)
        /\ \A n \in 1 .. Cardinality(1 .. p) : pins[n] = list[Nth(1 .. p, n)]
    BY <2>1, KeptElements
  <2> QED
    BY <1>0, <1>2, <1>5, <2>2, NthOfInterval
<1>7. rest \in Seq(Items) /\ Len(rest) = m - p /\ \A n \in 1 .. m - p : rest[n] = list[p + n]
  <2>1. p + 1 .. m \in SUBSET DOMAIN list
    BY <1>4
  <2>2. /\ rest \in Seq(Items) /\ Len(rest) = Cardinality(p + 1 .. m)
        /\ \A n \in 1 .. Cardinality(p + 1 .. m) : rest[n] = list[Nth(p + 1 .. m, n)]
    BY <2>1, KeptElements
  <2> QED
    BY <1>0, <1>2, <1>5, <2>2, NthOfInterval
<1> HIDE DEF pins, rest
<1>8. /\ pins \o rest \in Seq(Items) /\ Len(pins \o rest) = m
      /\ \A i \in 1 .. m : (pins \o rest)[i] = IF i <= p THEN pins[i] ELSE rest[i - p]
  BY <1>0, <1>2, <1>6, <1>7
<1>9. ASSUME NEW i \in 1 .. m PROVE (pins \o rest)[i] = list[i]
  <2>1. CASE i <= p
    BY <1>2, <1>6, <1>8, <2>1
  <2>2. CASE ~(i <= p)
    <3>1. i - p \in 1 .. m - p /\ p + (i - p) = i
      BY <1>0, <1>2, <2>2
    <3> QED
      BY <1>7, <1>8, <2>2, <3>1
  <2> QED
    BY <2>1, <2>2
<1>10. pins \o rest = list
  <2> DEFINE both == pins \o rest
  <2>1. both = [i \in 1 .. m |-> both[i]]
    <3>1. both \in Seq(Items) /\ Len(both) = m
      BY <1>8
    <3> HIDE DEF both
    <3> QED
      BY <3>1
  <2>2. list = [i \in 1 .. m |-> list[i]]
    BY <1>0
  <2>3. \A i \in 1 .. m : both[i] = list[i]
    BY <1>9
  <2> HIDE DEF both
  <2>4. [i \in 1 .. m |-> both[i]] = [i \in 1 .. m |-> list[i]]
    BY <2>3
  <2> QED
    BY <2>1, <2>2, <2>4 DEF both
<1> QED
  BY <1>3, <1>4, <1>10 DEF PinnedFirst, pins, rest

\* Whatever the history, the limit and the search, the cards are the items that were listed.
LEMMA CardsAreTheList ==
    ASSUME NEW h \in Seq(Items), NEW t
    PROVE  /\ Listing(h, t) \in Seq(Items)
           /\ Cards(Listing(h, t), t) = Listing(h, t)
<1> DEFINE all == PinnedFirst(h, Hits(h, t))
           n == IF Len(all) < ListLimit THEN Len(all) ELSE ListLimit
<1>1. all \in Seq(Items) /\ Sectioned(all)
  <2>1. Hits(h, t) \in SUBSET DOMAIN h
    BY DEF Hits
  <2> QED
    BY <2>1, PinnedFirstSections
<1>2. Listing(h, t) = SubSeq(all, 1, n)
  BY DEF Listing, Limited
<1> HIDE DEF all
<1>3. ListLimit \in Nat /\ Len(all) \in Nat
  BY <1>1, PopupAssumption DEF PopupAssumption
<1>4. n \in 0 .. Len(all)
  BY <1>3
<1> HIDE DEF n
<1> DEFINE list == SubSeq(all, 1, n)
<1>5. list \in Seq(Items) /\ Len(list) = n /\ \A i \in 1 .. n : list[i] = all[i]
  BY <1>1, <1>3, <1>4
<1>6. Sectioned(list)
  <2>1. PICK p \in 0 .. Len(all) : \A i \in DOMAIN all : all[i].pinned <=> i <= p
    BY <1>1 DEF Sectioned
  <2>2. DOMAIN all = 1 .. Len(all) /\ DOMAIN list = 1 .. n
    BY <1>1, <1>5
  <2> HIDE DEF list
  <2>3. CASE p <= n
    <3>1. p \in 0 .. Len(list) /\ \A i \in DOMAIN list : list[i].pinned <=> i <= p
      BY <1>3, <1>4, <1>5, <2>1, <2>2, <2>3
    <3> QED
      BY <3>1 DEF Sectioned
  <2>4. CASE n < p
    <3>1. n \in 0 .. Len(list) /\ \A i \in DOMAIN list : list[i].pinned <=> i <= n
      BY <1>3, <1>4, <1>5, <2>1, <2>2, <2>4
    <3> QED
      BY <3>1 DEF Sectioned
  <2> QED
    BY <1>3, <1>4, <2>3, <2>4
<1> HIDE DEF list
<1>7. PinnedFirst(list, DOMAIN list) = list
  BY <1>5, <1>6, SectionsAreTheList
<1>8. Listing(h, t) = list
  BY <1>2 DEF list
<1> QED
  BY <1>5, <1>7, <1>8 DEF Cards


--------------------------------------------------------------------------------
(* The invariant *)

\* the rows of the table: each id once, and none that is still to be given
Table(h, next) ==
    /\ h \in Seq(Items)
    /\ \A i, j \in DOMAIN h : h[i].id = h[j].id => i = j
    /\ \A i \in DOMAIN h : h[i].id < next

TableInv == nextId \in Nat \ {0} /\ Table(history, nextId)

ViewInv ==
    /\ items \in Seq(Items) /\ rows \in Seq(Items)
    /\ selected \in 0..(IF items = <<>> THEN 0 ELSE Len(items) - 1)
    /\ highlight \in 0..Len(rows)
    /\ RowsAreItems

FlagTypes ==
    /\ text \in Texts /\ shownFor \in Texts
    /\ queued \in 0..MaxQueued
    /\ visible \in BOOLEAN /\ typed \in BOOLEAN /\ pending \in BOOLEAN /\ dirty \in BOOLEAN
    /\ broken \in BOOLEAN /\ windowKeep \in BOOLEAN /\ storeKeep \in BOOLEAN /\ shared \in BOOLEAN
    /\ dialog \in [open : BOOLEAN, keep : BOOLEAN]

IInv == TableInv /\ ViewInv /\ FlagTypes /\ NoLostRefresh

LEMMA Parts == TypeOK /\ RowsAreItems /\ NoLostRefresh <=> IInv
  BY DEF TypeOK, IInv, TableInv, Table, ViewInv, FlagTypes

\* Rows that are taken from a table are a table.
LEMMA KeptTable ==
    ASSUME NEW h, NEW next, Table(h, next), NEW P \in SUBSET DOMAIN h
    PROVE  Table(Kept(h, P), next)
<1>1. h \in Seq(Items)
  BY DEF Table
<1>2. /\ Kept(h, P) \in Seq(Items) /\ DOMAIN Kept(h, P) = 1 .. Cardinality(P)
      /\ \A n \in 1 .. Cardinality(P) : Nth(P, n) \in P /\ Kept(h, P)[n] = h[Nth(P, n)]
      /\ \A n, k \in 1 .. Cardinality(P) : n < k => Nth(P, n) < Nth(P, k)
      /\ Cardinality(P) \in Nat
  BY <1>1, KeptElements
<1>3. \A n \in 1 .. Cardinality(P) : Nth(P, n) \in Nat
  BY <1>1, <1>2
<1>4. ASSUME NEW n \in 1 .. Cardinality(P), NEW k \in 1 .. Cardinality(P),
             Kept(h, P)[n].id = Kept(h, P)[k].id
      PROVE  n = k
  <2>1. Nth(P, n) = Nth(P, k)
    BY <1>2, <1>4 DEF Table
  <2>2. ~(n < k) /\ ~(k < n)
    BY <1>2, <1>3, <2>1
  <2> QED
    BY <1>2, <2>2
<1>5. \A n \in 1 .. Cardinality(P) : Kept(h, P)[n].id < next
  BY <1>2 DEF Table
<1> QED
  BY <1>2, <1>4, <1>5 DEF Table

\* A table with another row in front.
LEMMA FrontTable ==
    ASSUME NEW h, NEW next, Table(h, next), NEW x \in Items, x.id < next,
           \A i \in DOMAIN h : h[i].id # x.id
    PROVE  Table(<<x>> \o h, next)
<1> DEFINE l == <<x>> \o h
<1>1. /\ h \in Seq(Items) /\ Len(h) \in Nat /\ DOMAIN h = 1 .. Len(h)
      /\ l \in Seq(Items) /\ DOMAIN l = 1 .. Len(h) + 1
      /\ l[1] = x /\ \A i \in 2 .. Len(h) + 1 : l[i] = h[i - 1]
  BY DEF Table
<1> HIDE DEF l
<1>2. \A i \in 2 .. Len(h) + 1 : i - 1 \in DOMAIN h
  BY <1>1
<1>3. ASSUME NEW i \in 1 .. Len(h) + 1 PROVE l[i].id < next
  <2>1. CASE i = 1
    BY <1>1, <2>1
  <2>2. CASE i # 1
    <3>1. i \in 2 .. Len(h) + 1
      BY <1>1, <2>2
    <3> QED
      BY <1>1, <1>2, <3>1 DEF Table
  <2> QED
    BY <2>1, <2>2
<1>4. ASSUME NEW i \in 1 .. Len(h) + 1, NEW j \in 1 .. Len(h) + 1, l[i].id = l[j].id
      PROVE  i = j
  <2>1. CASE i = 1 /\ j = 1
    BY <2>1
  <2>2. CASE i = 1 /\ j # 1
    <3>1. j \in 2 .. Len(h) + 1
      BY <1>1, <2>2
    <3> QED
      BY <1>1, <1>2, <1>4, <2>2, <3>1
  <2>3. CASE i # 1 /\ j = 1
    <3>1. i \in 2 .. Len(h) + 1
      BY <1>1, <2>3
    <3> QED
      BY <1>1, <1>2, <1>4, <2>3, <3>1
  <2>4. CASE i # 1 /\ j # 1
    <3>1. i \in 2 .. Len(h) + 1 /\ j \in 2 .. Len(h) + 1
      BY <1>1, <2>4
    <3>2. i - 1 = j - 1
      BY <1>1, <1>2, <1>4, <3>1 DEF Table
    <3> QED
      BY <3>1, <3>2
  <2> QED
    BY <2>1, <2>2, <2>3, <2>4
<1> QED
  BY <1>1, <1>3, <1>4 DEF Table, l

\* The row of an id moves to the front of the others, changed in nothing but its pin.
LEMMA MovedTable ==
    ASSUME NEW h, NEW next, Table(h, next), NEW x \in Items, x.id < next
    PROVE  Table(Except(h, x.id), next) /\ Table(<<x>> \o Except(h, x.id), next)
<1> DEFINE P == DOMAIN h \ At(h, x.id)
<1>1. P \in SUBSET DOMAIN h /\ \A i \in P : h[i].id # x.id
  BY DEF At
<1> HIDE DEF P
<1>2. Table(Kept(h, P), next)
  BY <1>1, KeptTable
<1>3. /\ DOMAIN Kept(h, P) = 1 .. Cardinality(P)
      /\ \A n \in 1 .. Cardinality(P) : Nth(P, n) \in P /\ Kept(h, P)[n] = h[Nth(P, n)]
  <2>1. h \in Seq(Items)
    BY DEF Table
  <2> QED
    BY <1>1, <2>1, KeptElements
<1>4. \A n \in DOMAIN Kept(h, P) : Kept(h, P)[n].id # x.id
  BY <1>1, <1>3
<1>5. Table(<<x>> \o Kept(h, P), next)
  BY <1>2, <1>4, FrontTable
<1> QED
  BY <1>2, <1>5 DEF Except, P

\* The prune leaves a table.
LEMMA PrunedTable ==
    ASSUME NEW h, NEW next, Table(h, next)
    PROVE  Table(Pruned(h), next)
<1> DEFINE stay == {i \in DOMAIN h :
                      h[i].pinned \/ Cardinality({j \in 1..i : ~h[j].pinned}) <= MaxItems}
<1>1. Pruned(h) = Kept(h, stay) /\ stay \in SUBSET DOMAIN h
  BY DEF Pruned
<1> HIDE DEF stay
<1> QED
  BY <1>1, KeptTable

LEMMA EmptyTable == \A next : Table(<<>>, next)
  BY DEF Table

\* What Capture, ForeignClear, Activate, Pin, Delete and Accept leave is a table.
LEMMA TableStays ==
    ASSUME TableInv, [Next]_vars
    PROVE  TableInv'
<1>1. history \in Seq(Items) /\ nextId \in Nat \ {0} /\ Table(history, nextId)
  BY DEF TableInv, Table
<1>2. \A i \in DOMAIN history : history[i] \in Items /\ history[i].id < nextId
  BY <1>1 DEF Table
<1>3. Table(OnlyPinned(history), nextId) /\ Table(<<>>, nextId)
  <2>1. PinnedAt(history) \in SUBSET DOMAIN history
    BY DEF PinnedAt
  <2> QED
    BY <1>1, <2>1, KeptTable, EmptyTable DEF OnlyPinned
<1>4. \A i \in DOMAIN history : \A id :
         i \in At(history, id) => Table(<<history[i]>> \o Except(history, id), nextId)
  BY <1>1, <1>2, MovedTable DEF At
<1>5. ASSUME NEW i \in DOMAIN history, NEW id, i \in At(history, id)
      PROVE  /\ Table(<<[history[i] EXCEPT !.pinned = ~@]>> \o Except(history, id), nextId)
             /\ Table(Except(history, id), nextId)
  <2> DEFINE x == [history[i] EXCEPT !.pinned = ~@]
  <2>1. history[i] \in Items /\ history[i].id = id /\ history[i].id < nextId
    BY <1>2, <1>5 DEF At
  <2>2. x \in Items /\ x.id = id
    <3>1. CASE history[i].pinned = TRUE
      BY <2>1, <3>1 DEF Items
    <3>2. CASE history[i].pinned = FALSE
      BY <2>1, <3>2 DEF Items
    <3> QED
      BY <2>1, <3>1, <3>2 DEF Items
  <2> HIDE DEF x
  <2>3. Table(<<x>> \o Except(history, x.id), nextId) /\ Table(Except(history, x.id), nextId)
    BY <1>1, <2>1, <2>2, MovedTable
  <2> QED
    BY <2>2, <2>3 DEF x
<1>6. CASE Capture
  <2>1. CASE /\ history' = Pruned(<<[id |-> nextId, pinned |-> FALSE]>> \o history)
             /\ nextId' = nextId + 1
    <3> DEFINE longer == <<[id |-> nextId, pinned |-> FALSE]>> \o history
    <3>1. Table(history, nextId + 1) /\ nextId + 1 \in Nat \ {0}
      <4>1. \A i \in DOMAIN history : history[i].id \in Nat
        BY <1>2 DEF Items
      <4>2. \A i \in DOMAIN history : history[i].id < nextId + 1
        BY <1>1, <1>2, <4>1
      <4> QED
        BY <1>1, <4>2 DEF Table
    <3>2. Table(longer, nextId + 1)
      <4> DEFINE x == [id |-> nextId, pinned |-> FALSE]
      <4>1. x \in Items /\ x.id = nextId
        BY <1>1 DEF Items
      <4>2. x.id < nextId + 1
        BY <1>1, <4>1
      <4>3. \A i \in DOMAIN history : history[i].id # x.id
        <5>1. \A i \in DOMAIN history : history[i].id \in Nat
          BY <1>2 DEF Items
        <5> QED
          BY <1>1, <1>2, <4>1, <5>1
      <4> HIDE DEF x
      <4> QED
        BY <3>1, <4>1, <4>2, <4>3, FrontTable DEF x
    <3> HIDE DEF longer
    <3>3. Table(Pruned(longer), nextId + 1)
      BY <3>2, PrunedTable
    <3> QED
      BY <2>1, <3>1, <3>3 DEF TableInv, longer
  <2>2. CASE /\ \E i \in DOMAIN history : history' = Pruned(Renewed(i))
             /\ nextId' = nextId
    <3>1. PICK i \in DOMAIN history : history' = Pruned(Renewed(i))
      BY <2>2
    <3>2. i \in At(history, history[i].id)
      BY DEF At
    <3>3. Table(Renewed(i), nextId)
      BY <1>1, <1>4, <3>2 DEF Renewed
    <3> QED
      BY <1>1, <2>2, <3>1, <3>3, PrunedTable DEF TableInv
  <2> QED
    BY <1>6, <2>1, <2>2 DEF Capture, Write
<1>7. CASE ForeignClear
  BY <1>1, <1>3, <1>7 DEF ForeignClear, TableInv
<1>8. CASE Activate \/ Pin \/ Delete
  <2>1. \A id : \A i \in At(history, id) : i \in DOMAIN history
    BY DEF At
  <2>2. CASE Activate
    <3>1. /\ nextId' = nextId
          /\ \E item \in ToSet(items) \cup Carded :
                \/ \E i \in At(history, item.id) :
                      history' = <<history[i]>> \o Except(history, item.id)
                \/ history' = history
      BY <2>2 DEF Activate, Write
    <3> QED
      BY <1>1, <1>4, <2>1, <3>1 DEF TableInv
  <2>3. CASE Pin
    <3>1. /\ nextId' = nextId
          /\ \E item \in Selected \cup Carded :
                \/ \E i \in At(history, item.id) :
                      history' = <<[history[i] EXCEPT !.pinned = ~@]>> \o Except(history, item.id)
                \/ history' = history
      BY <2>3 DEF Pin, Write
    <3> QED
      BY <1>1, <1>5, <2>1, <3>1 DEF TableInv
  <2>4. CASE Delete
    <3>1. /\ nextId' = nextId
          /\ \E item \in Selected \cup Carded :
                \/ At(history, item.id) # {} /\ history' = Except(history, item.id)
                \/ history' = history
      BY <2>4 DEF Delete, Write
    <3> QED
      BY <1>1, <1>5, <2>1, <3>1 DEF TableInv
  <2> QED
    BY <1>8, <2>2, <2>3, <2>4
<1>9. CASE Accept
  <2>1. nextId' = nextId /\ history' = Cleared
    BY <1>9 DEF Accept, Write
  <2> QED
    BY <1>1, <1>3, <2>1 DEF Cleared, TableInv
<1>10. CASE UNCHANGED tableVars
  BY <1>1, <1>10 DEF tableVars, TableInv
<1> QED
  BY <1>6, <1>7, <1>8, <1>9, <1>10
     DEF Next, MainLoop, User, Rebuild, RefreshLater, SearchChanged, Show, Hide, Type, Move,
         ClickClear, Decline, ApplyConfig, vars


\* A rebuild that goes through shows the cards of its list, one of them highlighted.
LEMMA RebuiltView ==
    ASSUME TableInv, NEW list, list = Listing(history, text), NEW index,
           index \in 0..(IF list = <<>> THEN 0 ELSE Len(list) - 1), Rebuilt(index, list)
    PROVE  ViewInv'
<1>1. list \in Seq(Items) /\ Cards(list, text) = list
  BY CardsAreTheList DEF TableInv, Table
<1>2. /\ items' = list /\ rows' = list /\ selected' = index
      /\ highlight' = IF list = <<>> THEN 0 ELSE index + 1
  BY <1>1 DEF Rebuilt
<1>3. highlight' \in 0 .. Len(rows')
  <2>1. CASE list = <<>>
    BY <1>2, <2>1
  <2>2. CASE list # <<>>
    <3>1. Len(list) \in Nat /\ Len(list) # 0 /\ index \in 0 .. Len(list) - 1
      BY <1>1, <2>2
    <3> QED
      BY <1>2, <2>2, <3>1
  <2> QED
    BY <2>1, <2>2
<1>4. RowsAreItems'
  BY <1>1, <1>2 DEF RowsAreItems
<1> QED
  BY <1>1, <1>2, <1>3, <1>4 DEF ViewInv

\* A rebuild that raises leaves the old view with another selection, or some of the new cards.
LEMMA RaisedView ==
    ASSUME TableInv, ViewInv, NEW list, list = Listing(history, text), NEW start, NEW index,
           start \in 0..(IF items = <<>> THEN 0 ELSE Len(items) - 1),
           index \in 0..(IF list = <<>> THEN 0 ELSE Len(list) - 1),
           RebuildRaises(start, index, list)
    PROVE  ViewInv'
<1>1. list \in Seq(Items) /\ Cards(list, text) = list
  BY CardsAreTheList DEF TableInv, Table
<1>2. broken' = TRUE
  BY DEF RebuildRaises
<1>3. CASE selected' = start /\ UNCHANGED <<items, rows, highlight>>
  BY <1>2, <1>3 DEF ViewInv, RowsAreItems
<1>4. CASE /\ items' = list /\ selected' = index /\ highlight' = 0
           /\ \E made \in 0..(Len(list) - 1) : rows' = SubSeq(list, 1, made)
  <2>1. PICK made \in 0..(Len(list) - 1) : rows' = SubSeq(list, 1, made)
    BY <1>4
  <2>2. Len(list) \in Nat /\ made \in 0 .. Len(list)
    BY <1>1
  <2>3. /\ rows' \in Seq(Items) /\ Len(rows') = made
        /\ \A i \in 1 .. made : rows'[i] = list[i]
    BY <1>1, <2>1, <2>2
  <2>4. DOMAIN rows' = 1 .. made /\ DOMAIN list = 1 .. Len(list)
    BY <1>1, <2>3
  <2>5. RowsAreItems'
    BY <1>2, <1>4, <2>2, <2>3, <2>4 DEF RowsAreItems
  <2> QED
    BY <1>1, <1>4, <2>2, <2>3, <2>5 DEF ViewInv
<1> QED
  BY <1>1, <1>3, <1>4 DEF RebuildRaises

\* The view is made by the rebuilds and moved about in by the keys.
LEMMA ViewStays ==
    ASSUME TableInv, ViewInv, [Next]_vars
    PROVE  ViewInv'
<1> DEFINE list == Listing(history, text)
<1>1. list \in Seq(Items) /\ Len(list) \in Nat
  BY CardsAreTheList DEF TableInv, Table
<1>2. selected \in Nat
  <2>1. selected \in 0..(IF items = <<>> THEN 0 ELSE Len(items) - 1)
    BY DEF ViewInv
  <2> QED
    BY <2>1
<1>3. Clamped(list) \in 0..(IF list = <<>> THEN 0 ELSE Len(list) - 1)
  <2> HIDE DEF list
  <2>1. CASE list = <<>>
    BY <1>2, <2>1 DEF Clamped
  <2>2. CASE list # <<>>
    <3>1. Len(list) # 0
      BY <1>1, <2>2
    <3> QED
      BY <1>1, <1>2, <2>2, <3>1 DEF Clamped
  <2> QED
    BY <2>1, <2>2
<1>4. 0 \in 0..(IF list = <<>> THEN 0 ELSE Len(list) - 1)
  <2> HIDE DEF list
  <2>1. list # <<>> => Len(list) - 1 \in Nat
    BY <1>1
  <2> QED
    BY <2>1
<1>5. 0 \in 0..(IF items = <<>> THEN 0 ELSE Len(items) - 1)
  <2>1. items \in Seq(Items)
    BY DEF ViewInv
  <2>2. items # <<>> => Len(items) - 1 \in Nat
    BY <2>1
  <2> QED
    BY <2>2
<1>6. CASE Rebuild
  <2>1. Rebuilt(Clamped(list), list) \/ RebuildRaises(selected, Clamped(list), list)
    BY <1>6 DEF Rebuild
  <2>2. selected \in 0..(IF items = <<>> THEN 0 ELSE Len(items) - 1)
    BY DEF ViewInv
  <2> DEFINE index == Clamped(list)
  <2> HIDE DEF index
  <2>3. index \in 0..(IF list = <<>> THEN 0 ELSE Len(list) - 1)
    BY <1>3 DEF index
  <2> HIDE DEF list
  <2>4. Rebuilt(index, list) \/ RebuildRaises(selected, index, list)
    BY <2>1 DEF index
  <2>5. list = Listing(history, text)
    BY DEF list
  <2> QED
    BY <2>2, <2>3, <2>4, <2>5, RebuiltView, RaisedView
<1>7. CASE SearchChanged
  <2>1. Rebuilt(0, list) \/ RebuildRaises(0, 0, list)
    BY <1>7 DEF SearchChanged
  <2> HIDE DEF list
  <2>2. list = Listing(history, text)
    BY DEF list
  <2> QED
    BY <1>4, <1>5, <2>1, <2>2, RebuiltView, RaisedView
<1>8. CASE Move
  <2>1. /\ rows # <<>> /\ UNCHANGED <<items, rows, broken>>
        /\ highlight' = selected' + 1
    BY <1>8 DEF Move
  <2>2. /\ items \in Seq(Items) /\ rows \in Seq(Items) /\ RowsAreItems
        /\ Len(rows) \in Nat /\ Len(items) \in Nat /\ DOMAIN rows = 1 .. Len(rows)
        /\ DOMAIN items = 1 .. Len(items)
    BY DEF ViewInv
  <2>3. Len(rows) # 0
    BY <2>1, <2>2
  <2>4. selected' \in 0 .. Len(rows) - 1
    <3>1. PICK delta \in {-1, 1} :
             selected' = IF selected + delta < 0 THEN 0
                         ELSE IF selected + delta > Len(rows) - 1 THEN Len(rows) - 1
                         ELSE selected + delta
      BY <1>8 DEF Move
    <3> QED
      BY <1>2, <2>2, <2>3, <3>1
  <2>5. Len(rows) <= Len(items) /\ items # <<>>
    <3>0. Len(rows) \in DOMAIN rows
      BY <2>2, <2>3
    <3>1. Len(rows) \in DOMAIN items
      BY <2>2, <3>0 DEF RowsAreItems
    <3> QED
      BY <2>2, <2>3, <3>1
  <2>6. RowsAreItems'
    BY <2>1, <2>2 DEF RowsAreItems
  <2>7. selected' \in 0 .. Len(items) - 1 /\ highlight' \in 0 .. Len(rows)
    <3>1. Len(rows) \in Nat /\ Len(items) \in Nat /\ Len(rows) <= Len(items)
      BY <2>2, <2>5
    <3>2. selected' \in Int /\ 0 <= selected' /\ selected' <= Len(rows) - 1
      BY <2>4, <3>1
    <3>3. selected' \in 0 .. Len(items) - 1
      BY <3>1, <3>2
    <3>4. selected' + 1 \in 0 .. Len(rows)
      <4> DEFINE to == selected'
                 last == Len(rows)
      <4>1. to \in Int /\ last \in Nat /\ 0 <= to /\ to <= last - 1
        BY <3>1, <3>2
      <4> HIDE DEF to, last
      <4>2. to + 1 \in 0 .. last
        BY <4>1
      <4> QED
        BY <4>2 DEF to, last
    <3>5. highlight' = selected' + 1
      BY <2>1
    <3> QED
      BY <3>3, <3>4, <3>5
  <2> QED
    BY <2>1, <2>2, <2>5, <2>6, <2>7 DEF ViewInv
<1>9. CASE UNCHANGED viewVars
  BY <1>9 DEF viewVars, ViewInv, RowsAreItems
<1> QED
  BY <1>6, <1>7, <1>8, <1>9
     DEF Next, MainLoop, User, RefreshLater, Show, Hide, Type, Activate, Pin, Delete,
         ClickClear, Accept, Decline, Capture, ForeignClear, ApplyConfig, vars

\* Asking for a rebuild, or not asking for one.
LEMMA RefreshAsks ==
    ASSUME visible \in BOOLEAN, pending \in BOOLEAN
    PROVE  /\ Refresh(TRUE) => pending' = TRUE
           /\ Refresh(FALSE) => pending' \in BOOLEAN /\ (pending \/ visible => pending')
  BY DEF Refresh

\* The flags are flags, and notifications are counted within their bound.
LEMMA FlagsStay ==
    ASSUME FlagTypes, [Next]_vars
    PROVE  FlagTypes'
<1>1. /\ text \in Texts /\ shownFor \in Texts /\ queued \in 0..MaxQueued /\ MaxQueued \in Nat
      /\ visible \in BOOLEAN /\ typed \in BOOLEAN /\ pending \in BOOLEAN /\ dirty \in BOOLEAN
      /\ broken \in BOOLEAN /\ windowKeep \in BOOLEAN /\ storeKeep \in BOOLEAN /\ shared \in BOOLEAN
      /\ dialog \in [open : BOOLEAN, keep : BOOLEAN]
  BY PopupAssumption DEF FlagTypes, PopupAssumption
<1>2. queued' \in 0..MaxQueued
  <2>1. \/ queued' = queued
        \/ queued < MaxQueued /\ queued' = queued + 1
        \/ queued > 0 /\ queued' = queued - 1
    BY DEF Next, MainLoop, User, Rebuild, RefreshLater, SearchChanged, Show, Hide, Type, Move,
           Activate, Pin, Delete, ClickClear, Accept, Decline, Capture, ForeignClear,
           ApplyConfig, Write, vars
  <2> QED
    BY <1>1, <2>1
<1>3. text' \in Texts /\ shownFor' \in Texts
  <2>1. text' = text \/ text' \in Texts \ {text}
    BY DEF Next, MainLoop, User, Rebuild, RefreshLater, SearchChanged, Show, Hide, Type, Move,
           Activate, Pin, Delete, ClickClear, Accept, Decline, Capture, ForeignClear,
           ApplyConfig, vars
  <2>2. shownFor' = shownFor \/ shownFor' = text
    BY DEF Next, MainLoop, User, Rebuild, RefreshLater, SearchChanged, Show, Hide, Type, Move,
           Activate, Pin, Delete, ClickClear, Accept, Decline, Capture, ForeignClear,
           ApplyConfig, vars, viewVars, Rebuilt, RebuildRaises
  <2> QED
    BY <1>1, <2>1, <2>2
<1>4. visible' \in BOOLEAN /\ typed' \in BOOLEAN /\ dirty' \in BOOLEAN /\ broken' \in BOOLEAN
  <2>1. /\ visible' = visible \/ visible' = TRUE \/ visible' = FALSE
        /\ typed' = typed \/ typed' = TRUE \/ typed' = FALSE
    BY DEF Next, MainLoop, User, Rebuild, RefreshLater, SearchChanged, Show, Hide, Type, Move,
           Activate, Pin, Delete, ClickClear, Accept, Decline, Capture, ForeignClear,
           ApplyConfig, vars
  <2>2. /\ dirty' = dirty \/ dirty' = TRUE \/ dirty' = FALSE
        /\ broken' = broken \/ broken' = TRUE \/ broken' = FALSE
    BY DEF Next, MainLoop, User, Rebuild, RefreshLater, SearchChanged, Show, Hide, Type, Move,
           Activate, Pin, Delete, ClickClear, Accept, Decline, Capture, ForeignClear,
           ApplyConfig, vars, viewVars, Rebuilt, RebuildRaises, Write
  <2> QED
    BY <1>1, <2>1, <2>2
<1>5. pending' \in BOOLEAN
  <2>1. \/ pending' = pending \/ pending' = FALSE \/ Refresh(TRUE) \/ Refresh(FALSE)
    BY DEF Next, MainLoop, User, Rebuild, RefreshLater, SearchChanged, Show, Hide, Type, Move,
           Activate, Pin, Delete, ClickClear, Accept, Decline, Capture, ForeignClear,
           ApplyConfig, vars
  <2> QED
    BY <1>1, <2>1, RefreshAsks
<1>6. dialog' \in [open : BOOLEAN, keep : BOOLEAN]
  <2>1. dialog' = dialog \/ dialog' = NoDialog \/ dialog' = [open |-> TRUE, keep |-> windowKeep]
    BY DEF Next, MainLoop, User, Rebuild, RefreshLater, SearchChanged, Show, Hide, Type, Move,
           Activate, Pin, Delete, ClickClear, Accept, Decline, Capture, ForeignClear,
           ApplyConfig, vars
  <2>2. [open |-> TRUE, keep |-> windowKeep] \in [open : BOOLEAN, keep : BOOLEAN]
    BY <1>1
  <2>3. NoDialog \in [open : BOOLEAN, keep : BOOLEAN]
    BY DEF NoDialog
  <2> QED
    BY <1>1, <2>1, <2>2, <2>3
<1>7. windowKeep' \in BOOLEAN /\ storeKeep' \in BOOLEAN /\ shared' \in BOOLEAN
  <2>1. UNCHANGED settingVars \/ SwitchKeep \/ ReloadConfig \/ ResetConfig
    BY DEF Next, MainLoop, User, Rebuild, RefreshLater, SearchChanged, Show, Hide, Type, Move,
           Activate, Pin, Delete, ClickClear, Accept, Decline, Capture, ForeignClear,
           ApplyConfig, vars
  <2>2. CASE UNCHANGED settingVars
    BY <1>1, <2>2 DEF settingVars
  <2>3. CASE SwitchKeep
    <3>1. windowKeep' \in BOOLEAN
      BY <1>1, <2>3 DEF SwitchKeep
    <3> QED
      BY <1>1, <2>3, <3>1 DEF SwitchKeep
  <2>4. CASE ReloadConfig \/ ResetConfig
    BY <1>1, <2>4 DEF ReloadConfig, ResetConfig
  <2> QED
    BY <2>1, <2>2, <2>3, <2>4
<1> QED
  BY <1>2, <1>3, <1>4, <1>5, <1>6, <1>7 DEF FlagTypes


\* A write of this process while the window can be seen leaves a rebuild scheduled or a
\* notification waiting; hiding the window forgets it, and showing it schedules a rebuild.
LEMMA RefreshStays ==
    ASSUME FlagTypes, NoLostRefresh, [Next]_vars
    PROVE  NoLostRefresh'
<1>1. /\ visible \in BOOLEAN /\ pending \in BOOLEAN /\ queued \in Nat
  BY DEF FlagTypes
<1>2. CASE pending' = TRUE \/ visible' = FALSE \/ broken' = TRUE \/ typed' = TRUE
  BY <1>2 DEF NoLostRefresh
<1>3. CASE Rebuild \/ SearchChanged
  <2>1. text' = text /\ (broken' = TRUE \/ (shownFor' = text /\ dirty' = FALSE))
    BY <1>3 DEF Rebuild, SearchChanged, Rebuilt, RebuildRaises
  <2> QED
    BY <2>1 DEF NoLostRefresh
<1>4. CASE RefreshLater
  <2>1. /\ UNCHANGED <<visible, dirty, shownFor, text, broken, typed>>
        /\ pending \/ visible => pending'
    BY <1>1, <1>4, RefreshAsks DEF RefreshLater, viewVars
  <2> QED
    BY <2>1 DEF NoLostRefresh
<1>5. CASE Capture
  <2>1. queued' = queued + 1
    BY <1>5 DEF Capture, Write
  <2>2. queued' > 0
    BY <1>1, <2>1
  <2> QED
    BY <2>2 DEF NoLostRefresh
<1>6. CASE UNCHANGED <<visible, dirty, shownFor, text, broken, pending, queued, typed>>
  BY <1>6 DEF NoLostRefresh
<1>7. CASE Show \/ Pin \/ Delete \/ Accept \/ ApplyConfig
  BY <1>1, <1>2, <1>7, RefreshAsks DEF Show, Pin, Delete, Accept, ApplyConfig
<1>8. CASE Hide \/ Type \/ Activate
  BY <1>2, <1>8 DEF Hide, Type, Activate
<1>9. CASE Move \/ ClickClear \/ Decline \/ ForeignClear \/ UNCHANGED vars
  BY <1>6, <1>9 DEF Move, ClickClear, Decline, ForeignClear, vars, viewVars
<1> QED
  BY <1>3, <1>4, <1>5, <1>7, <1>8, <1>9 DEF Next, MainLoop, User

\* Before the first step.
LEMMA InitIInv == Init => IInv
<1> SUFFICES ASSUME Init PROVE IInv
  OBVIOUS
<1>1. TableInv
  <2>1. history = <<>> /\ nextId = 1
    BY DEF Init
  <2> QED
    BY <2>1, EmptyTable DEF TableInv
<1>2. items = <<>> /\ rows = <<>> /\ selected = 0 /\ highlight = 0
  BY DEF Init
<1>3. ViewInv
  <2>1. RowsAreItems
    BY <1>2 DEF RowsAreItems
  <2> QED
    BY <1>2, <2>1 DEF ViewInv
<1>4. FlagTypes
  <2>1. /\ text = "" /\ shownFor = "" /\ queued = 0 /\ dialog = NoDialog
        /\ visible = FALSE /\ typed = FALSE /\ pending = TRUE /\ dirty = FALSE /\ broken = FALSE
        /\ windowKeep \in BOOLEAN /\ storeKeep = windowKeep /\ shared = TRUE
    BY DEF Init
  <2>2. queued \in 0 .. MaxQueued
    <3>1. MaxQueued \in Nat
      BY PopupAssumption DEF PopupAssumption
    <3>2. 0 \in 0 .. MaxQueued
      BY <3>1
    <3> QED
      BY <2>1, <3>2
  <2>3. dialog \in [open : BOOLEAN, keep : BOOLEAN]
    BY <2>1 DEF NoDialog
  <2> QED
    BY <2>1, <2>2, <2>3 DEF FlagTypes, Texts
<1>5. NoLostRefresh
  BY DEF Init, NoLostRefresh
<1> QED
  BY <1>1, <1>3, <1>4, <1>5 DEF IInv

LEMMA NextIInv == IInv /\ [Next]_vars => IInv'
  BY TableStays, ViewStays, FlagsStay, RefreshStays DEF IInv

LEMMA Invariance == Spec => []IInv
<1> QED
  BY InitIInv, NextIInv, PTL DEF Spec

\* The state stays well formed: no id is in the table twice or before it was given, and the
\* selection stays on the list although rows come and go.
THEOREM TypeCorrect == Spec => []TypeOK
<1>1. IInv => TypeOK
  BY Parts
<1> QED
  BY <1>1, Invariance, PTL

\* For every history, limit and search: what the keys act on is what the user sees.
THEOREM CardsAreItems == Spec => []RowsAreItems
<1>1. IInv => RowsAreItems
  BY Parts
<1> QED
  BY <1>1, Invariance, PTL

\* No change of this process is lost between coalesced rebuilds, ignored notifications and a
\* hidden window.
THEOREM NoRefreshIsLost == Spec => []NoLostRefresh
<1>1. IInv => NoLostRefresh
  BY Parts
<1> QED
  BY <1>1, Invariance, PTL

================================================================================
