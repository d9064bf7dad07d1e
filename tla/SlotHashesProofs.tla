-------------------------- MODULE SlotHashesProofs --------------------------
(***************************************************************************)
(* The slot-hash lookup, for every chain, every retention and every target.*)
(***************************************************************************)
EXTENDS SlotHashes, FiniteSetTheorems, WellFoundedInduction, TLAPS

\* A non-empty set of naturals has a least element.
LEMMA Least ==
  ASSUME NEW T \in SUBSET Nat, T # {}
  PROVE  \E m \in T : \A n \in T : m <= n
<1> DEFINE R == OpToRel(<, Nat)
<1>1. IsWellFoundedOn(R, Nat)
  BY NatLessThanWellFounded
<1>2. \A a, b \in Nat : <<a, b>> \in R <=> a < b
  BY DEF OpToRel
<1> HIDE DEF R
<1>3. PICK m \in T : \A n \in T : ~(<<n, m>> \in R)
  BY <1>1, WFMin
<1>4. ASSUME NEW n \in T PROVE m <= n
  <2>1. m \in Nat /\ n \in Nat
    OBVIOUS
  <2>2. ~(<<n, m>> \in R)
    BY <1>3
  <2>3. ~(n < m)
    BY <1>2, <2>1, <2>2
  <2>4. QED
    BY <2>1, <2>3
<1>5. QED
  BY <1>4

\* What SlotHashes retains is closed upwards: a finished bank newer than a
\* retained one is retained.
LEMMA RetainedUpward ==
  ASSUME NEW produced, produced \subseteq Nat, IsFiniteSet(produced),
         NEW s \in Retained(produced),
         NEW u \in produced, u > s
  PROVE  u \in Retained(produced)
<1> DEFINE newer(x) == {v \in produced : v > x}
<1>0. s \in Nat /\ u \in Nat
  BY DEF Retained
<1>1. \A v \in newer(u) : v \in newer(s)
  <2>1. ASSUME NEW v \in produced, v > u
        PROVE  v > s
    BY <1>0, <2>1
  <2>2. QED
    BY <2>1
<1>2. IsFiniteSet(newer(s)) /\ IsFiniteSet(newer(u))
  BY FS_Subset
<1>3. Cardinality(newer(u)) <= Cardinality(newer(s))
  BY <1>1, <1>2, FS_Subset
<1>4. Cardinality(newer(u)) \in Nat /\ Cardinality(newer(s)) \in Nat
  BY <1>2, FS_CardinalityType
<1>5. Cardinality(newer(s)) < Retention
  BY DEF Retained
<1>6. Cardinality(newer(u)) < Retention
  BY <1>3, <1>4, <1>5, SlotHashesAssumption
<1>7. QED
  BY <1>6 DEF Retained

\* slothash_at_or_after never answers with anything but the first block at or
\* after the target on the WHOLE chain, although it reads only what SlotHashes
\* retains (the fail-closed rule at its end is what makes this true).
THEOREM LookupIsCanonical ==
  ASSUME NEW produced, produced \subseteq Nat, IsFiniteSet(produced),
         NEW t \in Nat, NEW s,
         SlothashAtOrAfter(s, Retained(produced), t)
  PROVE  IsFirstAtOrAfter(s, produced, t)
<1>1. s \in produced /\ s \in Nat /\ s >= t
  BY DEF SlothashAtOrAfter, IsFirstAtOrAfter, Retained
<1>2. SUFFICES ASSUME NEW u \in produced, u >= t
               PROVE  s <= u
  BY <1>1 DEF IsFirstAtOrAfter
<1>3. u \in Nat
  OBVIOUS
<1>4. CASE s = t
  BY <1>4, <1>2
<1>5. CASE s # t
  <2>1. PICK w \in Retained(produced) : w < t
    BY <1>5 DEF SlothashAtOrAfter
  <2>2. w \in Nat
    BY DEF Retained
  <2>3. u > w
    BY <2>1, <2>2, <1>2, <1>3
  <2>4. u \in Retained(produced)
    BY <2>3, RetainedUpward
  <2>5. QED
    BY <2>4, <1>2 DEF SlothashAtOrAfter, IsFirstAtOrAfter
<1>6. QED
  BY <1>4, <1>5

\* What the scan returns is what the lookup returns.
LEMMA ScanIsSound ==
  ASSUME NEW list \in Seq(Nat),
         \A i, j \in DOMAIN list : i < j => list[i] > list[j],
         NEW t \in Nat, NEW s \in Nat
  PROVE  SlothashScan(s, list, t)
           => SlothashAtOrAfter(s, {list[i] : i \in DOMAIN list}, t)
<1> DEFINE E == {list[i] : i \in DOMAIN list}
<1>0. DOMAIN list = 1..Len(list) /\ Len(list) \in Nat
      /\ \A k \in DOMAIN list : list[k] \in Nat
  OBVIOUS
<1>1. SUFFICES ASSUME SlothashScan(s, list, t)
               PROVE  SlothashAtOrAfter(s, E, t)
  OBVIOUS
<1>2. PICK i \in DOMAIN list :
        /\ list[i] <= t
        /\ \A j \in 1..i-1 : list[j] > t
        /\ \/ list[i] = t /\ s = t
           \/ list[i] < t /\ i > 1 /\ s = list[i-1]
  BY <1>1 DEF SlothashScan
<1>3. CASE list[i] = t /\ s = t
  BY <1>0, <1>3 DEF SlothashAtOrAfter, IsFirstAtOrAfter
<1>4. CASE list[i] < t /\ i > 1 /\ s = list[i-1]
  <2>1. i-1 \in DOMAIN list /\ i-1 \in 1..i-1
    BY <1>0, <1>4
  <2>2. s \in E /\ s > t
    BY <2>1, <1>2, <1>4
  <2>3. ASSUME NEW k \in DOMAIN list, list[k] >= t
        PROVE  s <= list[k]
    <3>1. k < i
      <4>1. k \in Nat /\ i \in Nat
        BY <1>0
      <4>2. k # i
        BY <1>4, <2>3, <1>0
      <4>3. ~(i < k)
        BY <1>4, <2>3, <1>0
      <4>4. QED
        BY <4>1, <4>2, <4>3
    <3>2. k = i-1 \/ k < i-1
      BY <3>1, <1>0
    <3>3. QED
      BY <3>2, <2>1, <1>4, <1>0
  <2>4. list[i] \in E
    OBVIOUS
  <2>5. QED
    BY <2>2, <2>3, <2>4, <1>4 DEF SlothashAtOrAfter, IsFirstAtOrAfter
<1>5. QED
  BY <1>2, <1>3, <1>4

\* Whatever the lookup can answer, the scan finds.
LEMMA ScanIsComplete ==
  ASSUME NEW list \in Seq(Nat),
         \A i, j \in DOMAIN list : i < j => list[i] > list[j],
         NEW t \in Nat, NEW s \in Nat,
         SlothashAtOrAfter(s, {list[i] : i \in DOMAIN list}, t)
  PROVE  SlothashScan(s, list, t)
<1>0. DOMAIN list = 1..Len(list) /\ Len(list) \in Nat
      /\ \A m \in DOMAIN list : list[m] \in Nat
  OBVIOUS
<1>1. PICK k \in DOMAIN list : list[k] = s
  BY DEF SlothashAtOrAfter, IsFirstAtOrAfter
<1>2. s >= t /\ \A m \in DOMAIN list : list[m] >= t => s <= list[m]
  BY DEF SlothashAtOrAfter, IsFirstAtOrAfter
<1>3. \A j \in 1..k-1 : list[j] > s
  BY <1>0, <1>1
<1>4. CASE s = t
  BY <1>0, <1>1, <1>3, <1>4 DEF SlothashScan
<1>5. CASE s # t
  <2>1. PICK m \in DOMAIN list : list[m] < t
    BY <1>5 DEF SlothashAtOrAfter
  <2>2. k < m
    <3>1. k \in Nat /\ m \in Nat /\ list[m] < list[k]
      BY <1>0, <1>1, <1>2, <2>1
    <3>2. k # m /\ ~(m < k)
      BY <1>0, <2>1, <3>1
    <3>3. QED
      BY <3>1, <3>2
  <2>3. k + 1 \in DOMAIN list /\ list[k+1] < s
    <3>1. k + 1 \in DOMAIN list /\ k < k + 1
      BY <1>0, <2>2
    <3>2. QED
      BY <1>1, <3>1
  <2>4. list[k+1] < t
    BY <1>0, <1>2, <2>3
  <2>5. \A j \in 1..(k+1)-1 : list[j] > t
    <3>1. SUFFICES ASSUME NEW j \in 1..(k+1)-1 PROVE list[j] > t
      OBVIOUS
    <3>2. s > t
      BY <1>2, <1>5
    <3>3. k \in Nat /\ j \in DOMAIN list /\ (j = k \/ j \in 1..k-1)
      BY <1>0
    <3>4. QED
      BY <1>0, <1>1, <1>3, <3>2, <3>3
  <2>6. k + 1 > 1 /\ list[(k+1)-1] = s
    BY <1>0, <1>1
  <2>7. QED
    BY <2>3, <2>4, <2>5, <2>6 DEF SlothashScan
<1>6. QED
  BY <1>4, <1>5

\* The scan of the code over a newest-first list computes the lookup over the
\* set of its entries: the same answer, or none where it has none.
THEOREM ScanIsLookup ==
  ASSUME NEW list \in Seq(Nat),
         \A i, j \in DOMAIN list : i < j => list[i] > list[j],
         NEW t \in Nat, NEW s \in Nat
  PROVE  SlothashScan(s, list, t)
           <=> SlothashAtOrAfter(s, {list[i] : i \in DOMAIN list}, t)
BY ScanIsSound, ScanIsComplete

-----------------------------------------------------------------------------
\* The chain stays well formed: finished banks are older than the open one.
THEOREM ClockTypeCorrect ==
  ASSUME ClockTypeOK, NewBank
  PROVE  ClockTypeOK'
<1>1. PICK next \in slot+1 .. slot+MaxGap : next <= SlotHorizon /\ slot' = next
  BY DEF NewBank
<1>2. slot \in Nat /\ slot < slot'
  BY <1>1, SlotHashesAssumption DEF ClockTypeOK
<1>3. slot' \in 1..SlotHorizon
  BY <1>1, <1>2, SlotHashesAssumption DEF ClockTypeOK
<1>4. blocks' \subseteq 0..slot'-1
  BY <1>1, <1>2, SlotHashesAssumption DEF ClockTypeOK, NewBank
<1>5. QED
  BY <1>3, <1>4 DEF ClockTypeOK

\* The set of finished banks is finite, as RetainedUpward needs.
LEMMA BlocksFinite ==
  ASSUME ClockTypeOK
  PROVE  blocks \subseteq Nat /\ IsFiniteSet(blocks)
<1>1. slot \in Nat
  BY SlotHashesAssumption DEF ClockTypeOK
<1>2. IsFiniteSet(0..slot-1)
  BY <1>1, FS_Interval
<1>3. blocks \in SUBSET (0..slot-1) /\ 0..slot-1 \subseteq Nat
  BY <1>1 DEF ClockTypeOK
<1>4. IsFiniteSet(blocks)
  BY <1>2, <1>3, FS_Subset
<1>5. QED
  BY <1>3, <1>4

\* A finished bank is retained while fewer than Retention slots have begun
\* after it.
LEMMA RecentIsRetained ==
  ASSUME ClockTypeOK, NEW b \in blocks, NEW low \in Nat,
         \A u \in blocks : u > b => u >= low,
         slot - low < Retention
  PROVE  b \in Retained(blocks)
<1> DEFINE newer == {u \in blocks : u > b}
<1>1. slot \in Nat /\ Retention \in Nat \ {0}
  BY SlotHashesAssumption DEF ClockTypeOK
<1>2. IsFiniteSet(low..slot-1)
      /\ Cardinality(low..slot-1) = IF low > slot-1 THEN 0 ELSE (slot-1) - low + 1
  BY <1>1, FS_Interval
<1>3. newer \in SUBSET (low..slot-1)
  <2>1. SUFFICES ASSUME NEW u \in blocks, u > b PROVE u \in low..slot-1
    OBVIOUS
  <2>2. u \in 0..slot-1 /\ u >= low
    BY <2>1 DEF ClockTypeOK
  <2>3. QED
    BY <1>1, <2>2
<1>4. Cardinality(newer) <= Cardinality(low..slot-1) /\ IsFiniteSet(newer)
  BY <1>2, <1>3, FS_Subset
<1>5. Cardinality(newer) \in Nat
  BY <1>4, FS_CardinalityType
<1>6. Cardinality(newer) < Retention
  BY <1>1, <1>2, <1>4, <1>5
<1>7. QED
  BY <1>6 DEF Retained

\* No timely lookup fails: while the window of a commit made before its target is
\* open, the first block at or after the target is still retained, and so is the
\* last one before it.
LEMMA TimelyLookup ==
  ASSUME ClockTypeOK, NEW t \in Nat, NEW c \in blocks, c < t,
         NEW b \in blocks, b >= t,
         NEW window \in Nat, window <= Retention, slot > t, slot <= t + window
  PROVE  \E s \in blocks : SlothashAtOrAfter(s, Retained(blocks), t)
<1>1. blocks \subseteq Nat /\ blocks \subseteq 0..slot-1 /\ slot \in Nat
  BY BlocksFinite, SlotHashesAssumption DEF ClockTypeOK
<1>2. t \in Nat /\ c < t /\ slot <= t + window /\ slot > t /\ b >= t
  OBVIOUS
<1>3. window \in Nat /\ window <= Retention /\ Retention \in Nat
  BY SlotHashesAssumption
<1>4. PICK s \in {u \in blocks : u >= t} : \A u \in {u \in blocks : u >= t} : s <= u
  <2> DEFINE after == {u \in blocks : u >= t}
  <2>1. after \in SUBSET Nat /\ after # {}
    BY <1>1, <1>2
  <2> HIDE DEF after
  <2>2. \E m \in after : \A u \in after : m <= u
    BY <2>1, Least
  <2>3. QED
    BY <2>2 DEF after
<1>5. s \in blocks /\ s \in Nat /\ s >= t
  BY <1>1, <1>4
<1>6. s \in Retained(blocks)
  <2>1. \A u \in blocks : u > s => u >= s + 1
    BY <1>1, <1>5
  <2>2. s + 1 \in Nat /\ slot - (s + 1) < Retention
    BY <1>1, <1>2, <1>3, <1>5
  <2>3. QED
    BY <1>5, <2>1, <2>2, RecentIsRetained
<1>7. s # t => \E w \in Retained(blocks) : w < t
  <2>1. SUFFICES ASSUME s # t PROVE \E w \in Retained(blocks) : w < t
    OBVIOUS
  <2> DEFINE gaps == {g \in Nat : \E w \in blocks : w < t /\ g = t - w}
  <2>2. gaps # {}
    <3>1. t - c \in Nat
      BY <1>1, <1>2
    <3>2. QED
      BY <1>2, <3>1
  <2>3. gaps \in SUBSET Nat
    OBVIOUS
  <2>4. PICK g \in gaps : \A h \in gaps : g <= h
    <3> HIDE DEF gaps
    <3>1. QED
      BY <2>2, <2>3, Least
  <2>5. PICK w \in blocks : w < t /\ g = t - w
    BY <2>4
  <2>6. \A u \in blocks : u > w => u >= t + 1
    <3>1. SUFFICES ASSUME NEW u \in blocks, u > w PROVE u >= t + 1
      OBVIOUS
    <3>2. u \in Nat /\ w \in Nat
      BY <1>1
    <3>3. ~(u < t)
      <4>1. SUFFICES ASSUME u < t PROVE FALSE
        OBVIOUS
      <4>2. t - u \in gaps
        BY <1>2, <3>2, <4>1
      <4>3. g <= t - u
        BY <2>4, <4>2
      <4>4. QED
        BY <1>2, <2>5, <3>1, <3>2, <4>3
    <3>4. s <= u
      BY <1>2, <1>4, <3>2, <3>3
    <3>5. QED
      BY <1>2, <1>5, <2>1, <3>2, <3>4
  <2>7. t + 1 \in Nat /\ slot - (t + 1) < Retention
    BY <1>1, <1>2, <1>3
  <2>8. w \in Retained(blocks)
    BY <2>6, <2>7, RecentIsRetained
  <2>9. QED
    BY <2>5, <2>8
<1>8. SlothashAtOrAfter(s, Retained(blocks), t)
  <2>1. \A u \in Retained(blocks) : u >= t => s <= u
    BY <1>4 DEF Retained
  <2>2. QED
    BY <1>5, <1>6, <1>7, <2>1 DEF SlothashAtOrAfter, IsFirstAtOrAfter
<1>9. QED
  BY <1>5, <1>8
=============================================================================
