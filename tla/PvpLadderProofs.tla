-------------------------- MODULE PvpLadderProofs --------------------------
(***************************************************************************)
(* Proofs about arena-leaderboard: the PvE half (Leaderboard) and the PvP  *)
(* half beside it (PvpLadder).  In order: the heap and its sifts; the rate *)
(* limit; the invariant of the PvE half, the exactness of its rate limit   *)
(* and its implementation of TopBoards; the fixed-point Elo exchange; the  *)
(* throttle of a pair; the invariant of the whole program; the exactness   *)
(* of the throttle; and that the program implements TopBoards and          *)
(* CommitReveal.                                                           *)
(***************************************************************************)
EXTENDS PvpLadder, SlotHashesProofs, SequenceTheorems

-----------------------------------------------------------------------------
(* Loops: recursive functions on loop states, reasoned about by the least-number principle *)

\* f is what the loop computes that takes a step as long as there is more to do.
Computes(f, D, more, step) == f = [x \in D |-> IF x \in more THEN f[step[x]] ELSE x]

\* A loop whose every round lowers a rank computes a function: the recursion
\* equation by which it is defined has a solution.
LEMMA LoopDefined ==
  ASSUME NEW D, NEW more \in SUBSET D, NEW step \in [D -> D], NEW rank \in [D -> Nat],
         \A x \in more : rank[step[x]] < rank[x]
  PROVE  \E f : Computes(f, D, more, step)
<1> DEFINE Closed(I) == \A z \in I : z \in more => step[z] \in I
           Reach(x) == {y \in D : \A I \in SUBSET D : x \in I /\ Closed(I) => y \in I}
           f == [x \in D |-> CHOOSE y : y \in Reach(x) \ more]
<1>1. ASSUME NEW x \in D, x \in more
      PROVE  Reach(x) \ more = Reach(step[x]) \ more
  <2>1. step[x] \in D
    OBVIOUS
  <2>2. ASSUME NEW y \in Reach(x), y \notin more PROVE y \in Reach(step[x])
    <3>1. SUFFICES ASSUME NEW I \in SUBSET D, step[x] \in I, Closed(I) PROVE y \in I
      BY <2>2
    <3>2. I \cup {x} \in SUBSET D /\ x \in I \cup {x} /\ Closed(I \cup {x})
      BY <3>1
    <3>3. y \in I \cup {x}
      BY <2>2, <3>2
    <3>4. QED
      BY <1>1, <2>2, <3>3
  <2>3. ASSUME NEW y \in Reach(step[x]) PROVE y \in Reach(x)
    BY <1>1, <2>3
  <2>4. QED
    BY <2>2, <2>3
<1>2. ASSUME NEW x \in D, x \notin more
      PROVE  Reach(x) \ more = {x}
  <2>1. {x} \in SUBSET D /\ Closed({x})
    BY <1>2
  <2>2. QED
    BY <1>2, <2>1
<1> HIDE DEF Reach
<1>3. ASSUME NEW x \in D PROVE f[x] = IF x \in more THEN f[step[x]] ELSE x
  <2>1. CASE x \in more
    <3>1. step[x] \in D /\ Reach(x) \ more = Reach(step[x]) \ more
      BY <1>1, <2>1
    <3>2. QED
      BY <2>1, <3>1
  <2>2. CASE x \notin more
    BY <1>2, <2>2
  <2>3. QED
    BY <2>1, <2>2
<1>4. f = [x \in D |-> f[x]]
  OBVIOUS
<1> HIDE DEF f
<1>5. f = [x \in D |-> IF x \in more THEN f[step[x]] ELSE x]
  BY <1>3, <1>4
<1>6. QED
  BY <1>5 DEF Computes

\* The rule for such a loop: what every round keeps holds at its end.
LEMMA LoopRule ==
  ASSUME NEW D, NEW more \in SUBSET D, NEW step \in [D -> D], NEW rank \in [D -> Nat],
         \A x \in more : rank[step[x]] < rank[x],
         NEW f, Computes(f, D, more, step),
         NEW Inv \in SUBSET D, \A x \in Inv : x \in more => step[x] \in Inv
  PROVE  \A x \in Inv : f[x] \in Inv \ more
<1> DEFINE bad == {x \in Inv : f[x] \notin Inv \ more}
           T == {rank[x] : x \in bad}
<1>1. SUFFICES ASSUME NEW a \in bad PROVE FALSE
  OBVIOUS
<1>2. T \in SUBSET Nat /\ T # {}
  <2>1. rank[a] \in T
    OBVIOUS
  <2>2. bad \in SUBSET D
    OBVIOUS
  <2> HIDE DEF bad
  <2>3. \A x \in bad : rank[x] \in Nat
    BY <2>2
  <2>4. QED
    BY <2>1, <2>3
<1>3. PICK m \in T : \A n \in T : m <= n
  <2> HIDE DEF T
  <2>1. QED BY <1>2, Least
<1>4. PICK x \in bad : rank[x] = m
  BY <1>3
<1>5. \A y \in bad : rank[x] <= rank[y]
  BY <1>3, <1>4
<1>6. f[x] = IF x \in more THEN f[step[x]] ELSE x
  BY DEF Computes
<1>7. x \in more
  BY <1>6
<1>8. step[x] \in Inv /\ rank[step[x]] < rank[x]
  BY <1>7
<1>9. step[x] \notin bad
  <2>1. rank[x] \in Nat /\ rank[step[x]] \in Nat
    BY <1>8
  <2> HIDE DEF bad
  <2>2. ~(rank[x] <= rank[step[x]])
    BY <1>8, <2>1
  <2>3. QED
    BY <1>5, <2>2
<1>10. QED
  BY <1>6, <1>7, <1>8, <1>9

-----------------------------------------------------------------------------
(* The two sifts are defined *)

\* The states from which a sift goes on.
Rises(s) == s.at \in 2..Len(s.heap) /\ s.heap[s.at].rating < s.heap[s.at \div 2].rating
\* The loop condition of sift_down.
Sinks(s) == s.at \in DOMAIN s.heap /\ SmallestAt(s.heap, s.at) # s.at

\* The entries of a heap have natural ratings.
LEMMA HeapType ==
  ASSUME NEW h \in Seq(HeapEntry)
  PROVE  /\ Len(h) \in Nat
         /\ DOMAIN h = 1..Len(h)
         /\ \A i \in 1..Len(h) :
              h[i] \in HeapEntry /\ h[i].rating \in Nat /\ h[i].player \in Wallets
<1>1. Len(h) \in Nat /\ DOMAIN h = 1..Len(h)
  OBVIOUS
<1>2. \A i \in 1..Len(h) : h[i] \in HeapEntry
  OBVIOUS
<1>3. \A e \in HeapEntry : e.rating \in Nat /\ e.player \in Wallets
  BY DEF HeapEntry
<1>4. QED
  BY <1>1, <1>2, <1>3

\* A position and its parent.
LEMMA Halves ==
  ASSUME NEW j \in Nat
  PROVE  /\ j \div 2 \in Nat
         /\ j = 2 * (j \div 2) \/ j = 2 * (j \div 2) + 1
         /\ j >= 2 => j \div 2 >= 1 /\ j \div 2 < j
OBVIOUS

\* What a round of a sift does to the heap.
LEMMA SwapFacts ==
  ASSUME NEW s \in Sifting, s.at \in DOMAIN s.heap, NEW j \in DOMAIN s.heap, j # s.at
  PROVE  LET t == SwapWith(s, j) IN
         /\ t \in Sifting
         /\ t.at = j
         /\ Len(t.heap) = Len(s.heap)
         /\ DOMAIN t.heap = DOMAIN s.heap
         /\ t.heap[j] = s.heap[s.at]
         /\ t.heap[s.at] = s.heap[j]
         /\ \A i \in DOMAIN s.heap : i # j /\ i # s.at => t.heap[i] = s.heap[i]
<1> DEFINE h == s.heap
           a == s.at
           g == [h EXCEPT ![a] = h[j], ![j] = h[a]]
<1>1. h \in Seq(HeapEntry) /\ a \in Nat
  BY DEF Sifting
<1>2. DOMAIN h = 1..Len(h) /\ Len(h) \in Nat /\ \A i \in 1..Len(h) : h[i] \in HeapEntry
  BY <1>1, HeapType
<1>3. a \in 1..Len(h) /\ j \in 1..Len(h)
  BY <1>2
<1>4. /\ g \in Seq(HeapEntry) /\ Len(g) = Len(h)
      /\ g[j] = h[a] /\ g[a] = h[j]
      /\ \A i \in 1..Len(h) : i # j /\ i # a => g[i] = h[i]
  <2> DEFINE f == [h EXCEPT ![a] = h[j]]
  <2>1. f \in Seq(HeapEntry) /\ Len(f) = Len(h)
        /\ \A i \in 1..Len(h) : f[i] = IF i = a THEN h[j] ELSE h[i]
    BY <1>1, <1>2, <1>3, ExceptSeq
  <2>2. g = [f EXCEPT ![j] = h[a]]
    OBVIOUS
  <2> HIDE DEF f, g
  <2>3. g \in Seq(HeapEntry) /\ Len(g) = Len(f)
        /\ \A i \in 1..Len(f) : g[i] = IF i = j THEN h[a] ELSE f[i]
    BY <1>2, <1>3, <2>1, <2>2, ExceptSeq
  <2>4. QED
    BY <1>3, <2>1, <2>3
<1>5. DOMAIN g = 1..Len(h)
  BY <1>4, HeapType
<1>6. SwapWith(s, j) = [heap |-> g, at |-> j]
  BY DEF SwapWith
<1> HIDE DEF g
<1>7. QED
  BY <1>2, <1>3, <1>4, <1>5, <1>6 DEF Sifting

-----------------------------------------------------------------------------
(* What the rounds of a sift keep *)

\* No parent is rated above a child.
Ordered(h) == \A j \in 2..Len(h) : h[j \div 2].rating <= h[j].rating

\* No player has two entries.
OneEach(h) == \A i, j \in DOMAIN h : h[i].player = h[j].player => i = j

\* The children of the moving entry fit below its parent.
Bridged(s) ==
  \A j \in 2..Len(s.heap) :
    s.at >= 2 /\ j \div 2 = s.at => s.heap[s.at \div 2].rating <= s.heap[j].rating

\* Only the moving entry may be too small for its place.
UpOk(s) ==
  /\ Bridged(s)
  /\ \A j \in 2..Len(s.heap) : j # s.at => s.heap[j \div 2].rating <= s.heap[j].rating

\* Only the moving entry may be too large for its place.
DownOk(s) ==
  /\ Bridged(s)
  /\ \A j \in 2..Len(s.heap) : j \div 2 # s.at => s.heap[j \div 2].rating <= s.heap[j].rating

\* A swap of two positions keeps the set of entries and one entry per player.
LEMMA SwapKeepsEntries ==
  ASSUME NEW s \in Sifting, s.at \in DOMAIN s.heap, NEW j \in DOMAIN s.heap, j # s.at
  PROVE  LET t == SwapWith(s, j) IN
         /\ AsSet(t.heap) = AsSet(s.heap)
         /\ OneEach(s.heap) => OneEach(t.heap)
<1> DEFINE t == SwapWith(s, j)
<1>1. /\ DOMAIN t.heap = DOMAIN s.heap
      /\ t.heap[j] = s.heap[s.at]
      /\ t.heap[s.at] = s.heap[j]
      /\ \A i \in DOMAIN s.heap : i # j /\ i # s.at => t.heap[i] = s.heap[i]
  BY SwapFacts
<1> HIDE DEF t
<1>2. \A i \in DOMAIN s.heap : t.heap[i] \in AsSet(s.heap) /\ s.heap[i] \in AsSet(t.heap)
  BY <1>1 DEF AsSet
<1>3. AsSet(t.heap) = AsSet(s.heap)
  BY <1>1, <1>2 DEF AsSet
<1>4. OneEach(s.heap) => OneEach(t.heap)
  BY <1>1 DEF OneEach
<1>5. QED
  BY <1>3, <1>4 DEF t

\* A round that lifts the entry.
LEMMA RiseKeeps ==
  ASSUME NEW s \in Sifting, s.at \in DOMAIN s.heap, Rises(s), UpOk(s)
  PROVE  UpOk(SwapWith(s, s.at \div 2))
<1> DEFINE h == s.heap
           i == s.at
           p == s.at \div 2
           t == SwapWith(s, p)
           g == t.heap
           n == Len(h)
<1>1. h \in Seq(HeapEntry) /\ DOMAIN h = 1..n /\ n \in Nat
      /\ \A k \in 1..n : h[k].rating \in Nat
  BY HeapType DEF Sifting
<1>2. /\ i \in 2..n /\ p \in 1..n /\ p # i /\ p = i \div 2
      /\ h[i].rating < h[p].rating
  BY <1>1, Halves DEF Rises
<1>3. /\ t.at = p /\ Len(g) = n /\ g[p] = h[i] /\ g[i] = h[p]
      /\ \A k \in 1..n : k # i /\ k # p => g[k] = h[k]
  BY <1>1, <1>2, SwapFacts
<1>4. \A j \in 2..n : j \div 2 \in 1..n /\ j \div 2 # j
  BY <1>1, Halves
<1>5. \A j \in 2..n : j # i => h[j \div 2].rating <= h[j].rating
  BY DEF UpOk
<1>6. \A j \in 2..n : j \div 2 = i => h[p].rating <= h[j].rating
  BY <1>2 DEF UpOk, Bridged
<1> HIDE DEF h, i, p, t, g, n
<1>7. ASSUME NEW j \in 2..n, j # p PROVE g[j \div 2].rating <= g[j].rating
  <2>1. CASE j = i
    BY <1>1, <1>2, <1>3, <2>1
  <2>2. CASE j # i /\ j \div 2 = i
    BY <1>1, <1>2, <1>3, <1>4, <1>6, <1>7, <2>2
  <2>3. CASE j # i /\ j \div 2 = p
    BY <1>1, <1>2, <1>3, <1>4, <1>5, <1>7, <2>3
  <2>4. CASE j # i /\ j \div 2 # i /\ j \div 2 # p
    <3>1. j \in 1..n /\ j \div 2 \in 1..n
      BY <1>1, <1>4
    <3>2. g[j] = h[j] /\ g[j \div 2] = h[j \div 2]
      BY <1>3, <1>7, <2>4, <3>1
    <3>3. QED
      BY <1>5, <2>4, <3>2
  <2>5. QED
    BY <2>1, <2>2, <2>3, <2>4
<1>8. ASSUME NEW j \in 2..n, p >= 2, j \div 2 = p
      PROVE  g[p \div 2].rating <= g[j].rating
  <2>1. p \in 2..n /\ h[p \div 2].rating <= h[p].rating
    BY <1>1, <1>2, <1>5, <1>8
  <2>2. p \div 2 \in 1..n /\ p \div 2 # p /\ p \div 2 # i
    BY <1>1, <1>2, <2>1, Halves
  <2>3. g[p \div 2] = h[p \div 2]
    BY <1>3, <2>2
  <2>4. j # p
    BY <1>4, <1>8
  <2>5. CASE j = i
    BY <1>3, <2>1, <2>3, <2>5
  <2>6. CASE j # i
    <3>1. g[j] = h[j] /\ h[p].rating <= h[j].rating /\ j \in 1..n
      BY <1>3, <1>5, <1>8, <2>4, <2>6
    <3>2. QED
      BY <1>1, <2>1, <2>2, <2>3, <3>1, <1>2
  <2>7. QED
    BY <2>5, <2>6
<1>9. QED
  BY <1>2, <1>3, <1>7, <1>8 DEF UpOk, Bridged, t, g, h, n, i, p

\* The smallest of an entry and its children.
LEMMA SmallestFacts ==
  ASSUME NEW h \in Seq(HeapEntry), NEW i \in DOMAIN h
  PROVE  LET m == SmallestAt(h, i) IN
         /\ m \in DOMAIN h
         /\ m \in {i, 2*i, 2*i + 1}
         /\ \A j \in DOMAIN h : j \in {i, 2*i, 2*i + 1} => h[m].rating <= h[j].rating
<1> DEFINE family == {j \in {i, 2*i, 2*i + 1} : j <= Len(h)}
           least == {j \in family : \A m \in family : h[j].rating <= h[m].rating}
<1>1. /\ DOMAIN h = 1..Len(h) /\ Len(h) \in Nat /\ i \in Nat /\ i >= 1 /\ i \in family
      /\ \A j \in 1..Len(h) : h[j].rating \in Nat
  BY HeapType
<1>2. \A j \in family : j \in DOMAIN h /\ j \in {i, 2*i, 2*i + 1} /\ h[j].rating \in Nat
  BY <1>1
<1>3. \A j \in DOMAIN h : j \in {i, 2*i, 2*i + 1} => j \in family
  BY <1>1
<1>4. PICK a \in family : \A m \in family : h[a].rating <= h[m].rating
  <2> DEFINE T == {h[j].rating : j \in family}
  <2>1. T \in SUBSET Nat /\ T # {}
    BY <1>1, <1>2
  <2> HIDE DEF T
  <2>2. PICK r \in T : \A x \in T : r <= x
    BY <2>1, Least
  <2>3. PICK a \in family : h[a].rating = r
    BY DEF T
  <2>4. \A m \in family : h[m].rating \in T
    BY DEF T
  <2>5. QED
    BY <2>2, <2>3, <2>4
<1>5. least \in SUBSET Nat /\ least # {}
  BY <1>1, <1>2, <1>4
<1>6. PICK b \in least : \A m \in least : b <= m
  <2> HIDE DEF least
  <2>1. QED
    BY <1>5, Least
<1>7. SmallestAt(h, i) = CHOOSE j \in least : \A m \in least : j <= m
  BY DEF SmallestAt
<1>8. SmallestAt(h, i) \in least
  <2> HIDE DEF least
  <2>1. QED
    BY <1>6, <1>7
<1>9. QED
  <2> DEFINE m == SmallestAt(h, i)
  <2>1. m \in family /\ \A j \in family : h[m].rating <= h[j].rating
    BY <1>8
  <2> HIDE DEF m, family, least
  <2>2. m \in DOMAIN h /\ m \in {i, 2*i, 2*i + 1}
    BY <1>2, <2>1
  <2>3. \A j \in DOMAIN h : j \in {i, 2*i, 2*i + 1} => h[m].rating <= h[j].rating
    BY <1>3, <2>1
  <2>4. QED
    BY <2>2, <2>3 DEF m

\* A round that lowers the entry.
LEMMA SinkKeeps ==
  ASSUME NEW s \in Sifting, Sinks(s), DownOk(s)
  PROVE  LET t == SwapWith(s, SmallestAt(s.heap, s.at)) IN
         DownOk(t) /\ s.at < t.at /\ t.at \in DOMAIN s.heap
<1> DEFINE h == s.heap
           i == s.at
           m == SmallestAt(h, i)
           t == SwapWith(s, m)
           g == t.heap
           n == Len(h)
<1>1. h \in Seq(HeapEntry) /\ DOMAIN h = 1..n /\ n \in Nat
      /\ \A k \in 1..n : h[k].rating \in Nat
  BY HeapType DEF Sifting
<1>2. i \in 1..n /\ m # i
  BY <1>1 DEF Sinks
<1>3. /\ m \in 1..n
      /\ m \in {2*i, 2*i + 1}
      /\ \A k \in 1..n : k \in {i, 2*i, 2*i + 1} => h[m].rating <= h[k].rating
  BY <1>1, <1>2, SmallestFacts
<1>4. i < m /\ m \in 2..n /\ m \div 2 = i
  <2>1. m = 2*i \/ m = 2*i + 1
    BY <1>3
  <2>2. i \in Nat /\ i >= 1 /\ m \in Nat /\ m <= n
    BY <1>1, <1>2, <1>3
  <2> HIDE DEF h, i, m, n
  <2>3. QED
    BY <1>1, <2>1, <2>2
<1>5. /\ t.at = m /\ Len(g) = n /\ g[m] = h[i] /\ g[i] = h[m]
      /\ \A k \in 1..n : k # i /\ k # m => g[k] = h[k]
  BY <1>1, <1>2, <1>3, SwapFacts
<1>6. \A j \in 2..n : j \in 1..n /\ j \div 2 \in 1..n /\ j \div 2 # j
                      /\ j \in {2 * (j \div 2), 2 * (j \div 2) + 1}
  <2> HIDE DEF h, i, m, t, g, n
  <2>1. SUFFICES ASSUME NEW j \in 2..n
                 PROVE  /\ j \in 1..n /\ j \div 2 \in 1..n /\ j \div 2 # j
                        /\ j \in {2 * (j \div 2), 2 * (j \div 2) + 1}
    OBVIOUS
  <2>2. j \in Nat /\ 2 <= j /\ j <= n /\ n \in Nat
    BY <1>1, <2>1
  <2>3. /\ j \div 2 \in Nat
        /\ j = 2 * (j \div 2) \/ j = 2 * (j \div 2) + 1
        /\ j \div 2 >= 1 /\ j \div 2 < j
    BY <2>2, Halves
  <2>4. QED
    BY <2>2, <2>3
<1>7. \A j \in 2..n : j \div 2 # i => h[j \div 2].rating <= h[j].rating
  BY DEF DownOk
<1>8. \A j \in 2..n : i >= 2 /\ j \div 2 = i => h[i \div 2].rating <= h[j].rating
  BY DEF DownOk, Bridged
<1> HIDE DEF h, i, m, t, g, n
<1>9. ASSUME NEW j \in 2..n, j \div 2 # m PROVE g[j \div 2].rating <= g[j].rating
  <2>1. j \in 1..n /\ j \div 2 \in 1..n
    BY <1>6
  <2>2. CASE j = i
    <3>1. g[j \div 2] = h[j \div 2] /\ g[j] = h[m]
      BY <1>5, <1>6, <1>9, <2>1, <2>2
    <3>2. h[i \div 2].rating <= h[m].rating
      BY <1>4, <1>8, <2>2
    <3>3. QED
      BY <2>2, <3>1, <3>2
  <2>3. CASE j \div 2 = i
    <3>1. h[m].rating <= h[j].rating
      BY <1>3, <1>6, <2>1, <2>3
    <3>2. g[j \div 2] = h[m]
      BY <1>5, <2>3
    <3>3. CASE j = m
      <4>1. h[m].rating <= h[i].rating
        BY <1>2, <1>3
      <4>2. QED
        BY <1>5, <3>2, <3>3, <4>1
    <3>4. CASE j # m
      <4>1. j # i
        BY <1>6, <2>3
      <4>2. g[j] = h[j]
        BY <1>5, <2>1, <3>4, <4>1
      <4>3. QED
        BY <3>1, <3>2, <4>2
    <3>5. QED
      BY <3>3, <3>4
  <2>4. CASE j # i /\ j \div 2 # i
    <3>1. j # m
      BY <1>4, <2>4
    <3>2. g[j] = h[j] /\ g[j \div 2] = h[j \div 2]
      BY <1>5, <1>9, <2>1, <2>4, <3>1
    <3>3. QED
      BY <1>7, <2>4, <3>2
  <2>5. QED
    BY <2>2, <2>3, <2>4
<1>10. ASSUME NEW j \in 2..n, j \div 2 = m
       PROVE  g[m \div 2].rating <= g[j].rating
  <2>1. g[m \div 2] = h[m]
    BY <1>4, <1>5
  <2>2. j # m /\ j # i /\ j \in 1..n
    BY <1>2, <1>4, <1>6, <1>10
  <2>3. g[j] = h[j]
    BY <1>5, <2>2
  <2>4. h[m].rating <= h[j].rating
    BY <1>2, <1>4, <1>7, <1>10
  <2>5. QED
    BY <2>1, <2>3, <2>4
<1>11. QED
  BY <1>1, <1>3, <1>4, <1>5, <1>9, <1>10 DEF DownOk, Bridged, t, g, h, n, i, m

-----------------------------------------------------------------------------
(* What the sifts compute *)

\* One round of each loop, and the functions LoopRule asks for.
Risen(s) == IF Rises(s) THEN SwapWith(s, s.at \div 2) ELSE s
Sunk(s) == IF Sinks(s) THEN SwapWith(s, SmallestAt(s.heap, s.at)) ELSE s

\* A round of sift_up stays among the loop states.
LEMMA RisenType ==
  ASSUME NEW s \in Sifting
  PROVE  /\ Risen(s) \in Sifting
         /\ Rises(s) => Risen(s).at < s.at /\ s.at \in DOMAIN s.heap
                        /\ s.at \div 2 \in DOMAIN s.heap /\ s.at \div 2 # s.at
<1>1. CASE Rises(s)
  <2>1. s.heap \in Seq(HeapEntry) /\ Len(s.heap) \in Nat /\ DOMAIN s.heap = 1..Len(s.heap)
    BY HeapType DEF Sifting
  <2>2. /\ s.at \in DOMAIN s.heap /\ s.at \div 2 \in DOMAIN s.heap
        /\ s.at \div 2 < s.at /\ s.at \div 2 # s.at
    BY <1>1, <2>1, Halves DEF Rises
  <2>3. SwapWith(s, s.at \div 2) \in Sifting /\ SwapWith(s, s.at \div 2).at = s.at \div 2
    BY <2>2, SwapFacts
  <2>4. QED
    BY <1>1, <2>2, <2>3 DEF Risen
<1>2. CASE ~Rises(s)
  BY <1>2 DEF Risen
<1>3. QED
  BY <1>1, <1>2

\* A round of sift_down stays among the loop states.
LEMMA SunkType ==
  ASSUME NEW s \in Sifting
  PROVE  /\ Sunk(s) \in Sifting
         /\ Sinks(s) => /\ s.at \in DOMAIN s.heap
                        /\ SmallestAt(s.heap, s.at) \in DOMAIN s.heap
                        /\ SmallestAt(s.heap, s.at) # s.at
                        /\ s.at < Sunk(s).at /\ Sunk(s).at \in DOMAIN s.heap
                        /\ Len(Sunk(s).heap) = Len(s.heap)
<1>1. CASE Sinks(s)
  <2> DEFINE m == SmallestAt(s.heap, s.at)
  <2>1. /\ s.heap \in Seq(HeapEntry) /\ Len(s.heap) \in Nat
        /\ DOMAIN s.heap = 1..Len(s.heap) /\ s.at \in DOMAIN s.heap /\ m # s.at
    BY <1>1, HeapType DEF Sifting, Sinks
  <2>2. m \in DOMAIN s.heap /\ m \in {s.at, 2 * s.at, 2 * s.at + 1}
    BY <2>1, SmallestFacts
  <2> HIDE DEF m
  <2>3. s.at < m
    BY <2>1, <2>2
  <2>4. /\ SwapWith(s, m) \in Sifting /\ SwapWith(s, m).at = m
        /\ Len(SwapWith(s, m).heap) = Len(s.heap)
    BY <2>1, <2>2, SwapFacts
  <2>5. Sunk(s) = SwapWith(s, m)
    BY <1>1 DEF Sunk, m
  <2>6. QED
    BY <1>1, <2>1, <2>2, <2>3, <2>4, <2>5 DEF m
<1>2. CASE ~Sinks(s)
  BY <1>2 DEF Sunk
<1>3. QED
  BY <1>1, <1>2

RiseStates == {s \in Sifting : Rises(s)}
SinkStates == {s \in Sifting : Sinks(s)}
RiseStep == [s \in Sifting |-> Risen(s)]
SinkStep == [s \in Sifting |-> Sunk(s)]
RiseRank == [s \in Sifting |-> s.at]
SinkRank == [s \in Sifting |-> IF s.at \in DOMAIN s.heap THEN Len(s.heap) - s.at ELSE 0]

\* sift_up ends: its position decreases with every round.
LEMMA RiseLoop ==
  /\ RiseStates \in SUBSET Sifting
  /\ RiseStep \in [Sifting -> Sifting]
  /\ RiseRank \in [Sifting -> Nat]
  /\ \A s \in RiseStates : RiseRank[RiseStep[s]] < RiseRank[s]
<1>1. RiseStates \in SUBSET Sifting
  BY DEF RiseStates
<1>2. RiseStep \in [Sifting -> Sifting]
  BY RisenType DEF RiseStep
<1>3. RiseRank \in [Sifting -> Nat]
  BY DEF RiseRank, Sifting
<1>4. ASSUME NEW s \in RiseStates PROVE RiseRank[RiseStep[s]] < RiseRank[s]
  <2>1. s \in Sifting /\ Risen(s) \in Sifting /\ Risen(s).at < s.at
    BY RisenType DEF RiseStates
  <2>2. RiseStep[s] = Risen(s) /\ RiseRank[s] = s.at /\ RiseRank[Risen(s)] = Risen(s).at
    BY <2>1 DEF RiseStep, RiseRank
  <2>3. QED
    BY <2>1, <2>2
<1>5. QED
  BY <1>1, <1>2, <1>3, <1>4

\* sift_down ends: its position increases and stays within the heap.
LEMMA SinkLoop ==
  /\ SinkStates \in SUBSET Sifting
  /\ SinkStep \in [Sifting -> Sifting]
  /\ SinkRank \in [Sifting -> Nat]
  /\ \A s \in SinkStates : SinkRank[SinkStep[s]] < SinkRank[s]
<1>1. SinkStates \in SUBSET Sifting
  BY DEF SinkStates
<1>2. SinkStep \in [Sifting -> Sifting]
  BY SunkType DEF SinkStep
<1>3. \A s \in Sifting : DOMAIN s.heap = 1..Len(s.heap) /\ Len(s.heap) \in Nat /\ s.at \in Nat
  BY HeapType DEF Sifting
<1>4. SinkRank \in [Sifting -> Nat]
  BY <1>3 DEF SinkRank
<1>5. ASSUME NEW s \in SinkStates PROVE SinkRank[SinkStep[s]] < SinkRank[s]
  <2>1. /\ s \in Sifting /\ Sunk(s) \in Sifting /\ s.at \in DOMAIN s.heap
        /\ s.at < Sunk(s).at /\ Sunk(s).at \in DOMAIN s.heap
        /\ Len(Sunk(s).heap) = Len(s.heap)
    BY SunkType DEF SinkStates
  <2>2. SinkStep[s] = Sunk(s) /\ SinkRank[s] = Len(s.heap) - s.at
    BY <2>1 DEF SinkStep, SinkRank
  <2>3. DOMAIN Sunk(s).heap = DOMAIN s.heap
    BY <1>3, <2>1
  <2>4. SinkRank[Sunk(s)] = Len(s.heap) - Sunk(s).at
    BY <2>1, <2>3 DEF SinkRank
  <2>5. Len(s.heap) \in Nat /\ s.at \in Nat /\ Sunk(s).at \in Nat
    BY <1>3, <2>1
  <2>6. QED
    BY <2>1, <2>2, <2>4, <2>5
<1>6. QED
  BY <1>1, <1>2, <1>4, <1>5

\* SiftUp is the loop it is defined as.
LEMMA SiftUpEquation == Computes(SiftUp, Sifting, RiseStates, RiseStep)
<1>0. PICK f : Computes(f, Sifting, RiseStates, RiseStep)
  BY RiseLoop, LoopDefined
<1> DEFINE Body(g) == [s \in Sifting |->
             IF s.at \in 2..Len(s.heap) /\ s.heap[s.at].rating < s.heap[s.at \div 2].rating
             THEN g[SwapWith(s, s.at \div 2)] ELSE s]
           Loop(g) == [s \in Sifting |-> IF s \in RiseStates THEN g[RiseStep[s]] ELSE s]
<1>1. ASSUME NEW g PROVE Body(g) = Loop(g)
  BY DEF RiseStates, RiseStep, Risen, Rises
<1>2. SiftUp = CHOOSE g : g = Body(g)
  BY DEF SiftUp
<1>3. f = Loop(f)
  BY <1>0 DEF Computes
<1>4. f = Body(f)
  BY <1>1, <1>3
<1> HIDE DEF Body, Loop
<1>5. SiftUp = Body(SiftUp)
  BY <1>2, <1>4
<1>6. SiftUp = Loop(SiftUp)
  BY <1>1, <1>5
<1>7. QED
  BY <1>6 DEF Loop, Computes

\* SiftDown is the loop it is defined as.
LEMMA SiftDownEquation == Computes(SiftDown, Sifting, SinkStates, SinkStep)
<1>0. PICK f : Computes(f, Sifting, SinkStates, SinkStep)
  BY SinkLoop, LoopDefined
<1> DEFINE Body(g) == [s \in Sifting |->
             IF s.at \in DOMAIN s.heap /\ SmallestAt(s.heap, s.at) # s.at
             THEN g[SwapWith(s, SmallestAt(s.heap, s.at))] ELSE s]
           Loop(g) == [s \in Sifting |-> IF s \in SinkStates THEN g[SinkStep[s]] ELSE s]
<1>1. ASSUME NEW g PROVE Body(g) = Loop(g)
  BY DEF SinkStates, SinkStep, Sunk, Sinks
<1>2. SiftDown = CHOOSE g : g = Body(g)
  BY DEF SiftDown
<1>3. f = Loop(f)
  BY <1>0 DEF Computes
<1>4. f = Body(f)
  BY <1>1, <1>3
<1> HIDE DEF Body, Loop
<1>5. SiftDown = Body(SiftDown)
  BY <1>2, <1>4
<1>6. SiftDown = Loop(SiftDown)
  BY <1>1, <1>5
<1>7. QED
  BY <1>6 DEF Loop, Computes

\* t holds the entries of s, and the moving one is the same.
Carries(t, s) ==
  /\ t \in Sifting
  /\ t.at \in DOMAIN t.heap
  /\ t.heap[t.at] = s.heap[s.at]
  /\ Len(t.heap) = Len(s.heap)
  /\ AsSet(t.heap) = AsSet(s.heap)
  /\ OneEach(t.heap)

\* A round of either sift carries the entries along and moves none off the heap.
LEMMA SwapCarries ==
  ASSUME NEW s, NEW t, Carries(t, s), NEW j \in DOMAIN t.heap, j # t.at
  PROVE  Carries(SwapWith(t, j), s)
<1>1. t \in Sifting /\ t.at \in DOMAIN t.heap
  BY DEF Carries
<1> DEFINE u == SwapWith(t, j)
<1>2. /\ u \in Sifting /\ u.at = j /\ Len(u.heap) = Len(t.heap)
      /\ DOMAIN u.heap = DOMAIN t.heap /\ u.heap[j] = t.heap[t.at]
  BY <1>1, SwapFacts
<1>3. AsSet(u.heap) = AsSet(t.heap) /\ (OneEach(t.heap) => OneEach(u.heap))
  BY <1>1, SwapKeepsEntries
<1> HIDE DEF u
<1>4. Carries(u, s)
  BY <1>2, <1>3 DEF Carries
<1>5. QED
  BY <1>4 DEF u

\* Sifting up an entry that may be too small for its place restores the heap.
LEMMA SiftUpGood ==
  ASSUME NEW s \in Sifting, Carries(s, s), UpOk(s)
  PROVE  Carries(SiftUp[s], s) /\ Ordered(SiftUp[s].heap)
<1> DEFINE Inv == {t \in Sifting : Carries(t, s) /\ UpOk(t)}
<1>1. Inv \in SUBSET Sifting /\ s \in Inv
  OBVIOUS
<1>2. ASSUME NEW t \in Inv, t \in RiseStates PROVE RiseStep[t] \in Inv
  <2>1. /\ t \in Sifting /\ Rises(t) /\ Carries(t, s) /\ UpOk(t)
        /\ t.at \in DOMAIN t.heap
    BY <1>2 DEF RiseStates, Carries
  <2>2. RiseStep[t] = SwapWith(t, t.at \div 2)
    BY <2>1 DEF RiseStep, Risen
  <2>3. t.at \div 2 \in DOMAIN t.heap /\ t.at \div 2 # t.at
    BY <2>1, RisenType
  <2>4. Carries(RiseStep[t], s)
    BY <2>1, <2>2, <2>3, SwapCarries
  <2>5. UpOk(RiseStep[t])
    BY <2>1, <2>2, RiseKeeps
  <2>6. QED
    BY <2>4, <2>5 DEF Carries
<1> HIDE DEF Inv
<1>3. SiftUp[s] \in Inv \ RiseStates
  BY <1>1, <1>2, RiseLoop, SiftUpEquation, LoopRule
<1> DEFINE t == SiftUp[s]
<1>4. t \in Sifting /\ Carries(t, s) /\ UpOk(t) /\ ~Rises(t)
  BY <1>3 DEF Inv, RiseStates
<1> HIDE DEF t
<1>5. /\ Len(t.heap) \in Nat /\ DOMAIN t.heap = 1..Len(t.heap)
      /\ \A i \in 1..Len(t.heap) : t.heap[i].rating \in Nat
  BY <1>4, HeapType DEF Sifting
<1>6. ASSUME NEW j \in 2..Len(t.heap) PROVE t.heap[j \div 2].rating <= t.heap[j].rating
  <2>1. CASE j # t.at
    BY <1>4, <2>1 DEF UpOk
  <2>2. CASE j = t.at
    <3>1. j \in 1..Len(t.heap) /\ j \div 2 \in 1..Len(t.heap)
      BY <1>5, Halves
    <3>2. ~(t.heap[j].rating < t.heap[j \div 2].rating)
      BY <1>4, <2>2 DEF Rises
    <3>3. QED
      BY <1>5, <3>1, <3>2
  <2>3. QED
    BY <2>1, <2>2
<1>7. QED
  BY <1>4, <1>6 DEF Ordered, t

\* Sifting down an entry that may be too large for its place restores the heap.
LEMMA SiftDownGood ==
  ASSUME NEW s \in Sifting, Carries(s, s), DownOk(s)
  PROVE  Carries(SiftDown[s], s) /\ Ordered(SiftDown[s].heap)
<1> DEFINE Inv == {t \in Sifting : Carries(t, s) /\ DownOk(t)}
<1>1. Inv \in SUBSET Sifting /\ s \in Inv
  OBVIOUS
<1>2. ASSUME NEW t \in Inv, t \in SinkStates PROVE SinkStep[t] \in Inv
  <2>1. t \in Sifting /\ Sinks(t) /\ Carries(t, s) /\ DownOk(t)
    BY <1>2 DEF SinkStates
  <2>2. SinkStep[t] = SwapWith(t, SmallestAt(t.heap, t.at))
    BY <2>1 DEF SinkStep, Sunk
  <2>3. SmallestAt(t.heap, t.at) \in DOMAIN t.heap /\ SmallestAt(t.heap, t.at) # t.at
    BY <2>1, SunkType
  <2>4. Carries(SinkStep[t], s)
    BY <2>1, <2>2, <2>3, SwapCarries
  <2>5. DownOk(SinkStep[t])
    BY <2>1, <2>2, SinkKeeps
  <2>6. QED
    BY <2>4, <2>5 DEF Carries
<1> HIDE DEF Inv
<1>3. SiftDown[s] \in Inv \ SinkStates
  BY <1>1, <1>2, SinkLoop, SiftDownEquation, LoopRule
<1> DEFINE t == SiftDown[s]
<1>4. t \in Sifting /\ Carries(t, s) /\ DownOk(t) /\ ~Sinks(t)
  BY <1>3 DEF Inv, SinkStates
<1> HIDE DEF t
<1>5. t.heap \in Seq(HeapEntry) /\ t.at \in DOMAIN t.heap /\ SmallestAt(t.heap, t.at) = t.at
  BY <1>4 DEF Sifting, Carries, Sinks
<1>6. \A j \in DOMAIN t.heap :
        j \in {2 * t.at, 2 * t.at + 1} => t.heap[t.at].rating <= t.heap[j].rating
  BY <1>5, SmallestFacts
<1>7. ASSUME NEW j \in 2..Len(t.heap) PROVE t.heap[j \div 2].rating <= t.heap[j].rating
  <2>1. CASE j \div 2 # t.at
    BY <1>4, <2>1 DEF DownOk
  <2>2. CASE j \div 2 = t.at
    <3>1. j \in Nat /\ j \in DOMAIN t.heap
      BY <1>5, HeapType
    <3>2. j \in {2 * t.at, 2 * t.at + 1}
      BY <2>2, <3>1, Halves
    <3>3. QED
      BY <1>6, <2>2, <3>1, <3>2
  <2>3. QED
    BY <2>1, <2>2
<1>8. QED
  BY <1>4, <1>7 DEF Ordered, t

-----------------------------------------------------------------------------
(* What upsert does to a board *)

\* The root of a heap is a weakest entry.
LEMMA RootIsWeakest ==
  ASSUME NEW h \in Seq(HeapEntry), Ordered(h), NEW i \in DOMAIN h
  PROVE  1 \in DOMAIN h /\ h[1].rating <= h[i].rating
<1>1. /\ DOMAIN h = 1..Len(h) /\ Len(h) \in Nat
      /\ \A j \in 1..Len(h) : h[j].rating \in Nat
  BY HeapType
<1>2. 1 \in DOMAIN h
  BY <1>1
<1> DEFINE bad == {j \in DOMAIN h : ~(h[1].rating <= h[j].rating)}
<1>3. SUFFICES ASSUME bad # {} PROVE FALSE
  BY <1>2
<1>4. bad \in SUBSET Nat
  BY <1>1
<1>5. PICK m \in bad : \A j \in bad : m <= j
  <2> HIDE DEF bad
  <2>1. QED
    BY <1>3, <1>4, Least
<1>6. m \in 2..Len(h)
  BY <1>1, <1>5
<1>7. m \div 2 \in DOMAIN h /\ m \div 2 < m /\ m \div 2 \in Nat
  BY <1>1, <1>6, Halves
<1>8. h[m \div 2].rating <= h[m].rating
  BY <1>6 DEF Ordered
<1>9. m \div 2 \notin bad
  BY <1>4, <1>5, <1>7
<1>10. h[1].rating <= h[m \div 2].rating
  BY <1>7, <1>9
<1>11. h[1].rating \in Nat /\ h[m \div 2].rating \in Nat /\ h[m].rating \in Nat
  BY <1>1, <1>2, <1>6, <1>7
<1>12. h[1].rating <= h[m].rating
  BY <1>8, <1>10, <1>11
<1>13. QED
  BY <1>5, <1>12

\* What a write of one entry does to the heap.
LEMMA PlacedFacts ==
  ASSUME NEW h \in Seq(HeapEntry), NEW i \in DOMAIN h, NEW e \in HeapEntry
  PROVE  LET s == Placed(h, i, e) IN
         /\ s \in Sifting
         /\ s.at = i
         /\ s.heap[i] = e
         /\ Len(s.heap) = Len(h)
         /\ DOMAIN s.heap = DOMAIN h
         /\ \A j \in DOMAIN h : j # i => s.heap[j] = h[j]
<1> DEFINE g == [h EXCEPT ![i] = e]
<1>1. DOMAIN h = 1..Len(h) /\ Len(h) \in Nat /\ i \in 1..Len(h) /\ i \in Nat
  BY HeapType
<1>2. /\ g \in Seq(HeapEntry) /\ Len(g) = Len(h)
      /\ \A j \in 1..Len(h) : g[j] = IF j = i THEN e ELSE h[j]
  BY <1>1, ExceptSeq
<1>3. Placed(h, i, e) = [heap |-> g, at |-> i]
  BY DEF Placed
<1> HIDE DEF g
<1>4. DOMAIN g = 1..Len(h)
  BY <1>2, HeapType
<1>5. QED
  BY <1>1, <1>2, <1>3, <1>4 DEF Sifting

\* An entry is written where no other entry of its player is.
LEMMA PlacedCarries ==
  ASSUME NEW h \in Seq(HeapEntry), NEW i \in DOMAIN h, NEW e \in HeapEntry,
         OneEach(h), \A j \in DOMAIN h : h[j].player = e.player => j = i
  PROVE  /\ Carries(Placed(h, i, e), Placed(h, i, e))
         /\ AsSet(Placed(h, i, e).heap) = (AsSet(h) \ {h[i]}) \cup {e}
<1> DEFINE s == Placed(h, i, e)
<1>1. /\ s \in Sifting /\ s.at = i /\ s.heap[i] = e /\ DOMAIN s.heap = DOMAIN h
      /\ \A j \in DOMAIN h : j # i => s.heap[j] = h[j]
  BY PlacedFacts
<1> HIDE DEF s
<1>2. OneEach(s.heap)
  BY <1>1 DEF OneEach
<1>3. \A j \in DOMAIN h : h[j] = h[i] => j = i
  BY DEF OneEach
<1>4. AsSet(s.heap) = (AsSet(h) \ {h[i]}) \cup {e}
  BY <1>1, <1>3 DEF AsSet
<1>5. Carries(s, s)
  BY <1>1, <1>2 DEF Carries
<1>6. QED
  BY <1>4, <1>5 DEF s

\* In a heap no entry is out of order, wherever a sift stands.
LEMMA OrderedDownOk ==
  ASSUME NEW s \in Sifting, s.at \in DOMAIN s.heap, Ordered(s.heap)
  PROVE  DownOk(s)
<1>1. /\ Len(s.heap) \in Nat /\ DOMAIN s.heap = 1..Len(s.heap)
      /\ \A i \in 1..Len(s.heap) : s.heap[i].rating \in Nat
  BY HeapType DEF Sifting
<1>2. ASSUME NEW j \in 2..Len(s.heap), s.at >= 2, j \div 2 = s.at
      PROVE  s.heap[s.at \div 2].rating <= s.heap[j].rating
  <2>1. s.at \in 2..Len(s.heap) /\ s.at \div 2 \in 1..Len(s.heap) /\ j \in 1..Len(s.heap)
    BY <1>1, <1>2, Halves
  <2>2. s.heap[s.at \div 2].rating <= s.heap[s.at].rating
    BY <2>1 DEF Ordered
  <2>3. s.heap[s.at].rating <= s.heap[j].rating
    BY <1>2 DEF Ordered
  <2>4. QED
    BY <1>1, <2>1, <2>2, <2>3
<1>3. QED
  BY <1>2 DEF DownOk, Bridged, Ordered

\* Writing a smaller entry: only its parent may be in the way.
LEMMA LoweredUpOk ==
  ASSUME NEW h \in Seq(HeapEntry), Ordered(h), NEW i \in DOMAIN h, NEW e \in HeapEntry,
         e.rating <= h[i].rating
  PROVE  UpOk(Placed(h, i, e))
<1> DEFINE s == Placed(h, i, e)
           g == s.heap
<1>1. /\ Len(h) \in Nat /\ DOMAIN h = 1..Len(h)
      /\ \A k \in 1..Len(h) : h[k].rating \in Nat
  BY HeapType
<1>2. /\ s.at = i /\ g[i] = e /\ Len(g) = Len(h)
      /\ \A k \in 1..Len(h) : k # i => g[k] = h[k]
  <2>1. s.at = i /\ g[i] = e /\ Len(g) = Len(h) /\ \A k \in DOMAIN h : k # i => g[k] = h[k]
    BY PlacedFacts
  <2> HIDE DEF s, g
  <2>2. QED
    BY <1>1, <2>1
<1>3. e.rating \in Nat
  BY DEF HeapEntry
<1> HIDE DEF s, g
<1>4. \A j \in 2..Len(h) : j \in 1..Len(h) /\ j \div 2 \in 1..Len(h) /\ j \div 2 # j
                           /\ h[j \div 2].rating <= h[j].rating
  BY <1>1, Halves DEF Ordered
<1>5. ASSUME NEW j \in 2..Len(h), j # i PROVE g[j \div 2].rating <= g[j].rating
  <2>1. g[j] = h[j] /\ h[j \div 2].rating <= h[j].rating
    BY <1>2, <1>4, <1>5
  <2>2. CASE j \div 2 = i
    <3>1. e.rating <= h[j].rating
      BY <1>1, <1>3, <1>4, <2>1, <2>2
    <3>2. QED
      BY <1>2, <2>1, <2>2, <3>1
  <2>3. CASE j \div 2 # i
    BY <1>2, <1>4, <2>1, <2>3
  <2>4. QED
    BY <2>2, <2>3
<1>6. ASSUME NEW j \in 2..Len(h), i >= 2, j \div 2 = i
      PROVE  g[i \div 2].rating <= g[j].rating
  <2>1. i \in 2..Len(h)
    BY <1>1, <1>6
  <2>2. h[i \div 2].rating <= h[i].rating /\ h[i].rating <= h[j].rating
    BY <1>4, <1>6, <2>1
  <2>3. g[i \div 2] = h[i \div 2] /\ g[j] = h[j]
    BY <1>2, <1>4, <1>6, <2>1
  <2>4. h[i \div 2].rating \in Nat /\ h[i].rating \in Nat /\ h[j].rating \in Nat
    BY <1>1, <1>4, <2>1
  <2>5. QED
    BY <2>2, <2>3, <2>4
<1>7. QED
  BY <1>2, <1>5, <1>6 DEF UpOk, Bridged, g, s

\* Writing a larger entry: only its children may be in the way.
LEMMA RaisedDownOk ==
  ASSUME NEW h \in Seq(HeapEntry), Ordered(h), NEW i \in DOMAIN h, NEW e \in HeapEntry,
         h[i].rating <= e.rating
  PROVE  DownOk(Placed(h, i, e)) /\ ~Rises(Placed(h, i, e))
<1> DEFINE s == Placed(h, i, e)
           g == s.heap
<1>1. /\ Len(h) \in Nat /\ DOMAIN h = 1..Len(h)
      /\ \A k \in 1..Len(h) : h[k].rating \in Nat
  BY HeapType
<1>2. /\ s.at = i /\ g[i] = e /\ Len(g) = Len(h)
      /\ \A k \in 1..Len(h) : k # i => g[k] = h[k]
  <2>1. s.at = i /\ g[i] = e /\ Len(g) = Len(h) /\ \A k \in DOMAIN h : k # i => g[k] = h[k]
    BY PlacedFacts
  <2> HIDE DEF s, g
  <2>2. QED
    BY <1>1, <2>1
<1>3. e.rating \in Nat
  BY DEF HeapEntry
<1> HIDE DEF s, g
<1>4. \A j \in 2..Len(h) : j \in 1..Len(h) /\ j \div 2 \in 1..Len(h) /\ j \div 2 # j
                           /\ h[j \div 2].rating <= h[j].rating
  BY <1>1, Halves DEF Ordered
<1>5. ASSUME NEW j \in 2..Len(h), j \div 2 # i PROVE g[j \div 2].rating <= g[j].rating
  <2>1. g[j \div 2] = h[j \div 2] /\ h[j \div 2].rating <= h[j].rating
        /\ h[j \div 2].rating \in Nat /\ h[j].rating \in Nat
    BY <1>1, <1>2, <1>4, <1>5
  <2>2. CASE j = i
    BY <1>2, <1>3, <2>1, <2>2
  <2>3. CASE j # i
    BY <1>2, <1>4, <2>1, <2>3
  <2>4. QED
    BY <2>2, <2>3
<1>6. ASSUME NEW j \in 2..Len(h), i >= 2, j \div 2 = i
      PROVE  g[i \div 2].rating <= g[j].rating
  <2>1. i \in 2..Len(h)
    BY <1>1, <1>6
  <2>2. h[i \div 2].rating <= h[i].rating /\ h[i].rating <= h[j].rating
    BY <1>4, <1>6, <2>1
  <2>3. g[i \div 2] = h[i \div 2] /\ g[j] = h[j]
    BY <1>2, <1>4, <1>6, <2>1
  <2>4. h[i \div 2].rating \in Nat /\ h[i].rating \in Nat /\ h[j].rating \in Nat
    BY <1>1, <1>4, <2>1
  <2>5. QED
    BY <2>2, <2>3, <2>4
<1>7. ~Rises(s)
  <2>1. SUFFICES ASSUME i \in 2..Len(h), g[i].rating < g[i \div 2].rating PROVE FALSE
    BY <1>2 DEF Rises, g
  <2>2. g[i \div 2] = h[i \div 2] /\ h[i \div 2].rating <= h[i].rating
        /\ h[i \div 2].rating \in Nat /\ h[i].rating \in Nat
    BY <1>1, <1>2, <1>4, <2>1
  <2>3. QED
    BY <1>2, <1>3, <2>1, <2>2
<1>8. QED
  BY <1>2, <1>5, <1>6, <1>7 DEF DownOk, Bridged, g, s

\* What two rounds in a row carry along.
LEMMA CarriesOn ==
  ASSUME NEW s, NEW t, NEW u, Carries(t, s), Carries(u, t)
  PROVE  Carries(u, s)
BY DEF Carries

\* A heap with the entry of e's player replaced by e.
Rewritten(g, h, e) ==
  /\ g \in Seq(HeapEntry) /\ Len(g) = Len(h) /\ Ordered(g) /\ OneEach(g)
  /\ AsSet(g) = {f \in AsSet(h) : f.player # e.player} \cup {e}

\* A member's entry is rewritten and sifted: the others keep theirs.
LEMMA MemberRewritten ==
  ASSUME NEW h \in Seq(HeapEntry), Ordered(h), OneEach(h), NEW e \in HeapEntry,
         OnHeap(h, e.player)
  PROVE  Rewritten(SiftDown[SiftUp[Placed(h, PositionOf(h, e.player), e)]].heap, h, e)
<1> DEFINE i == PositionOf(h, e.player)
           s == Placed(h, i, e)
           t == SiftUp[s]
           u == SiftDown[t]
<1>1. i \in DOMAIN h /\ h[i].player = e.player
  BY DEF OnHeap, PositionOf
<1>2. \A j \in DOMAIN h : h[j].player = e.player => j = i
  BY <1>1 DEF OneEach
<1>3. s \in Sifting /\ Len(s.heap) = Len(h)
  BY <1>1, PlacedFacts
<1> HIDE DEF i
<1>4. Carries(s, s) /\ AsSet(s.heap) = (AsSet(h) \ {h[i]}) \cup {e}
  BY <1>1, <1>2, PlacedCarries
<1>5. AsSet(h) \ {h[i]} = {f \in AsSet(h) : f.player # e.player}
  BY <1>1, <1>2 DEF AsSet
<1>6. h[i].rating \in Nat /\ e.rating \in Nat
  BY <1>1, HeapType DEF HeapEntry
<1>7. Carries(u, s) /\ Ordered(u.heap)
  <2>1. CASE e.rating <= h[i].rating
    <3>1. UpOk(s)
      BY <1>1, <2>1, LoweredUpOk
    <3> HIDE DEF s
    <3>2. Carries(t, s) /\ Ordered(t.heap)
      BY <1>3, <1>4, <3>1, SiftUpGood
    <3> HIDE DEF t
    <3>3. t \in Sifting /\ t.at \in DOMAIN t.heap /\ Carries(t, t)
      BY <3>2 DEF Carries
    <3>4. DownOk(t)
      BY <3>2, <3>3, OrderedDownOk
    <3>5. Carries(u, t) /\ Ordered(u.heap)
      BY <3>3, <3>4, SiftDownGood
    <3>6. QED
      BY <3>2, <3>5, CarriesOn
  <2>2. CASE h[i].rating <= e.rating
    <3>1. DownOk(s) /\ ~Rises(s)
      BY <1>1, <2>2, RaisedDownOk
    <3> HIDE DEF s
    <3>2. t = s
      BY <1>3, <3>1, SiftUpEquation DEF Computes, RiseStates
    <3> HIDE DEF t
    <3>3. QED
      BY <1>3, <1>4, <3>1, <3>2, SiftDownGood
  <2>3. QED
    BY <1>6, <2>1, <2>2
<1> HIDE DEF s, t, u
<1>8. Rewritten(u.heap, h, e)
  BY <1>3, <1>4, <1>5, <1>7 DEF Rewritten, Carries, Sifting
<1>9. QED
  BY <1>8 DEF u, t, s, i

\* A newcomer is pushed onto a board with room.
LEMMA NewcomerPushed ==
  ASSUME NEW h \in Seq(HeapEntry), Ordered(h), OneEach(h), NEW e \in HeapEntry,
         ~OnHeap(h, e.player)
  PROVE  LET g == SiftUp[[heap |-> Append(h, e), at |-> Len(h) + 1]].heap IN
         /\ g \in Seq(HeapEntry) /\ Len(g) = Len(h) + 1 /\ Ordered(g) /\ OneEach(g)
         /\ AsSet(g) = AsSet(h) \cup {e}
<1> DEFINE n == Len(h)
           a == Append(h, e)
           s == [heap |-> a, at |-> n + 1]
           t == SiftUp[s]
<1>1. n \in Nat /\ DOMAIN h = 1..n
  BY HeapType
<1>2. /\ a \in Seq(HeapEntry) /\ Len(a) = n + 1 /\ a[n + 1] = e
      /\ \A j \in 1..n : a[j] = h[j]
  BY AppendProperties
<1> HIDE DEF a
<1>3. DOMAIN a = 1..n + 1
  BY <1>1, <1>2, HeapType
<1>4. s \in Sifting /\ s.heap = a /\ s.at = n + 1
  BY <1>1, <1>2 DEF Sifting
<1>5. \A j \in 1..n : h[j].player # e.player
  BY <1>1 DEF OnHeap
<1>6. OneEach(a)
  <2>1. ASSUME NEW i \in 1..n + 1, NEW j \in 1..n + 1, a[i].player = a[j].player PROVE i = j
    <3>1. CASE i \in 1..n /\ j \in 1..n
      BY <1>1, <1>2, <2>1, <3>1 DEF OneEach
    <3>2. CASE i = n + 1 \/ j = n + 1
      BY <1>1, <1>2, <1>5, <2>1, <3>2
    <3>3. QED
      BY <1>1, <3>1, <3>2
  <2>2. QED
    BY <1>3, <2>1 DEF OneEach
<1>7. AsSet(a) = AsSet(h) \cup {e}
  <2>1. 1..n + 1 = 1..n \cup {n + 1}
    BY <1>1
  <2>2. QED
    BY <1>1, <1>2, <1>3, <2>1 DEF AsSet
<1> HIDE DEF s, n
<1>8. Carries(s, s)
  BY <1>1, <1>3, <1>4, <1>6 DEF Carries
<1>9. UpOk(s)
  <2>1. \A j \in 2..n + 1 : j \div 2 \in Nat /\ j \div 2 >= 1 /\ j \div 2 < j
    BY <1>1, Halves
  <2>2. ASSUME NEW j \in 2..n + 1, j # n + 1 PROVE a[j \div 2].rating <= a[j].rating
    <3>1. j \in 2..n /\ j \in 1..n /\ j \div 2 \in 1..n
      BY <1>1, <2>1, <2>2
    <3>2. h[j \div 2].rating <= h[j].rating
      BY <3>1 DEF Ordered, n
    <3>3. QED
      BY <1>2, <3>1, <3>2
  <2>3. \A j \in 2..n + 1 : j \div 2 # n + 1
    BY <1>1, <2>1
  <2>4. QED
    BY <1>2, <1>4, <2>2, <2>3 DEF UpOk, Bridged
<1>10. Carries(t, s) /\ Ordered(t.heap)
  BY <1>4, <1>8, <1>9, SiftUpGood
<1> HIDE DEF t
<1>11. /\ t.heap \in Seq(HeapEntry) /\ Len(t.heap) = n + 1 /\ Ordered(t.heap)
       /\ OneEach(t.heap) /\ AsSet(t.heap) = AsSet(h) \cup {e}
  BY <1>2, <1>4, <1>7, <1>10 DEF Carries, Sifting
<1>12. QED
  BY <1>11 DEF t, s, a, n

\* A newcomer that beats the root of a full board takes its place.
LEMMA RootEvicted ==
  ASSUME NEW h \in Seq(HeapEntry), Ordered(h), OneEach(h), NEW e \in HeapEntry,
         ~OnHeap(h, e.player), 1 \in DOMAIN h, BeatsRoot(h, e)
  PROVE  LET g == SiftDown[Placed(h, 1, e)].heap IN
         /\ g \in Seq(HeapEntry) /\ Len(g) = Len(h) /\ Ordered(g) /\ OneEach(g)
         /\ AsSet(g) = (AsSet(h) \ {h[1]}) \cup {e}
<1> DEFINE s == Placed(h, 1, e)
           t == SiftDown[s]
<1>1. \A j \in DOMAIN h : h[j].player = e.player => j = 1
  BY DEF OnHeap
<1>2. Carries(s, s) /\ AsSet(s.heap) = (AsSet(h) \ {h[1]}) \cup {e}
  BY <1>1, PlacedCarries
<1>3. s \in Sifting /\ Len(s.heap) = Len(h)
  BY PlacedFacts
<1>4. h[1].rating \in Nat /\ e.rating \in Nat
  BY HeapType DEF HeapEntry
<1>5. h[1].rating <= e.rating
  BY <1>4 DEF BeatsRoot
<1>6. DownOk(s)
  BY <1>5, RaisedDownOk
<1> HIDE DEF s
<1>7. Carries(t, s) /\ Ordered(t.heap)
  BY <1>2, <1>3, <1>6, SiftDownGood
<1> HIDE DEF t
<1>8. /\ t.heap \in Seq(HeapEntry) /\ Len(t.heap) = Len(h) /\ Ordered(t.heap)
      /\ OneEach(t.heap) /\ AsSet(t.heap) = (AsSet(h) \ {h[1]}) \cup {e}
  BY <1>2, <1>3, <1>7 DEF Carries, Sifting
<1>9. QED
  BY <1>8 DEF t, s

\* A board in play: at most capacity entries, one for each player, in heap order.
GoodBoard(board) ==
  /\ board \in Board
  /\ Len(board.heap) <= board.capacity
  /\ Ordered(board.heap)
  /\ OneEach(board.heap)

\* The entries of a heap are as many as its length.
LEMMA EntriesCounted ==
  ASSUME NEW h \in Seq(HeapEntry), OneEach(h)
  PROVE  Cardinality(AsSet(h)) = Len(h) /\ IsFiniteSet(AsSet(h))
<1>1. DOMAIN h = 1..Len(h) /\ Len(h) \in Nat
  BY HeapType
<1>2. h \in Bijection(1..Len(h), AsSet(h))
  BY <1>1 DEF OneEach, AsSet, Bijection, Injection, Surjection, IsInjective
<1>3. ExistsBijection(1..Len(h), AsSet(h))
  BY <1>2 DEF ExistsBijection
<1>4. QED
  BY <1>1, <1>3, FS_CountingElements, FS_NatBijection

-----------------------------------------------------------------------------
(* The offer TopBoards makes of an upsert *)

\* What a board owes to the player whose entry e it is offered, and to the others:
\* nobody else is rated anew, and whoever is off a board with room was never on it.
Upserted(board, old, e) ==
  /\ GoodBoard(board)
  /\ board.capacity = old.capacity
  /\ Len(old.heap) <= Len(board.heap)
  /\ AsSet(board.heap) \subseteq {f \in AsSet(old.heap) : f.player # e.player} \cup {e}
  /\ e \in AsSet(board.heap) \/ Len(board.heap) = board.capacity
  /\ \A f \in AsSet(old.heap) :
       \/ f \in AsSet(board.heap)
       \/ f.player = e.player
       \/ Len(board.heap) = board.capacity
  /\ AsSet(board.heap) \in Top!Offered(AsSet(old.heap), old.capacity, e)

\* A board with another heap.
LEMMA BoardExcept ==
  ASSUME NEW board \in Board, NEW g \in Seq(HeapEntry)
  PROVE  LET new == [board EXCEPT !.heap = g] IN
         new \in Board /\ new.capacity = board.capacity /\ new.heap = g
BY DEF Board

\* Leaving out a player who is not on the heap changes nothing.
LEMMA NotOnHeap ==
  ASSUME NEW h \in Seq(HeapEntry), NEW p, ~OnHeap(h, p)
  PROVE  {f \in AsSet(h) : f.player # p} = AsSet(h)
BY DEF OnHeap, AsSet

\* Leaving out a player who is on the heap changes something.
LEMMA OnHeapEntry ==
  ASSUME NEW h \in Seq(HeapEntry), NEW p, OnHeap(h, p)
  PROVE  {f \in AsSet(h) : f.player # p} # AsSet(h)
BY DEF OnHeap, AsSet

\* TopBoards counts as the heap does.
LEMMA SameCount == ASSUME NEW S PROVE Top!Cardinality(S) = Cardinality(S)
BY DEF Cardinality, Top!Cardinality

\* TopBoards: a member is rated anew.
LEMMA OfferedMember ==
  ASSUME NEW S, NEW c, NEW e, {f \in S : f.player # e.player} # S
  PROVE  {f \in S : f.player # e.player} \cup {e} \in Top!Offered(S, c, e)
BY DEF Top!Offered

\* TopBoards: a newcomer finds room.
LEMMA OfferedRoom ==
  ASSUME NEW S, NEW c, NEW e, Cardinality(S) < c
  PROVE  {f \in S : f.player # e.player} \cup {e} \in Top!Offered(S, c, e)
BY SameCount DEF Top!Offered

\* TopBoards: a newcomer takes the place of a weakest entry it beats.
LEMMA OfferedFull ==
  ASSUME NEW S, NEW c, NEW e, {f \in S : f.player # e.player} = S, ~(Cardinality(S) < c),
         NEW w \in S, \A f \in S : w.rating <= f.rating, w.rating < e.rating
  PROVE  (S \ {w}) \cup {e} \in Top!Offered(S, c, e)
<1>1. w \in Top!Weakest(S)
  BY DEF Top!Weakest
<1>2. QED
  BY <1>1, SameCount DEF Top!Offered

\* TopBoards: a newcomer that beats no weakest entry of a full board is turned away.
LEMMA OfferedNothing ==
  ASSUME NEW S, NEW c, NEW e, {f \in S : f.player # e.player} = S, ~(Cardinality(S) < c),
         NEW w \in S, \A f \in S : w.rating <= f.rating, ~(w.rating < e.rating),
         \A f \in S : f.rating \in Nat, e.rating \in Nat
  PROVE  S \in Top!Offered(S, c, e)
<1>1. ~ \E v \in Top!Weakest(S) : v.rating < e.rating
  <2>1. SUFFICES ASSUME NEW v \in S, \A f \in S : v.rating <= f.rating, v.rating < e.rating
                 PROVE  FALSE
    BY DEF Top!Weakest
  <2>2. v.rating <= w.rating /\ w.rating <= v.rating /\ v.rating \in Nat /\ w.rating \in Nat
    BY <2>1
  <2>3. QED
    BY <2>1, <2>2
<1>2. QED
  BY <1>1, SameCount DEF Top!Offered

\* LeaderboardHeap::upsert keeps a board a heap of at most capacity entries, one per
\* player, and gives it one of the contents TopBoards allows after this offer.
THEOREM UpsertGood ==
  ASSUME NEW board, GoodBoard(board), board.capacity # 0, NEW e \in HeapEntry
  PROVE  Upserted(Upsert(board, e), board, e)
<1> DEFINE h == board.heap
           c == board.capacity
           S == AsSet(h)
           others == {f \in S : f.player # e.player}
<1>1. /\ board \in Board /\ h \in Seq(HeapEntry) /\ c \in Nat \ {0} /\ Len(h) \in Nat
      /\ Len(h) <= c /\ Ordered(h) /\ OneEach(h)
  BY HeapType DEF GoodBoard, Board
<1>2. DOMAIN h = 1..Len(h) /\ \A i \in DOMAIN h : h[i].rating \in Nat
  BY <1>1, HeapType
<1>3. Cardinality(S) = Len(h)
  BY <1>1, EntriesCounted
<1>4. e.rating \in Nat
  BY DEF HeapEntry
<1> DEFINE Fits(g) ==
             /\ g \in Seq(HeapEntry) /\ Len(g) \in Nat /\ Len(h) <= Len(g) /\ Len(g) <= c
             /\ Ordered(g) /\ OneEach(g)
             /\ AsSet(g) \subseteq others \cup {e}
             /\ e \in AsSet(g) \/ Len(g) = c
             /\ \A f \in S : f \in AsSet(g) \/ f.player = e.player \/ Len(g) = c
             /\ AsSet(g) \in Top!Offered(S, c, e)
<1>5. ASSUME NEW g, Fits(g) PROVE Upserted([board EXCEPT !.heap = g], board, e)
  <2> DEFINE new == [board EXCEPT !.heap = g]
  <2>1. new \in Board /\ new.capacity = c /\ new.heap = g
    BY <1>1, <1>5, BoardExcept
  <2> HIDE DEF new
  <2>2. Upserted(new, board, e)
    BY <1>5, <2>1 DEF Upserted, GoodBoard
  <2>3. QED
    BY <2>2 DEF new
<1>6. CASE OnHeap(h, e.player)
  <2> DEFINE g == SiftDown[SiftUp[Placed(h, PositionOf(h, e.player), e)]].heap
  <2>1. Upsert(board, e) = [board EXCEPT !.heap = g]
    BY <1>6 DEF Upsert
  <2>2. Rewritten(g, h, e)
    BY <1>1, <1>6, MemberRewritten
  <2> HIDE DEF g
  <2>3. others # S
    BY <1>1, <1>6, OnHeapEntry
  <2>4. others \cup {e} \in Top!Offered(S, c, e)
    BY <2>3, OfferedMember
  <2>5. Fits(g)
    BY <1>1, <2>2, <2>4 DEF Rewritten
  <2>6. QED
    BY <1>5, <2>1, <2>5
<1>7. CASE ~OnHeap(h, e.player) /\ Len(h) < c
  <2> DEFINE g == SiftUp[[heap |-> Append(h, e), at |-> Len(h) + 1]].heap
  <2>1. Upsert(board, e) = [board EXCEPT !.heap = g]
    BY <1>1, <1>7 DEF Upsert
  <2>2. /\ g \in Seq(HeapEntry) /\ Len(g) = Len(h) + 1 /\ Ordered(g) /\ OneEach(g)
        /\ AsSet(g) = S \cup {e}
    BY <1>1, <1>7, NewcomerPushed
  <2> HIDE DEF g
  <2>3. others = S
    BY <1>1, <1>7, NotOnHeap
  <2>4. others \cup {e} \in Top!Offered(S, c, e)
    BY <1>3, <1>7, OfferedRoom
  <2>5. Len(h) + 1 \in Nat /\ Len(h) <= Len(h) + 1 /\ Len(h) + 1 <= c
    BY <1>1, <1>7
  <2>6. AsSet(g) = others \cup {e} /\ S \subseteq AsSet(g) /\ e \in AsSet(g)
    BY <2>2, <2>3
  <2> HIDE DEF S, h, c
  <2>7. Fits(g)
    BY <2>2, <2>4, <2>5, <2>6
  <2>8. QED
    BY <1>5, <2>1, <2>7 DEF S, h, c
<1>8. CASE ~OnHeap(h, e.player) /\ Len(h) = c
  <2>1. 1 \in DOMAIN h /\ \A i \in DOMAIN h : h[1].rating <= h[i].rating
    BY <1>1, <1>2, <1>8, RootIsWeakest
  <2>2. h[1] \in S /\ \A f \in S : h[1].rating <= f.rating /\ f.rating \in Nat
    BY <1>2, <2>1 DEF AsSet
  <2>3. others = S
    BY <1>1, <1>8, NotOnHeap
  <2>4. ~(Cardinality(S) < c)
    BY <1>1, <1>3, <1>8
  <2>5. CASE BeatsRoot(h, e)
    <3> DEFINE g == SiftDown[Placed(h, 1, e)].heap
    <3>1. Upsert(board, e) = [board EXCEPT !.heap = g]
      BY <1>1, <1>8, <2>5 DEF Upsert, RootReplaced
    <3>2. /\ g \in Seq(HeapEntry) /\ Len(g) = Len(h) /\ Ordered(g) /\ OneEach(g)
          /\ AsSet(g) = (S \ {h[1]}) \cup {e}
      BY <1>1, <1>8, <2>1, <2>5, RootEvicted
    <3> HIDE DEF g
    <3>3. h[1].rating < e.rating
      BY <1>2, <1>4, <2>1, <2>5 DEF BeatsRoot
    <3>4. (S \ {h[1]}) \cup {e} \in Top!Offered(S, c, e)
      <4> HIDE DEF S, h
      <4>1. QED
        BY <2>2, <2>3, <2>4, <3>3, OfferedFull
    <3>5. Fits(g)
      BY <1>1, <1>8, <2>3, <3>2, <3>4
    <3>6. QED
      BY <1>5, <3>1, <3>5
  <2>6. CASE ~BeatsRoot(h, e)
    <3>1. Upsert(board, e) = [board EXCEPT !.heap = h]
      BY <1>1, <1>8, <2>6 DEF Upsert
    <3>2. ~(h[1].rating < e.rating)
      BY <1>2, <1>4, <2>1, <2>6 DEF BeatsRoot
    <3>3. S \in Top!Offered(S, c, e)
      <4> HIDE DEF S, h
      <4>1. QED
        BY <1>4, <2>2, <2>3, <2>4, <3>2, OfferedNothing
    <3>4. Fits(h)
      BY <1>1, <1>8, <2>3, <3>3
    <3>5. QED
      BY <1>5, <3>1, <3>4
  <2>7. QED
    BY <2>5, <2>6
<1>9. QED
  BY <1>1, <1>6, <1>7, <1>8

\* The latest of a set of days.
Latest(D) == CHOOSE m \in D : \A x \in D : x <= m

\* The latest of a set of days, once it is known.
LEMMA LatestIs ==
  ASSUME NEW D \in SUBSET Int, NEW m \in D, \A x \in D : x <= m
  PROVE  Latest(D) = m
<1>1. \A k \in D : (\A x \in D : x <= k) => k = m
  <2>1. SUFFICES ASSUME NEW k \in D, \A x \in D : x <= k PROVE k = m
    OBVIOUS
  <2>2. k <= m /\ m <= k /\ k \in Int /\ m \in Int
    BY <2>1
  <2>3. QED
    BY <2>2
<1>2. QED
  BY <1>1 DEF Latest

\* A non-empty set of days has a latest one.
LEMMA LatestExists ==
  ASSUME NEW N \in Nat, NEW D \in SUBSET (0..N), D # {}
  PROVE  Latest(D) \in D /\ \A x \in D : x <= Latest(D)
<1> DEFINE R == {N - x : x \in D}
<1>1. R \in SUBSET Nat /\ R # {}
  <2>1. \A x \in D : N - x \in Nat
    OBVIOUS
  <2>2. QED
    BY <2>1
<1>2. PICK r \in R : \A q \in R : r <= q
  <2> HIDE DEF R
  <2>1. QED
    BY <1>1, Least
<1>3. PICK m \in D : r = N - m
  BY <1>2
<1>4. \A x \in D : x <= m
  <2>1. SUFFICES ASSUME NEW x \in D PROVE x <= m
    OBVIOUS
  <2>2. N - x \in R
    OBVIOUS
  <2>3. N - m <= N - x
    BY <1>2, <1>3, <2>2
  <2>4. QED
    BY <2>3
<1>5. Latest(D) = m
  <2>1. D \in SUBSET Int
    OBVIOUS
  <2>2. QED
    BY <1>4, <2>1, LatestIs
<1>6. QED
  BY <1>4, <1>5

-----------------------------------------------------------------------------
(* The quota of one player: the limiter against the history of battles *)

\* A battle of the history, and the day it is charged to among the first n.
Battle == [slot : Nat, day : 1..DayHorizon]
DaysOf(s, n) == {s[i].day : i \in 1..n}
Charged(s, n) == Latest(DaysOf(s, n))
ChargedTo(s, d) == {n \in DOMAIN s : Charged(s, n) = d}

\* What QuotaKept says of one player.
QuotaOf(s) ==
  /\ \A i, j \in DOMAIN s : i < j => s[j].slot >= s[i].slot + CooldownSlots
  /\ \A d \in 1..DayHorizon : Cardinality(ChargedTo(s, d)) <= MaxBattlesPerDay

\* The limiter knows the last battle, the latest day, and the battles charged to it.
Tracks(l, s) ==
  IF s = << >> THEN ~l.recorded
  ELSE /\ l.recorded
       /\ l.lastSlot = s[Len(s)].slot
       /\ l.day = Charged(s, Len(s))
       /\ l.battlesToday = Cardinality(ChargedTo(s, l.day))

\* The fields of a recorded battle.
LEMMA BattleType ==
  ASSUME NEW s \in Seq(Battle)
  PROVE  /\ Len(s) \in Nat /\ DOMAIN s = 1..Len(s)
         /\ \A i \in 1..Len(s) : s[i].slot \in Nat /\ s[i].day \in 1..DayHorizon
         /\ s # << >> => Len(s) # 0
<1>1. Len(s) \in Nat /\ DOMAIN s = 1..Len(s) /\ \A i \in 1..Len(s) : s[i] \in Battle
  BY LenProperties, ElementOfSeq
<1>2. s # << >> => Len(s) # 0
  BY EmptySeq
<1>3. QED
  BY <1>1, <1>2 DEF Battle

\* A battle is charged to a day on which the player battled, no earlier than its own.
LEMMA ChargedFacts ==
  ASSUME NEW s \in Seq(Battle), NEW n \in 1..Len(s)
  PROVE  /\ Charged(s, n) \in 1..DayHorizon
         /\ \A i \in 1..n : s[i].day <= Charged(s, n)
         /\ \A k \in 1..n : Charged(s, k) <= Charged(s, n)
<1>1. DayHorizon \in Nat
  BY LeaderboardAssumption
<1>2. /\ Len(s) \in Nat
      /\ \A i \in 1..Len(s) : s[i].day \in 1..DayHorizon
  BY BattleType
<1>3. ASSUME NEW k \in 1..Len(s)
      PROVE  /\ Charged(s, k) \in DaysOf(s, k)
             /\ \A i \in 1..k : s[i].day <= Charged(s, k)
  <2>1. DaysOf(s, k) \in SUBSET (0..DayHorizon) /\ s[k].day \in DaysOf(s, k)
    BY <1>1, <1>2 DEF DaysOf
  <2>2. Latest(DaysOf(s, k)) \in DaysOf(s, k) /\ \A x \in DaysOf(s, k) : x <= Latest(DaysOf(s, k))
    BY <1>1, <2>1, LatestExists
  <2>3. QED
    BY <2>2 DEF Charged, DaysOf
<1>4. Charged(s, n) \in 1..DayHorizon
  BY <1>2, <1>3 DEF DaysOf
<1>5. ASSUME NEW k \in 1..n PROVE Charged(s, k) <= Charged(s, n)
  <2>1. k \in 1..Len(s)
    BY <1>2
  <2>2. PICK i \in 1..k : Charged(s, k) = s[i].day
    BY <1>3, <2>1 DEF DaysOf
  <2>3. i \in 1..n
    BY <1>2, <2>1
  <2>4. QED
    BY <1>3, <2>2, <2>3
<1>6. QED
  BY <1>3, <1>4, <1>5

\* One more battle leaves the days of the earlier ones, and is charged to the
\* latest day there was if that is later than its own.
LEMMA ChargedAppend ==
  ASSUME NEW s \in Seq(Battle), NEW x \in Battle
  PROVE  LET t == Append(s, x)
             n == Len(s) IN
         /\ \A k \in 1..n : Charged(t, k) = Charged(s, k)
         /\ n = 0 => Charged(t, n + 1) = x.day
         /\ n # 0 /\ x.day > Charged(s, n) => Charged(t, n + 1) = x.day
         /\ n # 0 /\ x.day <= Charged(s, n) => Charged(t, n + 1) = Charged(s, n)
<1> DEFINE t == Append(s, x)
           n == Len(s)
<1>1. /\ n \in Nat
      /\ \A i \in 1..n : s[i].day \in 1..DayHorizon
  BY BattleType
<1>2. t \in Seq(Battle) /\ Len(t) = n + 1 /\ t[n + 1] = x /\ \A i \in 1..n : t[i] = s[i]
  BY AppendProperties
<1>3. x.day \in 1..DayHorizon /\ DayHorizon \in Nat
  BY LeaderboardAssumption DEF Battle
<1> HIDE DEF t, n
<1>4. \A k \in 1..n : Charged(t, k) = Charged(s, k)
  <2>1. SUFFICES ASSUME NEW k \in 1..n PROVE DaysOf(t, k) = DaysOf(s, k)
    BY DEF Charged
  <2>2. \A i \in 1..k : t[i] = s[i]
    BY <1>1, <1>2
  <2>3. QED
    BY <2>2 DEF DaysOf
<1>5. DaysOf(t, n + 1) = DaysOf(s, n) \cup {x.day}
  <2>1. 1..n + 1 = 1..n \cup {n + 1}
    BY <1>1
  <2>2. QED
    BY <1>2, <2>1 DEF DaysOf
<1>6. DaysOf(t, n + 1) \in SUBSET Int
  <2>1. \A y \in DaysOf(s, n) : y \in Int
    BY <1>1, <1>3 DEF DaysOf
  <2>2. x.day \in Int
    BY <1>3
  <2>3. QED
    BY <1>5, <2>1, <2>2
<1>7. n # 0 => /\ \A i \in 1..n : s[i].day <= Charged(s, n)
               /\ Charged(s, n) \in 1..DayHorizon /\ Charged(s, n) \in DaysOf(s, n)
  <2>1. SUFFICES ASSUME n # 0 PROVE n \in 1..Len(s) /\ Charged(s, n) \in DaysOf(s, n)
    BY ChargedFacts
  <2>2. n \in 1..Len(s)
    BY <1>1, <2>1 DEF n
  <2>3. DaysOf(s, n) \in SUBSET (0..DayHorizon) /\ s[n].day \in DaysOf(s, n)
    BY <1>1, <1>3, <2>2 DEF DaysOf, n
  <2>4. QED
    BY <1>3, <2>2, <2>3, LatestExists DEF Charged
<1>8. n = 0 => Charged(t, n + 1) = x.day
  <2>1. n = 0 => DaysOf(t, n + 1) = {x.day}
    BY <1>5 DEF DaysOf
  <2>2. x.day <= x.day
    BY <1>3
  <2>3. QED
    BY <1>6, <2>1, <2>2, LatestIs DEF Charged
<1>9. ASSUME n # 0, x.day > Charged(s, n) PROVE Charged(t, n + 1) = x.day
  <2>1. \A y \in DaysOf(s, n) : y <= x.day
    BY <1>1, <1>3, <1>7, <1>9 DEF DaysOf
  <2>2. \A y \in DaysOf(t, n + 1) : y <= x.day
    BY <1>3, <1>5, <2>1
  <2>3. QED
    BY <1>5, <1>6, <2>2, LatestIs DEF Charged
<1>10. ASSUME n # 0, x.day <= Charged(s, n) PROVE Charged(t, n + 1) = Charged(s, n)
  <2>1. \A y \in DaysOf(s, n) : y <= Charged(s, n)
    BY <1>7, <1>10 DEF DaysOf
  <2>2. \A y \in DaysOf(t, n + 1) : y <= Charged(s, n)
    BY <1>5, <1>10, <2>1
  <2>3. Charged(s, n) \in DaysOf(t, n + 1)
    BY <1>5, <1>7, <1>10
  <2>4. Latest(DaysOf(t, n + 1)) = Charged(s, n)
    BY <1>6, <2>2, <2>3, LatestIs
  <2>5. QED
    BY <2>4 DEF Charged
<1>11. QED
  BY <1>4, <1>8, <1>9, <1>10 DEF t, n

\* What a limiter becomes with one more battle.
Fresh(l, x) == ~l.recorded \/ x.day > l.day
\* The count before the battle, and the account after it.
Today(l, x) == IF Fresh(l, x) THEN 0 ELSE l.battlesToday
Charge(l, x) ==
  [recorded |-> TRUE, lastSlot |-> x.slot, day |-> IF Fresh(l, x) THEN x.day ELSE l.day,
   battlesToday |-> Today(l, x) + 1]

\* The rate limit a battle leaves is a rate limit.
LEMMA ChargeType ==
  ASSUME NEW l \in BattleRateLimit, NEW x \in Battle, Today(l, x) < MaxBattlesPerDay
  PROVE  Charge(l, x) \in BattleRateLimit
<1>1. MaxBattlesPerDay \in Nat /\ DayHorizon \in Nat
  BY LeaderboardAssumption
<1>2. Today(l, x) + 1 \in 0..MaxBattlesPerDay
  BY <1>1 DEF Today, BattleRateLimit
<1>3. x.slot \in Nat /\ x.day \in 0..DayHorizon /\ l.day \in 0..DayHorizon
  BY <1>1 DEF Battle, BattleRateLimit
<1>4. QED
  BY <1>2, <1>3 DEF Charge, BattleRateLimit

\* A battle is charged to the latest day so far, and to no other.
LEMMA ChargedToAppend ==
  ASSUME NEW s \in Seq(Battle), NEW x \in Battle, NEW d
  PROVE  LET t == Append(s, x) IN
         /\ IsFiniteSet(ChargedTo(s, d)) /\ Len(s) + 1 \notin ChargedTo(s, d)
         /\ ChargedTo(t, d) = IF Charged(t, Len(s) + 1) = d
                              THEN ChargedTo(s, d) \cup {Len(s) + 1} ELSE ChargedTo(s, d)
<1> DEFINE t == Append(s, x)
           n == Len(s)
<1>1. n \in Nat /\ DOMAIN s = 1..n
  BY BattleType
<1>2. t \in Seq(Battle) /\ Len(t) = n + 1
  BY AppendProperties
<1>3. DOMAIN t = 1..n + 1
  BY <1>2, BattleType
<1>4. \A k \in 1..n : Charged(t, k) = Charged(s, k)
  BY ChargedAppend
<1> HIDE DEF t, n
<1>5. 1..n + 1 = 1..n \cup {n + 1} /\ n + 1 \notin 1..n
  BY <1>1
<1>6. ChargedTo(t, d) = IF Charged(t, n + 1) = d
                        THEN ChargedTo(s, d) \cup {n + 1} ELSE ChargedTo(s, d)
  BY <1>1, <1>3, <1>4, <1>5 DEF ChargedTo
<1>7. IsFiniteSet(1..n) /\ ChargedTo(s, d) \subseteq 1..n
  BY <1>1, FS_Interval DEF ChargedTo
<1>8. IsFiniteSet(ChargedTo(s, d))
  BY <1>7, FS_Subset
<1>9. n + 1 \notin ChargedTo(s, d)
  BY <1>5, <1>7
<1>10. QED
  BY <1>6, <1>8, <1>9 DEF t, n

\* consume_battle_rate_limit: a battle the limit lets through keeps the limit's count
\* of the day true and the history within the quota.
THEOREM BattleCharged ==
  ASSUME NEW s \in Seq(Battle), NEW l \in BattleRateLimit, Tracks(l, s), QuotaOf(s),
         NEW x \in Battle, l.recorded => x.slot >= l.lastSlot + CooldownSlots,
         Today(l, x) < MaxBattlesPerDay
  PROVE  Tracks(Charge(l, x), Append(s, x)) /\ QuotaOf(Append(s, x))
<1> DEFINE t == Append(s, x)
           n == Len(s)
           m == Charge(l, x)
           c == Charged(t, n + 1)
<1>1. /\ n \in Nat /\ DOMAIN s = 1..n
      /\ \A i \in 1..n : s[i].slot \in Nat /\ s[i].day \in 1..DayHorizon
      /\ (s # << >>) = (n # 0)
  <2>1. s = << >> => n = 0
    BY EmptySeq
  <2>2. QED
    BY <2>1, BattleType
<1>2. /\ t \in Seq(Battle) /\ Len(t) = n + 1 /\ t # << >>
      /\ t[n + 1] = x /\ \A i \in 1..n : t[i] = s[i]
  BY AppendProperties
<1>3. DOMAIN t = 1..n + 1
  BY <1>2, BattleType
<1>4. /\ x.slot \in Nat /\ x.day \in 1..DayHorizon
      /\ CooldownSlots \in Nat /\ MaxBattlesPerDay \in Nat /\ DayHorizon \in Nat
  BY LeaderboardAssumption DEF Battle
<1>5. l.day \in 0..DayHorizon /\ l.battlesToday \in 0..MaxBattlesPerDay
  BY DEF BattleRateLimit
<1>6. m.recorded /\ m.lastSlot = x.slot /\ m.battlesToday = Today(l, x) + 1
      /\ m.day = IF Fresh(l, x) THEN x.day ELSE l.day
  BY DEF Charge
<1>7. \A d : /\ IsFiniteSet(ChargedTo(s, d)) /\ n + 1 \notin ChargedTo(s, d)
             /\ ChargedTo(t, d) = IF c = d THEN ChargedTo(s, d) \cup {n + 1}
                                  ELSE ChargedTo(s, d)
  BY ChargedToAppend
<1>8. /\ n = 0 => c = x.day
      /\ n # 0 /\ x.day > Charged(s, n) => c = x.day
      /\ n # 0 /\ x.day <= Charged(s, n) => c = Charged(s, n)
  BY ChargedAppend
<1>9. /\ l.recorded = (n # 0)
      /\ n # 0 => /\ l.lastSlot = s[n].slot /\ l.day = Charged(s, n)
                  /\ l.battlesToday = Cardinality(ChargedTo(s, l.day))
  BY <1>1 DEF Tracks, BattleRateLimit
<1>10. n # 0 => \A k \in 1..n : Charged(s, k) <= Charged(s, n) /\ Charged(s, k) \in Nat
  <2>1. \A k \in 1..n : Charged(s, k) \in 1..DayHorizon
    BY ChargedFacts
  <2>2. n # 0 => n \in 1..Len(s)
    BY <1>1
  <2>3. n # 0 => \A k \in 1..n : Charged(s, k) <= Charged(s, n)
    BY <2>2, ChargedFacts
  <2>4. QED
    BY <1>4, <2>1, <2>3
<1> HIDE DEF t, n, m, c
<1>11. c = m.day
  <2>1. n = 0 => Fresh(l, x)
    BY <1>9 DEF Fresh
  <2>2. n # 0 => (Fresh(l, x) <=> x.day > Charged(s, n))
    BY <1>9 DEF Fresh
  <2>3. n # 0 => (~(x.day > Charged(s, n)) => x.day <= Charged(s, n))
    BY <1>4, <1>5, <1>9
  <2>4. CASE n = 0
    BY <1>6, <1>8, <2>1, <2>4
  <2>5. CASE n # 0 /\ x.day > Charged(s, n)
    BY <1>6, <1>8, <2>2, <2>5
  <2>6. CASE n # 0 /\ ~(x.day > Charged(s, n))
    BY <1>6, <1>8, <1>9, <2>2, <2>3, <2>6
  <2>7. QED
    BY <2>4, <2>5, <2>6
<1>12. Cardinality(ChargedTo(s, c)) = Today(l, x)
  <2>1. CASE Fresh(l, x)
    <3>1. \A k \in 1..n : Charged(s, k) # c
      <4>1. SUFFICES ASSUME NEW k \in 1..n PROVE Charged(s, k) < c
        BY <1>10, <1>1
      <4>2. n # 0
        BY <1>1
      <4>3. x.day > Charged(s, n) /\ c = x.day
        BY <1>6, <1>9, <1>11, <2>1, <4>2 DEF Fresh
      <4>4. Charged(s, k) <= Charged(s, n) /\ Charged(s, k) \in Nat /\ Charged(s, n) \in Nat
        BY <1>5, <1>9, <1>10, <4>2
      <4>5. QED
        BY <1>4, <4>3, <4>4
    <3>2. ChargedTo(s, c) = {}
      BY <1>1, <3>1 DEF ChargedTo
    <3>3. QED
      BY <2>1, <3>2, FS_EmptySet DEF Today
  <2>2. CASE ~Fresh(l, x)
    BY <1>6, <1>9, <1>11, <2>2 DEF Today, Fresh
  <2>3. QED
    BY <2>1, <2>2
<1>13. Cardinality(ChargedTo(t, c)) = Today(l, x) + 1
  BY <1>7, <1>12, FS_AddElement
<1>14. Tracks(m, t)
  BY <1>2, <1>6, <1>11, <1>13 DEF Tracks, c
<1>15. Today(l, x) + 1 <= MaxBattlesPerDay
  BY <1>4, <1>5 DEF Today
<1>16. ASSUME NEW d \in 1..DayHorizon PROVE Cardinality(ChargedTo(t, d)) <= MaxBattlesPerDay
  <2>1. CASE d = c
    BY <1>13, <1>15, <2>1
  <2>2. CASE d # c
    BY <1>7, <2>2 DEF QuotaOf
  <2>3. QED
    BY <2>1, <2>2
<1>17. ASSUME NEW i \in 1..n + 1, NEW j \in 1..n + 1, i < j
       PROVE  t[j].slot >= t[i].slot + CooldownSlots
  <2>1. i \in 1..n
    BY <1>1, <1>17
  <2>2. CASE j \in 1..n
    BY <1>1, <1>2, <1>17, <2>1, <2>2 DEF QuotaOf
  <2>3. CASE j = n + 1
    <3>1. n # 0 /\ n \in 1..n
      BY <1>1, <2>1
    <3>2. x.slot >= s[n].slot + CooldownSlots
      BY <1>9, <3>1
    <3>3. i = n \/ s[n].slot >= s[i].slot + CooldownSlots
      BY <1>1, <2>1, <3>1 DEF QuotaOf
    <3>4. s[n].slot \in Nat /\ s[i].slot \in Nat
      BY <1>1, <2>1, <3>1
    <3>5. x.slot >= s[i].slot + CooldownSlots
      <4>1. s[n].slot >= s[i].slot
        BY <1>4, <3>3, <3>4
      <4>2. \A u, v, k, y \in Nat : y >= u + k /\ u >= v => y >= v + k
        OBVIOUS
      <4>3. x.slot \in Nat /\ CooldownSlots \in Nat
        BY <1>4
      <4>4. QED
        BY <3>2, <3>4, <4>1, <4>2, <4>3
    <3>6. QED
      BY <1>2, <2>1, <2>3, <3>5
  <2>4. QED
    BY <1>1, <2>2, <2>3
<1>18. QuotaOf(t)
  BY <1>3, <1>16, <1>17 DEF QuotaOf
<1>19. QED
  BY <1>14, <1>18 DEF t, m

\* Stats that exist are not the stats of nobody.
LEMMA StatsApart == \A s \in PlayerStats : s # NoStats
<1>1. SUFFICES ASSUME NEW s \in PlayerStats, s = NoStats PROVE FALSE
  OBVIOUS
<1>2. "rating" \in DOMAIN s
  BY DEF PlayerStats
<1>3. "rating" \notin DOMAIN NoStats
  BY DEF NoStats
<1>4. QED
  BY <1>1, <1>2, <1>3

\* A rate limit that exists is not the one of nobody.
LEMMA LimitersApart == \A l \in BattleRateLimit : l # NoLimiter
<1>1. SUFFICES ASSUME NEW l \in BattleRateLimit, l = NoLimiter PROVE FALSE
  OBVIOUS
<1>2. "recorded" \in DOMAIN l
  BY DEF BattleRateLimit
<1>3. "recorded" \notin DOMAIN NoLimiter
  BY DEF NoLimiter
<1>4. QED
  BY <1>1, <1>2, <1>3

\* The accounts ensured at the start of an instruction.
LEMMA EnsuredType ==
  ASSUME LeaderboardTypeOK, NEW p \in Wallets
  PROVE  EnsuredStats(p) \in PlayerStats /\ EnsuredLimiter(p) \in BattleRateLimit
<1>1. stats[p] \in PlayerStats \cup {NoStats} /\ limiter[p] \in BattleRateLimit \cup {NoLimiter}
  BY DEF LeaderboardTypeOK
<1>2. StartingRating \in Nat /\ MaxBattlesPerDay \in Nat /\ DayHorizon \in Nat
  BY LeaderboardAssumption
<1>3. EnsuredStats(p) \in PlayerStats
  BY <1>1, <1>2 DEF EnsuredStats, PlayerStats
<1>4. EnsuredLimiter(p) \in BattleRateLimit
  BY <1>1, <1>2 DEF EnsuredLimiter, BattleRateLimit
<1>5. QED
  BY <1>3, <1>4

\* One more game, and the rating moved by the delta down to the floor.
LEMMA TalliedType ==
  ASSUME NEW s \in PlayerStats, NEW won \in BOOLEAN, NEW delta \in Int
  PROVE  LET t == Tallied(s, won, delta) IN
         /\ t \in PlayerStats
         /\ t.games = s.games + 1 /\ t.session = s.session
         /\ t.rating = ApplyRatingDelta(s.rating, delta)
<1>1. s.rating \in Nat /\ s.wins \in Nat /\ s.losses \in Nat /\ s.games \in Nat
  BY DEF PlayerStats
<1>2. ApplyRatingDelta(s.rating, delta) \in Nat
  BY <1>1 DEF ApplyRatingDelta
<1>3. /\ (IF won THEN s.wins + 1 ELSE s.wins) \in Nat
      /\ (IF won THEN s.losses ELSE s.losses + 1) \in Nat
  BY <1>1
<1> DEFINE w == IF won THEN s.wins + 1 ELSE s.wins
           l == IF won THEN s.losses ELSE s.losses + 1
           r == ApplyRatingDelta(s.rating, delta)
           t == [s EXCEPT !.games = s.games + 1, !.wins = w, !.losses = l, !.rating = r]
<1>4. Tallied(s, won, delta) = t
  BY DEF Tallied, PlayerStats
<1>5. w \in Nat /\ l \in Nat /\ r \in Nat /\ s.games + 1 \in Nat
  BY <1>1, <1>2, <1>3
<1> HIDE DEF w, l, r
<1>6. t \in PlayerStats /\ t.games = s.games + 1 /\ t.session = s.session /\ t.rating = r
  BY <1>5 DEF PlayerStats
<1>7. QED
  BY <1>4, <1>6 DEF r

\* The entry of a player is an entry of the heap.
LEMMA EntryType ==
  ASSUME NEW p \in Wallets, NEW s \in PlayerStats
  PROVE  /\ EntryOf(p, s) \in HeapEntry
         /\ EntryOf(p, s).player = p /\ EntryOf(p, s).rating = s.rating
BY DEF EntryOf, HeapEntry, PlayerStats

\* The board shows p at this rating, or had no room for p.
Shown(board, p, rating) ==
  /\ board.capacity # 0
  /\ \A i \in DOMAIN board.heap : board.heap[i].player = p => board.heap[i].rating = rating
  /\ OnHeap(board.heap, p) \/ Len(board.heap) = board.capacity

\* After upsert the board shows the player as rated now, and the others as before.
LEMMA UpsertShows ==
  ASSUME NEW board, GoodBoard(board), board.capacity # 0, NEW e \in HeapEntry
  PROVE  /\ Shown(Upsert(board, e), e.player, e.rating)
         /\ \A p, r : p # e.player /\ Shown(board, p, r) => Shown(Upsert(board, e), p, r)
<1> DEFINE u == Upsert(board, e)
<1>1. Upserted(u, board, e)
  BY UpsertGood
<1> HIDE DEF u
<1>2. /\ u.capacity = board.capacity
      /\ Len(board.heap) \in Nat /\ Len(u.heap) \in Nat /\ board.capacity \in Nat
      /\ Len(board.heap) <= Len(u.heap) /\ Len(u.heap) <= u.capacity
  BY <1>1, HeapType DEF Upserted, GoodBoard, Board
<1>3. \A i \in DOMAIN u.heap :
        u.heap[i] \in {f \in AsSet(board.heap) : f.player # e.player} \cup {e}
  BY <1>1 DEF Upserted, AsSet
<1>4. Shown(u, e.player, e.rating)
  <2>1. e \in AsSet(u.heap) \/ Len(u.heap) = u.capacity
    BY <1>1 DEF Upserted
  <2>2. OnHeap(u.heap, e.player) \/ Len(u.heap) = u.capacity
    BY <2>1 DEF OnHeap, AsSet
  <2>3. QED
    BY <1>2, <1>3, <2>2 DEF Shown
<1>5. ASSUME NEW p, NEW r, p # e.player, Shown(board, p, r) PROVE Shown(u, p, r)
  <2>1. \A i \in DOMAIN u.heap : u.heap[i].player = p => u.heap[i].rating = r
    BY <1>3, <1>5 DEF Shown, AsSet
  <2>2. OnHeap(u.heap, p) \/ Len(u.heap) = u.capacity
    <3>1. CASE Len(board.heap) = board.capacity
      BY <1>2, <3>1
    <3>2. CASE OnHeap(board.heap, p)
      <4>1. PICK i \in DOMAIN board.heap : board.heap[i].player = p
        BY <3>2 DEF OnHeap
      <4>2. board.heap[i] \in AsSet(board.heap)
        BY DEF AsSet
      <4>3. board.heap[i] \in AsSet(u.heap) \/ Len(u.heap) = u.capacity
        BY <1>1, <1>5, <4>1, <4>2 DEF Upserted
      <4>4. QED
        BY <4>1, <4>3 DEF OnHeap, AsSet
    <3>3. QED
      BY <1>5, <3>1, <3>2 DEF Shown
  <2>3. QED
    BY <1>2, <1>5, <2>1, <2>2 DEF Shown
<1>6. QED
  BY <1>4, <1>5 DEF u

\* The limit refuses no battle that the quota would let through: it knows the last
\* battle and the count of the day the next one is charged to, and nothing else.
LEMMA BattleRefused ==
  ASSUME NEW s \in Seq(Battle), NEW l \in BattleRateLimit, Tracks(l, s),
         NEW x \in Battle, QuotaOf(Append(s, x))
  PROVE  /\ l.recorded => x.slot >= l.lastSlot + CooldownSlots
         /\ Today(l, x) < MaxBattlesPerDay
<1> DEFINE t == Append(s, x)
           n == Len(s)
           c == Charged(t, n + 1)
<1>1. /\ n \in Nat /\ DOMAIN s = 1..n
      /\ \A i \in 1..n : s[i].slot \in Nat /\ s[i].day \in 1..DayHorizon
      /\ (s # << >>) = (n # 0)
  <2>1. s = << >> => n = 0
    BY EmptySeq
  <2>2. QED
    BY <2>1, BattleType
<1>2. /\ t \in Seq(Battle) /\ Len(t) = n + 1
      /\ t[n + 1] = x /\ \A i \in 1..n : t[i] = s[i]
  BY AppendProperties
<1>3. DOMAIN t = 1..n + 1 /\ MaxBattlesPerDay \in Nat \ {0}
  BY <1>2, BattleType, LeaderboardAssumption
<1>4. c \in 1..DayHorizon /\ Cardinality(ChargedTo(t, c)) <= MaxBattlesPerDay
  <2>1. c \in 1..DayHorizon
    <3>1. t \in Seq(Battle) /\ n + 1 \in 1..Len(t)
      BY <1>1, <1>2
    <3> HIDE DEF t, n
    <3>2. QED
      BY <3>1, ChargedFacts
  <2>2. QED
    BY <2>1 DEF QuotaOf
<1>5. /\ IsFiniteSet(ChargedTo(s, c)) /\ n + 1 \notin ChargedTo(s, c)
      /\ ChargedTo(t, c) = ChargedTo(s, c) \cup {n + 1}
  BY ChargedToAppend
<1>6. Cardinality(ChargedTo(s, c)) \in Nat /\ Cardinality(ChargedTo(s, c)) + 1 <= MaxBattlesPerDay
  <2>1. Cardinality(ChargedTo(t, c)) = Cardinality(ChargedTo(s, c)) + 1
    BY <1>5, FS_AddElement
  <2>2. QED
    BY <1>4, <1>5, <2>1, FS_CardinalityType
<1>7. ASSUME l.recorded PROVE x.slot >= l.lastSlot + CooldownSlots
  <2>1. n # 0 /\ l.lastSlot = s[n].slot
    BY <1>1, <1>7 DEF Tracks
  <2>2. n \in DOMAIN t /\ n + 1 \in DOMAIN t /\ n < n + 1
    BY <1>1, <1>3, <2>1
  <2>3. t[n + 1].slot >= t[n].slot + CooldownSlots
    BY <2>2 DEF QuotaOf
  <2>4. t[n] = s[n]
    <3>1. n \in 1..n
      BY <1>1, <2>1
    <3> HIDE DEF t, n
    <3>2. QED
      BY <1>2, <3>1
  <2> HIDE DEF t, n
  <2>5. QED
    BY <1>2, <2>1, <2>3, <2>4
<1>8. Today(l, x) < MaxBattlesPerDay
  <2>1. CASE Fresh(l, x)
    BY <1>3, <2>1 DEF Today
  <2>2. CASE ~Fresh(l, x)
    <3>1. /\ l.recorded /\ ~(x.day > l.day) /\ n # 0 /\ l.day = Charged(s, n)
          /\ l.battlesToday = Cardinality(ChargedTo(s, l.day))
      BY <1>1, <2>2 DEF Fresh, Tracks
    <3>2. c = l.day
      <4>1. n # 0 /\ x.day <= Charged(s, n) => c = Charged(s, n)
        BY ChargedAppend
      <4>2. x.day <= Charged(s, n)
        <5>1. Charged(s, n) \in Int /\ x.day \in Int
          <6>1. n \in 1..Len(s)
            BY <1>1, <3>1
          <6>2. Charged(s, n) \in 1..DayHorizon
            BY <6>1, ChargedFacts
          <6>3. QED
            BY <6>2 DEF Battle
        <5>2. QED
          BY <3>1, <5>1
      <4>3. QED
        BY <3>1, <4>1, <4>2
    <3>3. QED
      BY <1>3, <1>6, <2>2, <3>1, <3>2 DEF Today
  <2>3. QED
    BY <2>1, <2>2
<1>9. QED
  BY <1>7, <1>8

-----------------------------------------------------------------------------
(* The inductive invariant of the ladder *)

\* Every board is a heap that upsert built.
BoardsOK ==
  \A b \in Boards : /\ GoodBoard(boards[b])
                    /\ boards[b].capacity \in {0} \cup MinCapacity..MaxCapacity

\* Whoever reported to a board last is shown on it as rated now.
EntriesOK ==
  \A b \in Boards, p \in Wallets :
    ratedOn[p] = b => stats[p] # NoStats /\ Shown(boards[b], p, stats[p].rating)

\* Every rate limit tracks the history of its wallet, which is within the quota.
QuotaOK == \A p \in Wallets : Tracks(EnsuredLimiter(p), battles[p]) /\ QuotaOf(battles[p])

\* The inductive invariant of the PvE half.
LadderInv == LeaderboardTypeOK /\ BoardsOK /\ EntriesOK /\ QuotaOK

\* No board, no stats and no rate limit exists at first.
LEMMA InitLadderInv ==
  ASSUME LeaderboardInit
  PROVE  LadderInv
<1>1. /\ slot = 1 /\ blocks = {0} /\ day \in 1..DayHorizon
      /\ boards = [b \in Boards |-> [capacity |-> 0, heap |-> << >>]]
      /\ stats = [w \in Wallets |-> NoStats]
      /\ limiter = [w \in Wallets |-> NoLimiter]
      /\ profiled = {}
      /\ battles = [w \in Wallets |-> << >>]
      /\ ratedOn = [w \in Wallets |-> None]
  BY DEF LeaderboardInit, LadderInit, ClockInit
<1>2. << >> \in Seq(HeapEntry) /\ << >> \in Seq(Battle) /\ Len(<< >>) = 0 /\ DOMAIN << >> = {}
  BY EmptySeq
<1>3. [capacity |-> 0, heap |-> << >>] \in Board
  BY <1>2 DEF Board
<1>4. LeaderboardTypeOK
  <2>1. ClockTypeOK
    BY <1>1, SlotHashesAssumption DEF ClockTypeOK
  <2>2. boards \in [Boards -> Board] /\ battles \in [Wallets -> Seq(Battle)]
    BY <1>1, <1>2, <1>3
  <2>3. QED
    BY <1>1, <2>1, <2>2 DEF LeaderboardTypeOK, Battle
<1>5. BoardsOK
  BY <1>1, <1>2, <1>3 DEF BoardsOK, GoodBoard, Ordered, OneEach
<1>6. EntriesOK
  BY <1>1, LeaderboardAssumption DEF EntriesOK
<1>7. QuotaOK
  <2>1. QuotaOf(<< >>)
    <3>1. \A d : ChargedTo(<< >>, d) = {}
      BY <1>2 DEF ChargedTo
    <3>2. Cardinality({}) = 0
      BY FS_EmptySet
    <3>3. MaxBattlesPerDay \in Nat /\ 0 <= MaxBattlesPerDay
      BY LeaderboardAssumption
    <3>4. \A d : Cardinality(ChargedTo(<< >>, d)) <= MaxBattlesPerDay
      BY <3>1, <3>2, <3>3
    <3>5. QED
      BY <1>2, <3>4 DEF QuotaOf
  <2>2. \A p \in Wallets : ~EnsuredLimiter(p).recorded
    BY <1>1 DEF EnsuredLimiter
  <2>3. QED
    BY <1>1, <2>1, <2>2 DEF QuotaOK, Tracks
<1>8. QED
  BY <1>4, <1>5, <1>6, <1>7 DEF LadderInv

\* One player's stats are written.
LEMMA StatsWritten ==
  ASSUME NEW p \in Wallets, NEW s \in PlayerStats, LadderInv,
         stats' = [stats EXCEPT ![p] = s]
  PROVE  /\ stats' \in [Wallets -> PlayerStats \cup {NoStats}]
         /\ stats'[p] = s /\ \A q \in Wallets : q # p => stats'[q] = stats[q]
BY DEF LadderInv, LeaderboardTypeOK

\* What a step leaves of the ladder when it touches neither boards nor ratings.
LEMMA EntriesFrame ==
  ASSUME LadderInv, boards' = boards, ratedOn' = ratedOn,
         \A p \in Wallets : stats[p] # NoStats =>
           stats'[p] # NoStats /\ stats'[p].rating = stats[p].rating
  PROVE  BoardsOK' /\ EntriesOK'
<1>1. BoardsOK /\ EntriesOK
  BY DEF LadderInv
<1>2. BoardsOK'
  BY <1>1 DEF BoardsOK
<1>3. EntriesOK'
  BY <1>1 DEF EntriesOK
<1>4. QED
  BY <1>2, <1>3

\* A step without a battle keeps the quotas.
LEMMA QuotaFrame ==
  ASSUME LadderInv, battles' = battles,
         \A p \in Wallets : EnsuredLimiter(p)' = EnsuredLimiter(p)
  PROVE  QuotaOK'
<1>1. QuotaOK
  BY DEF LadderInv
<1>2. QED
  BY <1>1 DEF QuotaOK

\* A step within a bank keeps the type of the clock.
LEMMA ClockFrame ==
  ASSUME LadderInv, UNCHANGED <<clockVars, day>>
  PROVE  ClockTypeOK' /\ day' \in 1..DayHorizon
BY DEF LadderInv, LeaderboardTypeOK, ClockTypeOK, clockVars

\* initialize_leaderboard opens an empty board.
LEMMA InitLeaderboardInv ==
  ASSUME LadderInv, NEW b \in Boards, NEW c \in Capacities, InitLeaderboard(b, c)
  PROVE  LadderInv'
<1> DEFINE new == [capacity |-> c, heap |-> << >>]
<1>1. /\ boards[b].capacity = 0 /\ c \in MinCapacity..MaxCapacity
      /\ boards' = [boards EXCEPT ![b] = new]
      /\ UNCHANGED <<clockVars, day>>
      /\ stats' = stats /\ limiter' = limiter /\ profiled' = profiled
      /\ battles' = battles /\ ratedOn' = ratedOn
  BY DEF InitLeaderboard
<1>2. LeaderboardTypeOK /\ BoardsOK /\ EntriesOK
  BY DEF LadderInv
<1>3. << >> \in Seq(HeapEntry) /\ Len(<< >>) = 0 /\ DOMAIN << >> = {}
  BY EmptySeq
<1>4. c \in Nat
  BY LeaderboardAssumption
<1>5. GoodBoard(new) /\ new.capacity = c
  BY <1>3, <1>4 DEF GoodBoard, Board, Ordered, OneEach
<1>6. /\ boards' \in [Boards -> Board] /\ boards'[b] = new
      /\ \A a \in Boards : a # b => boards'[a] = boards[a]
  BY <1>1, <1>2, <1>5 DEF LeaderboardTypeOK, GoodBoard
<1> HIDE DEF new
<1>7. LeaderboardTypeOK'
  BY <1>1, <1>2, <1>6, ClockFrame DEF LeaderboardTypeOK
<1>8. BoardsOK'
  BY <1>1, <1>2, <1>5, <1>6 DEF BoardsOK
<1>9. EntriesOK'
  <2>1. SUFFICES ASSUME NEW a \in Boards, NEW p \in Wallets, ratedOn[p] = a
                 PROVE  stats[p] # NoStats /\ Shown(boards'[a], p, stats[p].rating)
    BY <1>1 DEF EntriesOK
  <2>2. stats[p] # NoStats /\ Shown(boards[a], p, stats[p].rating)
    BY <1>2, <2>1 DEF EntriesOK
  <2>3. a # b
    BY <1>1, <2>2 DEF Shown
  <2>4. QED
    BY <1>6, <2>2, <2>3
<1>10. QuotaOK'
  BY <1>1, QuotaFrame DEF EnsuredLimiter
<1>11. QED
  BY <1>7, <1>8, <1>9, <1>10 DEF LadderInv

\* register_session_key rates nobody and consumes no quota.
LEMMA RegisterSessionKeyInv ==
  ASSUME LadderInv, NEW p \in Wallets, NEW key \in SessionKeys, RegisterSessionKey(p, key)
  PROVE  LadderInv'
<1> DEFINE s == [EnsuredStats(p) EXCEPT !.session = key]
<1>1. /\ stats' = [stats EXCEPT ![p] = s]
      /\ limiter' = [limiter EXCEPT ![p] = EnsuredLimiter(p)]
      /\ UNCHANGED <<clockVars, day>>
      /\ boards' = boards /\ profiled' = profiled /\ battles' = battles /\ ratedOn' = ratedOn
  BY DEF RegisterSessionKey
<1>2. LeaderboardTypeOK
  BY DEF LadderInv
<1>3. EnsuredStats(p) \in PlayerStats /\ EnsuredLimiter(p) \in BattleRateLimit
  BY <1>2, EnsuredType
<1>4. s \in PlayerStats /\ s.rating = EnsuredStats(p).rating
  BY <1>3 DEF PlayerStats
<1> HIDE DEF s
<1>5. /\ stats' \in [Wallets -> PlayerStats \cup {NoStats}]
      /\ stats'[p] = s /\ \A q \in Wallets : q # p => stats'[q] = stats[q]
  BY <1>1, <1>4, StatsWritten
<1>6. /\ limiter' \in [Wallets -> BattleRateLimit \cup {NoLimiter}]
      /\ limiter'[p] = EnsuredLimiter(p) /\ \A q \in Wallets : q # p => limiter'[q] = limiter[q]
  BY <1>1, <1>2, <1>3 DEF LeaderboardTypeOK
<1>7. LeaderboardTypeOK'
  BY <1>1, <1>2, <1>5, <1>6, ClockFrame DEF LeaderboardTypeOK
<1>8. BoardsOK' /\ EntriesOK'
  <2>1. stats[p] # NoStats => EnsuredStats(p) = stats[p]
    BY DEF EnsuredStats
  <2>2. \A q \in Wallets : stats[q] # NoStats =>
          stats'[q] # NoStats /\ stats'[q].rating = stats[q].rating
    BY <1>4, <1>5, <2>1, StatsApart
  <2>3. QED
    BY <1>1, <2>2, EntriesFrame
<1>9. \A q \in Wallets : EnsuredLimiter(q)' = EnsuredLimiter(q)
  <2>1. limiter'[p] # NoLimiter
    BY <1>3, <1>6, LimitersApart
  <2>2. EnsuredLimiter(p)' = limiter'[p]
    BY <2>1 DEF EnsuredLimiter
  <2>3. \A q \in Wallets : q # p => EnsuredLimiter(q)' = EnsuredLimiter(q)
    BY <1>6 DEF EnsuredLimiter
  <2>4. QED
    BY <1>6, <2>2, <2>3
<1>10. QuotaOK'
  BY <1>1, <1>9, QuotaFrame
<1>11. QED
  BY <1>7, <1>8, <1>10 DEF LadderInv

\* revoke_session_key rates nobody and consumes no quota.
LEMMA RevokeSessionKeyInv ==
  ASSUME LadderInv, NEW p \in Wallets, RevokeSessionKey(p)
  PROVE  LadderInv'
<1> DEFINE s == [stats[p] EXCEPT !.session = None]
<1>1. /\ stats[p] # NoStats /\ stats' = [stats EXCEPT ![p] = s]
      /\ UNCHANGED <<clockVars, day>> /\ boards' = boards /\ limiter' = limiter
      /\ profiled' = profiled /\ battles' = battles /\ ratedOn' = ratedOn
  BY DEF RevokeSessionKey
<1>2. LeaderboardTypeOK
  BY DEF LadderInv
<1>3. stats[p] \in PlayerStats
  BY <1>1, <1>2 DEF LeaderboardTypeOK
<1>4. s \in PlayerStats /\ s.rating = stats[p].rating
  BY <1>3 DEF PlayerStats
<1> HIDE DEF s
<1>5. /\ stats' \in [Wallets -> PlayerStats \cup {NoStats}]
      /\ stats'[p] = s /\ \A q \in Wallets : q # p => stats'[q] = stats[q]
  BY <1>1, <1>4, StatsWritten
<1>6. LeaderboardTypeOK'
  BY <1>1, <1>2, <1>5, ClockFrame DEF LeaderboardTypeOK
<1>7. BoardsOK' /\ EntriesOK'
  BY <1>1, <1>4, <1>5, StatsApart, EntriesFrame
<1>8. QuotaOK'
  BY <1>1, QuotaFrame DEF EnsuredLimiter
<1>9. QED
  BY <1>6, <1>7, <1>8 DEF LadderInv

\* set_profile touches neither boards nor quotas.
LEMMA SetProfileInv ==
  ASSUME LadderInv, NEW b \in Boards, NEW p \in Wallets, SetProfile(b, p)
  PROVE  LadderInv'
<1>1. /\ profiled' = profiled \cup {p} /\ UNCHANGED <<clockVars, day>>
      /\ boards' = boards /\ stats' = stats /\ limiter' = limiter
      /\ battles' = battles /\ ratedOn' = ratedOn
  BY DEF SetProfile
<1>2. LeaderboardTypeOK
  BY DEF LadderInv
<1>3. LeaderboardTypeOK'
  BY <1>1, <1>2, ClockFrame DEF LeaderboardTypeOK
<1>4. BoardsOK' /\ EntriesOK'
  BY <1>1, EntriesFrame
<1>5. QuotaOK'
  BY <1>1, QuotaFrame DEF EnsuredLimiter
<1>6. QED
  BY <1>3, <1>4, <1>5 DEF LadderInv

\* The next bank, even one whose day has stepped back, keeps what the rate limit knows.
LEMMA NextBankInv ==
  ASSUME LadderInv, NextBank, UNCHANGED ladderVars
  PROVE  LadderInv'
<1>1. /\ NewBank /\ day' \in 1..DayHorizon
      /\ boards' = boards /\ stats' = stats /\ limiter' = limiter
      /\ profiled' = profiled /\ battles' = battles /\ ratedOn' = ratedOn
  BY DEF NextBank, ladderVars
<1>2. LeaderboardTypeOK
  BY DEF LadderInv
<1>3. ClockTypeOK'
  BY <1>1, <1>2, ClockTypeCorrect DEF LeaderboardTypeOK
<1>4. LeaderboardTypeOK'
  BY <1>1, <1>2, <1>3 DEF LeaderboardTypeOK
<1>5. BoardsOK' /\ EntriesOK'
  BY <1>1, EntriesFrame
<1>6. QuotaOK'
  BY <1>1, QuotaFrame DEF EnsuredLimiter
<1>7. QED
  BY <1>4, <1>5, <1>6 DEF LadderInv

\* One board is written by upsert.
LEMMA BoardWritten ==
  ASSUME LadderInv, NEW b \in Boards, boards[b].capacity # 0, NEW e \in HeapEntry,
         boards' = [boards EXCEPT ![b] = Upsert(boards[b], e)]
  PROVE  /\ boards' \in [Boards -> Board]
         /\ boards'[b] = Upsert(boards[b], e)
         /\ Upserted(boards'[b], boards[b], e)
         /\ \A a \in Boards : a # b => boards'[a] = boards[a]
         /\ BoardsOK'
<1> DEFINE u == Upsert(boards[b], e)
<1>1. boards \in [Boards -> Board] /\ BoardsOK
  BY DEF LadderInv, LeaderboardTypeOK
<1>2. GoodBoard(boards[b])
  BY <1>1 DEF BoardsOK
<1>3. Upserted(u, boards[b], e)
  BY <1>2, UpsertGood
<1> HIDE DEF u
<1>4. GoodBoard(u) /\ u \in Board /\ u.capacity = boards[b].capacity
  BY <1>3 DEF Upserted, GoodBoard
<1>5. /\ boards' \in [Boards -> Board] /\ boards'[b] = u
      /\ \A a \in Boards : a # b => boards'[a] = boards[a]
  BY <1>1, <1>4 DEF u
<1>6. BoardsOK'
  BY <1>1, <1>4, <1>5 DEF BoardsOK
<1>7. QED
  BY <1>3, <1>5, <1>6 DEF u

\* The rating delta of a battle is a number.
LEMMA DeltaType == \A win, bot \in BOOLEAN : RatingDelta(win, bot) \in Int
BY DEF RatingDelta

\* record_battle: the board is upserted from the new stats and the quota is charged.
LEMMA RecordBattleInv ==
  ASSUME LadderInv, NEW b \in Boards, NEW p \in Wallets, NEW signer,
         NEW win \in BOOLEAN, NEW bot \in BOOLEAN, RecordBattle(b, p, signer, win, bot)
  PROVE  LadderInv'
<1> DEFINE s == Tallied(EnsuredStats(p), win, RatingDelta(win, bot))
           e == EntryOf(p, s)
           x == [slot |-> slot, day |-> day]
           l == EnsuredLimiter(p)
<1>1. /\ boards[b].capacity # 0 /\ Consume(p)
      /\ stats' = [stats EXCEPT ![p] = s]
      /\ boards' = [boards EXCEPT ![b] = Upsert(boards[b], e)]
      /\ battles' = [battles EXCEPT ![p] = Append(battles[p], x)]
      /\ ratedOn' = [ratedOn EXCEPT ![p] = b]
      /\ UNCHANGED <<clockVars, day>> /\ profiled' = profiled
  BY DEF RecordBattle
<1>2. LeaderboardTypeOK /\ BoardsOK /\ EntriesOK /\ QuotaOK
  BY DEF LadderInv
<1>3. EnsuredStats(p) \in PlayerStats /\ l \in BattleRateLimit
  BY <1>2, EnsuredType
<1>4. s \in PlayerStats
  BY <1>3, DeltaType, TalliedType
<1> HIDE DEF s
<1>5. e \in HeapEntry /\ e.player = p /\ e.rating = s.rating
  BY <1>4, EntryType
<1>6. x \in Battle /\ x.slot = slot /\ x.day = day
  BY <1>2, SlotHashesAssumption DEF Battle, LeaderboardTypeOK, ClockTypeOK
<1> HIDE DEF e
<1>7. /\ Today(l, x) < MaxBattlesPerDay
      /\ l.recorded => slot >= l.lastSlot + CooldownSlots
      /\ limiter' = [limiter EXCEPT ![p] = Charge(l, x)]
  BY <1>1, <1>6 DEF Consume, WithinLimit, BattlesToday, Charge, Today, Fresh, NewDay
<1>8. battles \in [Wallets -> Seq(Battle)]
  BY <1>2 DEF LeaderboardTypeOK, Battle
<1>9. Tracks(l, battles[p]) /\ QuotaOf(battles[p]) /\ battles[p] \in Seq(Battle)
  BY <1>2, <1>8 DEF QuotaOK
<1>10. Charge(l, x) \in BattleRateLimit
  BY <1>3, <1>6, <1>7, ChargeType
<1>11. Tracks(Charge(l, x), Append(battles[p], x)) /\ QuotaOf(Append(battles[p], x))
  BY <1>3, <1>6, <1>7, <1>9, BattleCharged
<1>12. Append(battles[p], x) \in Seq(Battle)
  BY <1>6, <1>9, AppendProperties
<1> HIDE DEF x, l
<1>13. /\ stats' \in [Wallets -> PlayerStats \cup {NoStats}]
       /\ stats'[p] = s /\ \A q \in Wallets : q # p => stats'[q] = stats[q]
  BY <1>1, <1>4, StatsWritten
<1>14. /\ limiter' \in [Wallets -> BattleRateLimit \cup {NoLimiter}]
       /\ limiter'[p] = Charge(l, x) /\ \A q \in Wallets : q # p => limiter'[q] = limiter[q]
  BY <1>2, <1>7, <1>10 DEF LeaderboardTypeOK
<1>15. /\ battles' \in [Wallets -> Seq(Battle)]
       /\ battles'[p] = Append(battles[p], x)
       /\ \A q \in Wallets : q # p => battles'[q] = battles[q]
  BY <1>1, <1>8, <1>12
<1>16. /\ ratedOn' \in [Wallets -> Boards \cup {None}]
       /\ ratedOn'[p] = b /\ \A q \in Wallets : q # p => ratedOn'[q] = ratedOn[q]
  BY <1>1, <1>2 DEF LeaderboardTypeOK
<1>17. /\ boards' \in [Boards -> Board] /\ BoardsOK'
       /\ boards'[b] = Upsert(boards[b], e)
       /\ \A a \in Boards : a # b => boards'[a] = boards[a]
  BY <1>1, <1>5, BoardWritten
<1>18. LeaderboardTypeOK'
  <2>1. ClockTypeOK' /\ day' \in 1..DayHorizon /\ profiled' \subseteq Wallets
    BY <1>1, <1>2, ClockFrame DEF LeaderboardTypeOK
  <2>2. QED
    BY <2>1, <1>13, <1>14, <1>15, <1>16, <1>17 DEF LeaderboardTypeOK, Battle
<1>19. EntriesOK'
  <2>1. SUFFICES ASSUME NEW a \in Boards, NEW q \in Wallets, ratedOn'[q] = a
                 PROVE  stats'[q] # NoStats /\ Shown(boards'[a], q, stats'[q].rating)
    BY DEF EntriesOK
  <2>2. GoodBoard(boards[b])
    BY <1>2 DEF BoardsOK
  <2>3. /\ Shown(boards'[b], p, s.rating)
        /\ \A r, v : r # p /\ Shown(boards[b], r, v) => Shown(boards'[b], r, v)
    BY <1>1, <1>5, <1>17, <2>2, UpsertShows
  <2>4. CASE q = p
    BY <1>4, <1>13, <1>16, <2>1, <2>3, <2>4, StatsApart
  <2>5. CASE q # p
    <3>1. stats[q] # NoStats /\ Shown(boards[a], q, stats[q].rating)
      BY <1>2, <1>16, <2>1, <2>5 DEF EntriesOK
    <3>2. stats'[q] = stats[q]
      BY <1>13, <2>5
    <3>3. Shown(boards'[a], q, stats[q].rating)
      BY <1>17, <2>3, <2>5, <3>1
    <3>4. QED
      BY <3>1, <3>2, <3>3
  <2>6. QED
    BY <2>4, <2>5
<1>20. QuotaOK'
  <2>1. EnsuredLimiter(p)' = Charge(l, x)
    BY <1>10, <1>14, LimitersApart DEF EnsuredLimiter
  <2>2. \A q \in Wallets : q # p => EnsuredLimiter(q)' = EnsuredLimiter(q)
    BY <1>14 DEF EnsuredLimiter
  <2>3. ASSUME NEW q \in Wallets
        PROVE  Tracks(EnsuredLimiter(q)', battles'[q]) /\ QuotaOf(battles'[q])
    <3>1. CASE q = p
      BY <1>11, <1>15, <2>1, <3>1
    <3>2. CASE q # p
      BY <1>2, <1>15, <2>2, <3>2 DEF QuotaOK
    <3>3. QED
      BY <3>1, <3>2
  <2>4. QED
    BY <2>3 DEF QuotaOK
<1>21. QED
  BY <1>17, <1>18, <1>19, <1>20 DEF LadderInv

\* Every instruction of the PvE half keeps the invariant.
LEMMA LadderStepInv ==
  ASSUME LadderInv, LadderStep
  PROVE  LadderInv'
<1>1. CASE \E b \in Boards, c \in Capacities : InitLeaderboard(b, c)
  BY <1>1, InitLeaderboardInv
<1>2. CASE \E p \in Wallets, key \in SessionKeys : RegisterSessionKey(p, key)
  BY <1>2, RegisterSessionKeyInv
<1>3. CASE \E p \in Wallets : RevokeSessionKey(p)
  BY <1>3, RevokeSessionKeyInv
<1>4. CASE \E b \in Boards, p \in Wallets, s \in Wallets \cup SessionKeys, win, bot \in BOOLEAN :
             RecordBattle(b, p, s, win, bot)
  BY <1>4, RecordBattleInv
<1>5. CASE \E b \in Boards, p \in Wallets : SetProfile(b, p)
  BY <1>5, SetProfileInv
<1>6. QED
  BY <1>1, <1>2, <1>3, <1>4, <1>5 DEF LadderStep

\* A step outside the PvE half keeps its invariant.
LEMMA LeaderboardStutterInv ==
  ASSUME LadderInv, UNCHANGED leaderboardVars
  PROVE  LadderInv'
<1>1. /\ UNCHANGED <<clockVars, day>>
      /\ boards' = boards /\ stats' = stats /\ limiter' = limiter
      /\ profiled' = profiled /\ battles' = battles /\ ratedOn' = ratedOn
  BY DEF leaderboardVars, ladderVars
<1>2. LeaderboardTypeOK
  BY DEF LadderInv
<1>3. LeaderboardTypeOK'
  BY <1>1, <1>2, ClockFrame DEF LeaderboardTypeOK
<1>4. BoardsOK' /\ EntriesOK'
  BY <1>1, EntriesFrame
<1>5. QuotaOK'
  BY <1>1, QuotaFrame DEF EnsuredLimiter
<1>6. QED
  BY <1>3, <1>4, <1>5 DEF LadderInv

\* What the invariant is for.
LEMMA LadderInvShows ==
  ASSUME LadderInv
  PROVE  LeaderboardTypeOK /\ HeapOrder /\ EntriesCurrent /\ QuotaKept
<1>1. LeaderboardTypeOK /\ BoardsOK /\ EntriesOK /\ QuotaOK
  BY DEF LadderInv
<1>2. HeapOrder
  BY <1>1 DEF BoardsOK, GoodBoard, Ordered, HeapOrder
<1>3. EntriesCurrent
  <2>1. SUFFICES ASSUME NEW b \in Boards, NEW p \in Wallets, ratedOn[p] = b
                 PROVE  LET h == boards[b].heap IN
                        IF OnHeap(h, p)
                        THEN h[PositionOf(h, p)].rating = stats[p].rating
                        ELSE Len(h) = boards[b].capacity
    BY DEF EntriesCurrent
  <2>2. Shown(boards[b], p, stats[p].rating)
    BY <1>1, <2>1 DEF EntriesOK
  <2>3. OnHeap(boards[b].heap, p) =>
          /\ PositionOf(boards[b].heap, p) \in DOMAIN boards[b].heap
          /\ boards[b].heap[PositionOf(boards[b].heap, p)].player = p
    BY DEF OnHeap, PositionOf
  <2>4. QED
    BY <2>2, <2>3 DEF Shown
<1>4. QuotaKept
  <2>1. \A p \in Wallets : \A n : ChargedDay(p, n) = Charged(battles[p], n)
    BY DEF ChargedDay, Charged, DaysOf, Latest
  <2>2. \A p \in Wallets : \A d :
          {n \in DOMAIN battles[p] : ChargedDay(p, n) = d} = ChargedTo(battles[p], d)
    BY <2>1 DEF ChargedTo
  <2>3. \A p \in Wallets : QuotaOf(battles[p])
    BY <1>1 DEF QuotaOK
  <2>4. QED
    BY <2>2, <2>3 DEF QuotaKept, QuotaOf
<1>5. QED
  BY <1>1, <1>2, <1>3, <1>4

\* The invariant of the PvE half, for any number of boards, players and keys, and any
\* bounds: boards are heaps, entries are current, the rate limit tracks the history.
THEOREM LeaderboardInvariant == LeaderboardSpec => []LadderInv
<1>1. LeaderboardInit => LadderInv
  BY InitLadderInv
<1>2. LadderInv /\ [LeaderboardNext]_leaderboardVars => LadderInv'
  BY LadderStepInv, NextBankInv, LeaderboardStutterInv DEF LeaderboardNext
<1>3. QED
  BY <1>1, <1>2, PTL DEF LeaderboardSpec

\* Every board of arena-leaderboard is a min-heap with its weakest entry at the root,
\* whatever upserts have sifted it.
THEOREM BoardsOrdered == LeaderboardSpec => [](LeaderboardTypeOK /\ HeapOrder)
BY LadderInvShows, LeaderboardInvariant, PTL

\* The board a player last reported to shows the player as rated now, if it shows the player.
THEOREM BoardsCurrent == LeaderboardSpec => []EntriesCurrent
BY LadderInvShows, LeaderboardInvariant, PTL

\* No wallet battles beyond its cooldown and daily quota, also when the day steps back.
THEOREM QuotasKept == LeaderboardSpec => []QuotaKept
BY LadderInvShows, LeaderboardInvariant, PTL

\* record_battle is refused for its rate exactly when the battle, added to the
\* history of the wallet, would break the quota of QuotaKept, where a day that steps
\* back is charged to the latest one: no rotated key, other board or PvP fight costs
\* a battle.
QuotaExact ==
  \A p \in Wallets :
    WithinLimit(EnsuredLimiter(p)) <=> QuotaOf(Append(battles[p], [slot |-> slot, day |-> day]))

LEMMA LimitIsQuota == LadderInv => QuotaExact
<1>1. SUFFICES ASSUME LadderInv, NEW p \in Wallets
               PROVE  WithinLimit(EnsuredLimiter(p)) <=>
                        QuotaOf(Append(battles[p], [slot |-> slot, day |-> day]))
  BY DEF QuotaExact
<1> DEFINE x == [slot |-> slot, day |-> day]
           l == EnsuredLimiter(p)
<1>2. LeaderboardTypeOK /\ QuotaOK
  BY <1>1 DEF LadderInv
<1>3. l \in BattleRateLimit
  BY <1>2, EnsuredType
<1>4. x \in Battle /\ x.slot = slot /\ x.day = day
  BY <1>2, SlotHashesAssumption DEF Battle, LeaderboardTypeOK, ClockTypeOK
<1>5. battles \in [Wallets -> Seq(Battle)]
  BY <1>2 DEF LeaderboardTypeOK, Battle
<1>6. Tracks(l, battles[p]) /\ QuotaOf(battles[p]) /\ battles[p] \in Seq(Battle)
  BY <1>2, <1>5 DEF QuotaOK
<1> HIDE DEF l, x
<1>7. WithinLimit(l) <=> /\ l.recorded => x.slot >= l.lastSlot + CooldownSlots
                         /\ Today(l, x) < MaxBattlesPerDay
  BY <1>4 DEF WithinLimit, BattlesToday, Today, Fresh, NewDay
<1>8. WithinLimit(l) => QuotaOf(Append(battles[p], x))
  BY <1>3, <1>4, <1>6, <1>7, BattleCharged
<1>9. QuotaOf(Append(battles[p], x)) => WithinLimit(l)
  BY <1>3, <1>4, <1>6, <1>7, BattleRefused
<1>10. QED
  BY <1>8, <1>9 DEF l, x

\* No legitimate battle is refused: the rate limit is exact.
THEOREM LimitExact == LeaderboardSpec => []QuotaExact
BY LimitIsQuota, LeaderboardInvariant, PTL

\* A board as TopBoards sees it.
LEMMA BoardsView ==
  ASSUME LadderInv
  PROVE  /\ DOMAIN TopView = Boards
         /\ \A b \in Boards : TopView[b] = View(boards[b])
BY DEF TopView

\* What a player's stats come to is a score.
LEMMA ScoreType ==
  ASSUME NEW s \in PlayerStats
  PROVE  ScoreOf(s) \in Top!Score /\ ScoreOf(s).games = s.games
BY DEF ScoreOf, PlayerStats, Top!Score

LEMMA ScoresType == LeaderboardTypeOK => Scores \in [Wallets -> Top!Score]
<1>1. SUFFICES ASSUME LeaderboardTypeOK, NEW w \in Wallets
               PROVE  ScoreOf(EnsuredStats(w)) \in Top!Score
  BY DEF Scores
<1>2. QED
  BY <1>1, EnsuredType, ScoreType

\* Boards in play are legal boards.
LEMMA InitTop == LadderInv => Top!Init
<1>1. SUFFICES ASSUME LadderInv PROVE Top!Init
  OBVIOUS
<1>2. BoardsOK /\ Scores \in [Wallets -> Top!Score]
  BY <1>1, ScoresType DEF LadderInv
<1>3. ASSUME NEW b \in Boards
      PROVE  /\ View(boards[b]).capacity \in {0} \cup MinCapacity..MaxCapacity
             /\ Top!Legal(View(boards[b]))
  <2>1. /\ boards[b].heap \in Seq(HeapEntry) /\ OneEach(boards[b].heap)
        /\ Len(boards[b].heap) <= boards[b].capacity
        /\ boards[b].capacity \in {0} \cup MinCapacity..MaxCapacity
    BY <1>2 DEF BoardsOK, GoodBoard, Board
  <2>2. Top!Cardinality(AsSet(boards[b].heap)) = Len(boards[b].heap)
    BY <2>1, EntriesCounted, SameCount
  <2>3. \A e, f \in AsSet(boards[b].heap) : e.player = f.player => e = f
    BY <2>1 DEF AsSet, OneEach
  <2>4. AsSet(boards[b].heap) \subseteq Top!Entry
    BY <2>1, HeapType DEF AsSet, HeapEntry, Top!Entry
  <2>5. QED
    BY <2>1, <2>2, <2>3, <2>4 DEF View, Top!Legal
<1>4. \A b \in Boards : /\ TopView[b].capacity \in {0} \cup MinCapacity..MaxCapacity
                        /\ Top!Legal(TopView[b])
  BY <1>1, <1>3, BoardsView
<1>5. DOMAIN TopView = Boards
  BY <1>1, BoardsView
<1>6. QED
  BY <1>2, <1>4, <1>5 DEF Top!Init

\* One board is written, as TopBoards sees it.
LEMMA ViewExcept ==
  ASSUME LadderInv, NEW b \in Boards, NEW new,
         boards' = [boards EXCEPT ![b] = new]
  PROVE  /\ TopView'[b] = View(new)
         /\ TopView' = [TopView EXCEPT ![b] = View(new)]
         /\ new.capacity = boards[b].capacity =>
              TopView' = [TopView EXCEPT ![b].entries = AsSet(new.heap)]
<1>1. boards \in [Boards -> Board]
  BY DEF LadderInv, LeaderboardTypeOK
<1>2. boards'[b] = new /\ \A a \in Boards : a # b => boards'[a] = boards[a]
  BY <1>1
<1>3. \A a \in Boards : TopView'[a] = View(boards'[a]) /\ TopView[a] = View(boards[a])
  BY DEF TopView
<1>4. TopView' = [TopView EXCEPT ![b] = View(new)]
  BY <1>2 DEF TopView, View
<1>5. ASSUME new.capacity = boards[b].capacity
      PROVE  TopView' = [TopView EXCEPT ![b].entries = AsSet(new.heap)]
  <2>1. View(new) = [View(boards[b]) EXCEPT !.entries = AsSet(new.heap)]
    BY <1>5 DEF View
  <2>2. View(new) = [TopView[b] EXCEPT !.entries = AsSet(new.heap)]
    BY <1>3, <2>1
  <2>3. QED
    BY <1>4, <2>2
<1>6. QED
  BY <1>2, <1>3, <1>4, <1>5

\* The stats a player has after a step are those its score is taken from.
LEMMA EnsuredAfter ==
  ASSUME NEW w \in Wallets, stats'[w] \in PlayerStats
  PROVE  Scores'[w] = ScoreOf(stats'[w])
<1>1. stats'[w] # NoStats
  BY StatsApart
<1>2. QED
  BY <1>1 DEF Scores, EnsuredStats

\* The scores after a step on which the players of S, and nobody else, have played.
LEMMA ScoresPlayed ==
  ASSUME LeaderboardTypeOK, NEW S, S \subseteq Wallets,
         \A w \in S : stats'[w] \in PlayerStats /\ stats'[w].games = EnsuredStats(w).games + 1,
         \A w \in Wallets \ S : stats'[w] = stats[w]
  PROVE  Top!Played(S) /\ \A w \in S : Top!EntryOf(w) = EntryOf(w, stats'[w])
<1>1. \A w \in S : /\ Scores'[w] = ScoreOf(stats'[w])
                   /\ Scores'[w] \in Top!Score /\ Scores'[w].games = stats'[w].games
  BY EnsuredAfter, ScoreType
<1>2. \A w \in Wallets \ S : Scores'[w] = Scores[w]
  BY DEF Scores, EnsuredStats
<1>3. \A w \in Wallets : Scores[w] \in Top!Score /\ Scores[w].games = EnsuredStats(w).games
  BY EnsuredType, ScoreType DEF Scores
<1>4. Scores' \in [Wallets -> Top!Score]
  <2>1. \A w \in Wallets : Scores'[w] \in Top!Score
    BY <1>1, <1>2, <1>3
  <2>2. QED
    BY <2>1 DEF Scores
<1>5. \A w \in S : Scores'[w].games = Scores[w].games + 1
  BY <1>1, <1>3
<1>6. Top!Played(S)
  BY <1>2, <1>4, <1>5 DEF Top!Played
<1>7. ASSUME NEW w \in S PROVE Top!EntryOf(w) = EntryOf(w, stats'[w])
  <2>1. Scores'[w] = ScoreOf(stats'[w])
    BY <1>1
  <2>2. Scores'[w].rating = stats'[w].rating /\ Scores'[w].wins = stats'[w].wins
    BY <2>1 DEF ScoreOf
  <2>3. QED
    BY <2>2 DEF Top!EntryOf, EntryOf
<1>8. QED
  BY <1>6, <1>7

\* A session key, rotated or revoked, changes no score.
LEMMA SessionScores ==
  ASSUME LeaderboardTypeOK, NEW p \in Wallets, NEW key \in SessionKeys \cup {None},
         stats' = [stats EXCEPT ![p] = [EnsuredStats(p) EXCEPT !.session = key]]
  PROVE  Scores' = Scores
<1>1. EnsuredStats(p) \in PlayerStats
  BY EnsuredType
<1>2. stats'[p] = [EnsuredStats(p) EXCEPT !.session = key]
      /\ \A w \in Wallets \ {p} : stats'[w] = stats[w]
  BY DEF LeaderboardTypeOK
<1>3. /\ [EnsuredStats(p) EXCEPT !.session = key] \in PlayerStats
      /\ ScoreOf([EnsuredStats(p) EXCEPT !.session = key]) = ScoreOf(EnsuredStats(p))
  BY <1>1 DEF PlayerStats, ScoreOf
<1>4. Scores'[p] = ScoreOf(EnsuredStats(p))
  BY <1>2, <1>3, EnsuredAfter
<1>5. \A w \in Wallets : Scores'[w] = Scores[w]
  BY <1>2, <1>4 DEF Scores, EnsuredStats
<1>6. QED
  BY <1>5 DEF Scores

\* An instruction of the PvE half opens one board, reports one player's battle to one,
\* or changes neither the boards nor a score.
LEMMA TopStep ==
  ASSUME LadderInv, LadderStep \/ (boards' = boards /\ stats' = stats)
  PROVE  [Top!Next]_(Top!topVars)
<1>1. LeaderboardTypeOK /\ BoardsOK
  BY DEF LadderInv
<1>0. boards' = boards => TopView' = TopView
  BY DEF TopView
<1>2. ASSUME NEW b \in Boards, NEW c \in Capacities, InitLeaderboard(b, c)
      PROVE  Top!Next
  <2> DEFINE new == [capacity |-> c, heap |-> << >>]
  <2>1. boards[b].capacity = 0 /\ c \in MinCapacity..MaxCapacity
        /\ boards' = [boards EXCEPT ![b] = new]
    BY <1>2 DEF InitLeaderboard
  <2>2. TopView' = [TopView EXCEPT ![b] = View(new)]
    BY <2>1, ViewExcept
  <2>3. AsSet(boards[b].heap) = {} /\ AsSet(<< >>) = {}
    <3>1. boards[b].heap \in Seq(HeapEntry) /\ Len(boards[b].heap) <= 0
      BY <1>1, <2>1 DEF BoardsOK, GoodBoard, Board
    <3>2. DOMAIN boards[b].heap = {}
      BY <3>1, HeapType
    <3>3. QED
      BY <3>2, EmptySeq DEF AsSet
  <2>4. View(new) = [TopView[b] EXCEPT !.capacity = c]
    <3>1. View(boards[b]) = [capacity |-> boards[b].capacity, entries |-> {}]
      BY <2>3 DEF View
    <3>2. View(new) = [capacity |-> c, entries |-> {}]
      BY <2>3 DEF View
    <3>3. View(new) = [View(boards[b]) EXCEPT !.capacity = c]
      <4> DEFINE v == View(boards[b])
                 n == View(new)
      <4>1. v = [capacity |-> boards[b].capacity, entries |-> {}]
            /\ n = [capacity |-> c, entries |-> {}]
        BY <3>1, <3>2
      <4> HIDE DEF v, n
      <4>2. n = [v EXCEPT !.capacity = c]
        BY <4>1
      <4>3. QED
        BY <4>2 DEF v, n
    <3>4. QED
      BY <3>3, BoardsView
  <2>5. TopView[b].capacity = 0 /\ TopView' = [TopView EXCEPT ![b].capacity = c]
    BY <2>1, <2>2, <2>4 DEF TopView, View
  <2>6. Scores' = Scores
    BY <1>2 DEF InitLeaderboard, Scores, EnsuredStats
  <2>7. Top!Open(b, c)
    BY <2>1, <2>5, <2>6 DEF Top!Open
  <2>8. QED
    BY <2>1, <2>7 DEF Top!Next
<1>3. ASSUME NEW b \in Boards, NEW p \in Wallets, NEW signer, NEW win \in BOOLEAN,
             NEW bot \in BOOLEAN, RecordBattle(b, p, signer, win, bot)
      PROVE  Top!Next
  <2> DEFINE s == Tallied(EnsuredStats(p), win, RatingDelta(win, bot))
             e == EntryOf(p, s)
             new == Upsert(boards[b], e)
             E == AsSet(boards[b].heap)
             F == AsSet(new.heap)
  <2>1. /\ boards[b].capacity # 0 /\ boards' = [boards EXCEPT ![b] = new]
        /\ stats' = [stats EXCEPT ![p] = s]
    BY <1>3 DEF RecordBattle
  <2> HIDE DEF e, new
  <2>2. s \in PlayerStats /\ s.games = EnsuredStats(p).games + 1
    BY <1>1, EnsuredType, DeltaType, TalliedType
  <2> HIDE DEF s
  <2>11. e \in HeapEntry
    BY <2>2, EntryType DEF e
  <2>3. stats'[p] = s /\ \A w \in Wallets \ {p} : stats'[w] = stats[w]
    BY <1>1, <2>1 DEF LeaderboardTypeOK
  <2>4. Top!Played({p}) /\ Top!EntryOf(p) = e
    BY <1>1, <2>2, <2>3, ScoresPlayed DEF e
  <2>5. Upserted(new, boards[b], e)
    BY <1>1, <2>1, <2>11, UpsertGood DEF BoardsOK, new
  <2>6. new.capacity = boards[b].capacity /\ F \in Top!Offered(E, boards[b].capacity, e)
    BY <2>5 DEF Upserted
  <2>7. /\ TopView' = [TopView EXCEPT ![b].entries = F]
        /\ TopView[b] = View(boards[b])
    BY <2>1, <2>6, ViewExcept, BoardsView
  <2>8. TopView[b].entries = E /\ TopView[b].capacity = boards[b].capacity
    BY <2>7 DEF View
  <2> HIDE DEF E, F
  <2>9. Top!Battle(b, p)
    BY <2>1, <2>4, <2>6, <2>7, <2>8 DEF Top!Battle
  <2>10. QED
    BY <2>9 DEF Top!Next
<1>4. ASSUME NEW p \in Wallets, NEW key \in SessionKeys, RegisterSessionKey(p, key)
      PROVE  boards' = boards /\ Scores' = Scores
  BY <1>1, <1>4, SessionScores DEF RegisterSessionKey
<1>5. ASSUME NEW p \in Wallets, RevokeSessionKey(p)
      PROVE  boards' = boards /\ Scores' = Scores
  <2>1. stats' = [stats EXCEPT ![p] = [EnsuredStats(p) EXCEPT !.session = None]]
    BY <1>5 DEF RevokeSessionKey, EnsuredStats
  <2>2. QED
    BY <1>1, <1>5, <2>1, SessionScores DEF RevokeSessionKey
<1>6. boards' = boards /\ stats' = stats => boards' = boards /\ Scores' = Scores
  BY DEF Scores, EnsuredStats
<1>7. ASSUME NEW b \in Boards, NEW p \in Wallets, SetProfile(b, p)
      PROVE  boards' = boards /\ Scores' = Scores
  BY <1>6, <1>7 DEF SetProfile
<1>8. Top!Next \/ (boards' = boards /\ Scores' = Scores)
  BY <1>2, <1>3, <1>4, <1>5, <1>6, <1>7 DEF LadderStep
<1>9. QED
  BY <1>0, <1>8 DEF Top!topVars

\* The heaps of arena-leaderboard implement bounded sets of entries: no sift loses or
\* duplicates an entry, what is written is the score of the player who has just played,
\* and only a weakest entry is displaced, by a newcomer that strictly beats it.
THEOREM LeaderboardRefinesTopBoards == LeaderboardSpec => ImplementsTopBoards
<1>1. LeaderboardInit => Top!Init
  BY InitLadderInv, InitTop
<1>2. LadderInv /\ [LeaderboardNext]_leaderboardVars => [Top!Next]_(Top!topVars)
  <2>1. [LeaderboardNext]_leaderboardVars => LadderStep \/ (boards' = boards /\ stats' = stats)
    BY DEF LeaderboardNext, leaderboardVars, ladderVars
  <2>2. QED
    BY <2>1, TopStep
<1>3. QED
  BY <1>1, <1>2, LeaderboardInvariant, PTL
     DEF LeaderboardSpec, ImplementsTopBoards, Top!Spec

-----------------------------------------------------------------------------
(* The Elo exchange *)

\* q and r are quotient and remainder of x by n.
Divides(qr, x, n) ==
  /\ qr = <<qr[1], qr[2]>>
  /\ qr[1] \in Nat /\ qr[2] \in Nat
  /\ qr[2] < n
  /\ qr[1] * n + qr[2] = x

\* A number is its quotient times n, plus its remainder.
LEMMA DivMod ==
  ASSUME NEW x \in Nat, NEW n \in Nat \ {0}
  PROVE  /\ x \div n \in Nat /\ x % n \in Nat /\ x % n < n
         /\ (x \div n) * n + (x % n) = x
<1>1. x = n * (x \div n) + (x % n) /\ x % n \in 0..n-1 /\ x \div n \in Nat
  OBVIOUS
<1>2. QED
  BY <1>1

\* A round of the long division keeps its equation, ten times as large.
LEMMA NextDigitDivides ==
  ASSUME NEW n \in Nat \ {0}, NEW x \in Nat, NEW qr, Divides(qr, x, n)
  PROVE  Divides(NextDigit(qr, n), 10 * x, n)
<1> DEFINE q == qr[1]
           r == qr[2]
           y == 10 * r
           d == y \div n
           m == y % n
<1>1. q \in Nat /\ r \in Nat /\ q * n + r = x
  BY DEF Divides
<1>2. NextDigit(qr, n) = <<10 * q + d, m>>
  BY DEF NextDigit
<1> HIDE DEF q, r
<1>3. y \in Nat
  BY <1>1
<1> HIDE DEF y
<1>4. d \in Nat /\ m \in Nat /\ m < n /\ d * n + m = y
  BY <1>3, DivMod
<1> HIDE DEF d, m
<1>5. (10 * q + d) * n = 10 * (q * n) + d * n
  BY <1>1, <1>4
<1>6. (10 * q + d) * n + m = 10 * (q * n) + y
  BY <1>1, <1>3, <1>4, <1>5
<1>7. 10 * (q * n) + y = 10 * x
  BY <1>1, <1>3 DEF y
<1>8. 10 * q + d \in Nat
  BY <1>1, <1>4
<1>9. QED
  BY <1>2, <1>4, <1>6, <1>7, <1>8 DEF Divides

\* The long division of the model is the division FP * FP / n the code makes in i64.
LEMMA FpSquaredIsQuotient ==
  ASSUME NEW n \in Nat \ {0}
  PROVE  \E r \in Nat : /\ FpSquaredOver(n) \in Nat /\ r < n
                        /\ FpSquaredOver(n) * n + r = EloFP * EloFP
<1> DEFINE digits[i \in 0..6] ==
             IF i = 0 THEN <<EloFP \div n, EloFP % n>> ELSE NextDigit(digits[i - 1], n)
           d0 == <<EloFP \div n, EloFP % n>>
           d1 == NextDigit(d0, n)
           d2 == NextDigit(d1, n)
           d3 == NextDigit(d2, n)
           d4 == NextDigit(d3, n)
           d5 == NextDigit(d4, n)
           d6 == NextDigit(d5, n)
           Rule(g) == g = [i \in 0..6 |-> IF i = 0 THEN d0 ELSE NextDigit(g[i - 1], n)]
<1>1. Divides(d0, EloFP, n)
  <2>1. EloFP \in Nat
    BY DEF EloFP
  <2>2. QED
    BY <2>1, DivMod DEF Divides
<1> HIDE DEF d0
<1>2. Rule(digits)
  <2> DEFINE g == [i \in 0..6 |-> CASE i = 0 -> d0 [] i = 1 -> d1 [] i = 2 -> d2 [] i = 3 -> d3
                                    [] i = 4 -> d4 [] i = 5 -> d5 [] i = 6 -> d6]
  <2>1. g[0] = d0 /\ g[1] = d1 /\ g[2] = d2 /\ g[3] = d3 /\ g[4] = d4 /\ g[5] = d5 /\ g[6] = d6
    OBVIOUS
  <2>2. \A i \in 0..6 : i = 0 \/ i = 1 \/ i = 2 \/ i = 3 \/ i = 4 \/ i = 5 \/ i = 6
    OBVIOUS
  <2>3. \A i \in 0..6 : g[i] = IF i = 0 THEN d0 ELSE NextDigit(g[i - 1], n)
    BY <2>1, <2>2
  <2>4. Rule(g)
    BY <2>3
  <2> HIDE DEF g
  <2>5. digits = CHOOSE f : Rule(f)
    BY DEF d0
  <2>6. QED
    <3> HIDE DEF digits, Rule
    <3>1. QED
      BY <2>4, <2>5
<1>3. FpSquaredOver(n) = digits[6][1]
  BY DEF FpSquaredOver
<1> HIDE DEF digits
<1>4. digits[6] = d6
  <2>1. digits[0] = d0
    BY <1>2
  <2>2. \A i \in 1..6 : digits[i] = NextDigit(digits[i - 1], n)
    BY <1>2
  <2> HIDE DEF Rule
  <2>3. digits[1] = d1
    BY <2>1, <2>2
  <2>4. digits[2] = d2
    BY <2>2, <2>3
  <2>5. digits[3] = d3
    BY <2>2, <2>4
  <2>6. digits[4] = d4
    BY <2>2, <2>5
  <2>7. digits[5] = d5
    BY <2>2, <2>6
  <2>8. QED
    BY <2>2, <2>7
<1> HIDE DEF Rule, d1, d2, d3, d4, d5, d6
<1>5. Divides(d6, 10 * (10 * (10 * (10 * (10 * (10 * EloFP))))), n)
  <2>1. EloFP \in Nat
    BY DEF EloFP
  <2> DEFINE x1 == 10 * EloFP
             x2 == 10 * x1
             x3 == 10 * x2
             x4 == 10 * x3
             x5 == 10 * x4
             x6 == 10 * x5
  <2>2. x1 \in Nat /\ x2 \in Nat /\ x3 \in Nat /\ x4 \in Nat /\ x5 \in Nat
    BY <2>1
  <2> HIDE DEF x1, x2, x3, x4, x5
  <2>3. Divides(d1, x1, n)
    BY <1>1, <2>1, NextDigitDivides DEF d1, x1
  <2>4. Divides(d2, x2, n)
    BY <2>2, <2>3, NextDigitDivides DEF d2, x2
  <2>5. Divides(d3, x3, n)
    BY <2>2, <2>4, NextDigitDivides DEF d3, x3
  <2>6. Divides(d4, x4, n)
    BY <2>2, <2>5, NextDigitDivides DEF d4, x4
  <2>7. Divides(d5, x5, n)
    BY <2>2, <2>6, NextDigitDivides DEF d5, x5
  <2>8. Divides(d6, x6, n)
    BY <2>2, <2>7, NextDigitDivides DEF d6
  <2>9. QED
    BY <2>8 DEF x1, x2, x3, x4, x5
<1>6. 10 * (10 * (10 * (10 * (10 * (10 * EloFP))))) = EloFP * EloFP
  BY SMT DEF EloFP
<1>7. QED
  BY <1>3, <1>4, <1>5, <1>6 DEF Divides

\* The fixed-point one is a positive number.
LEMMA FpType == EloFP \in Nat \ {0} /\ 100 * EloFP \in Nat
BY SMT DEF EloFP

\* The table starts at one, ends at a hundred and rises from entry to entry.
LEMMA TableFacts ==
  /\ \A i \in 1..21 : Pow10Table[i] \in EloFP..100 * EloFP
  /\ \A i \in 1..20 : Pow10Table[i] <= Pow10Table[i + 1]
<1>1. /\ Pow10Table[1] = 1000000 /\ Pow10Table[2] = 1258925 /\ Pow10Table[3] = 1584893
      /\ Pow10Table[4] = 1995262 /\ Pow10Table[5] = 2511886 /\ Pow10Table[6] = 3162278
      /\ Pow10Table[7] = 3981072 /\ Pow10Table[8] = 5011872 /\ Pow10Table[9] = 6309573
      /\ Pow10Table[10] = 7943282 /\ Pow10Table[11] = 10000000 /\ Pow10Table[12] = 12589254
      /\ Pow10Table[13] = 15848932 /\ Pow10Table[14] = 19952623 /\ Pow10Table[15] = 25118864
      /\ Pow10Table[16] = 31622777 /\ Pow10Table[17] = 39810717 /\ Pow10Table[18] = 50118723
      /\ Pow10Table[19] = 63095734 /\ Pow10Table[20] = 79432823 /\ Pow10Table[21] = 100000000
  BY SMT DEF Pow10Table
<1> HIDE DEF Pow10Table
<1>2. \A i \in 1..21 : \/ i = 1 \/ i = 2 \/ i = 3 \/ i = 4 \/ i = 5 \/ i = 6 \/ i = 7
                       \/ i = 8 \/ i = 9 \/ i = 10 \/ i = 11 \/ i = 12 \/ i = 13 \/ i = 14
                       \/ i = 15 \/ i = 16 \/ i = 17 \/ i = 18 \/ i = 19 \/ i = 20 \/ i = 21
  OBVIOUS
<1>3. \A i \in 1..21 : Pow10Table[i] \in EloFP..100 * EloFP
  <2>1. EloFP = 1000000
    BY SMT DEF EloFP
  <2>2. \A i \in 1..21 : Pow10Table[i] \in Int /\ 1000000 <= Pow10Table[i]
                         /\ Pow10Table[i] <= 100 * 1000000
    BY <1>1, <1>2, SMT
  <2>3. ASSUME NEW i \in 1..21 PROVE Pow10Table[i] \in EloFP..100 * EloFP
    <3>1. EloFP <= Pow10Table[i] /\ Pow10Table[i] <= 100 * EloFP
      BY <2>1, <2>2, SMT
    <3>2. QED
      BY <2>2, <3>1, FpType, SMT
  <2>4. QED
    BY <2>3
<1>4. \A i \in 1..20 : Pow10Table[i] <= Pow10Table[i + 1]
  BY <1>1, <1>2, SMT
<1>5. QED
  BY <1>3, <1>4

\* A part of a whole is no more than the whole.
LEMMA Share ==
  ASSUME NEW a \in Nat, NEW m \in 0..39
  PROVE  (a * m) \div 40 \in 0..a
<1>1. a * m \in Nat
  OBVIOUS
<1>2. a * m <= a * 40
  <2>1. a * 40 = a * m + a * (40 - m) /\ a * (40 - m) \in Nat
    OBVIOUS
  <2>2. QED
    BY <1>1, <2>1
<1> DEFINE x == a * m
           q == x \div 40
<1> HIDE DEF x
<1>3. q \in Nat /\ 40 * q <= x
  BY <1>1 DEF x
<1> HIDE DEF q
<1>4. q <= a
  BY <1>1, <1>2, <1>3 DEF x
<1>5. QED
  BY <1>3, <1>4 DEF q, x

\* pow10_pos_fp lies between one and a hundred.
LEMMA Pow10PosType ==
  ASSUME NEW d \in 0..800
  PROVE  Pow10Pos(d) \in EloFP..100 * EloFP
<1> DEFINE idx == (d \div 40) + 1
<1>1. idx \in 1..21 /\ d % 40 \in 0..39
  OBVIOUS
<1>2. CASE idx >= 21
  <2>1. Pow10Pos(d) = Pow10Table[21]
    BY <1>2 DEF Pow10Pos
  <2>2. QED
    BY <2>1, TableFacts
<1>3. CASE ~(idx >= 21)
  <2> DEFINE low == Pow10Table[idx]
             high == Pow10Table[idx + 1]
             part == ((high - low) * (d % 40)) \div 40
  <2>1. idx \in 1..20 /\ idx + 1 \in 1..21
    BY <1>1, <1>3
  <2>2. Pow10Pos(d) = low + part
    BY <1>3 DEF Pow10Pos
  <2> HIDE DEF idx
  <2>3. low \in EloFP..100 * EloFP /\ high \in EloFP..100 * EloFP /\ low <= high
    BY <1>1, <2>1, TableFacts
  <2> HIDE DEF low, high
  <2>4. high - low \in Nat
    BY <2>3, FpType
  <2>5. part \in 0..high - low
    BY <1>1, <2>4, Share
  <2> HIDE DEF part
  <2>6. QED
    BY <2>2, <2>3, <2>5, FpType
<1>4. QED
  BY <1>2, <1>3

\* Equal ratings: the ratio is one.
LEMMA Pow10AtZero == Pow10Pos(0) = EloFP
<1>1. (0 \div 40) + 1 = 1 /\ 0 % 40 = 0
  OBVIOUS
<1>2. Pow10Pos(0) = Pow10Table[1] + (((Pow10Table[2] - Pow10Table[1]) * 0) \div 40)
  BY <1>1 DEF Pow10Pos
<1>3. Pow10Table[1] = EloFP /\ Pow10Table[2] \in Int
  BY SMT DEF Pow10Table, EloFP
<1>4. EloFP \in Int
  BY SMT DEF EloFP
<1>5. QED
  BY <1>2, <1>3, <1>4

\* What two ratios in opposite directions are to each other: one is p, the other 10^12 / p.
Inverses(p, q) ==
  /\ p \in EloFP..100 * EloFP /\ q \in Nat
  /\ p * q <= EloFP * EloFP
  /\ EloFP * EloFP < p * q + p

\* The quotient of FP * FP by n, without the division.
LEMMA FpSquaredBounds ==
  ASSUME NEW n \in Nat \ {0}
  PROVE  LET q == FpSquaredOver(n) IN
         q \in Nat /\ q * n <= EloFP * EloFP /\ EloFP * EloFP < q * n + n
<1>1. PICK r \in Nat : /\ FpSquaredOver(n) \in Nat /\ r < n
                       /\ FpSquaredOver(n) * n + r = EloFP * EloFP
  BY FpSquaredIsQuotient
<1>2. EloFP * EloFP \in Nat
  BY FpType
<1> DEFINE x == FpSquaredOver(n) * n
<1>3. x \in Nat /\ x + r = EloFP * EloFP
  BY <1>1, <1>2
<1> HIDE DEF x
<1>4. x <= EloFP * EloFP /\ EloFP * EloFP < x + n
  BY <1>1, <1>3
<1>5. QED
  BY <1>1, <1>4 DEF x

\* The difference the table covers.
Clamped(d) == CASE d < -800 -> -800 [] d > 800 -> 800 [] OTHER -> d

\* Of the ratios of two opposite differences one is the rounded inverse of the other.
LEMMA RatiosInverse ==
  ASSUME NEW diff \in Int
  PROVE  \/ Inverses(Pow10Ratio(diff), Pow10Ratio(-diff))
         \/ Inverses(Pow10Ratio(-diff), Pow10Ratio(diff))
<1> DEFINE d == Clamped(diff)
           e == Clamped(-diff)
           Ratio(c) == IF c < 0 THEN FpSquaredOver(Pow10Pos(-c)) ELSE Pow10Pos(c)
<1>1. d \in -800..800 /\ e = -d
  BY DEF Clamped
<1>2. Pow10Ratio(diff) = Ratio(d) /\ Pow10Ratio(-diff) = Ratio(e)
  BY DEF Pow10Ratio, Clamped
<1> HIDE DEF d, e
<1>3. ASSUME NEW c \in 0..800 PROVE Inverses(Pow10Pos(c), FpSquaredOver(Pow10Pos(c)))
  <2> DEFINE p == Pow10Pos(c)
             q == FpSquaredOver(p)
  <2>1. p \in EloFP..100 * EloFP
    BY Pow10PosType
  <2> HIDE DEF p
  <2>2. p \in Nat \ {0}
    BY <2>1, FpType
  <2>3. q \in Nat /\ q * p <= EloFP * EloFP /\ EloFP * EloFP < q * p + p
    BY <2>2, FpSquaredBounds
  <2> HIDE DEF q
  <2>4. q * p = p * q
    BY <2>2, <2>3
  <2>5. QED
    BY <2>1, <2>3, <2>4 DEF Inverses, p, q
<1>4. CASE d > 0
  <2>1. d \in 0..800 /\ e < 0 /\ -e = d /\ ~(d < 0)
    BY <1>1, <1>4
  <2>2. Ratio(d) = Pow10Pos(d) /\ Ratio(e) = FpSquaredOver(Pow10Pos(d))
    BY <2>1
  <2>3. QED
    BY <1>2, <1>3, <2>1, <2>2
<1>5. CASE d < 0
  <2>1. e \in 0..800 /\ d < 0 /\ -d = e /\ ~(e < 0)
    BY <1>1, <1>5
  <2>2. Ratio(e) = Pow10Pos(e) /\ Ratio(d) = FpSquaredOver(Pow10Pos(e))
    BY <2>1
  <2>3. QED
    BY <1>2, <1>3, <2>1, <2>2
<1>6. CASE d = 0
  <2>1. Ratio(d) = EloFP /\ Ratio(e) = EloFP
    BY <1>1, <1>6, Pow10AtZero
  <2>2. Inverses(EloFP, EloFP)
    BY FpType, SMT DEF Inverses
  <2>3. QED
    BY <1>2, <2>1, <2>2
<1>7. QED
  BY <1>1, <1>4, <1>5, <1>6

\* Multiplication by a natural is monotone.
LEMMA TimesMono ==
  ASSUME NEW a \in Int, NEW b \in Int, NEW c \in Nat, a <= b
  PROVE  a * c <= b * c
<1>1. (b - a) * c \in Nat
  OBVIOUS
<1>2. b * c = a * c + (b - a) * c
  OBVIOUS
<1>3. a * c \in Int /\ b * c \in Int
  OBVIOUS
<1>4. QED
  BY <1>1, <1>2, <1>3

\* The expected scores of two players are a and b: quotients of f * f by f + p and
\* f + q, where q is the quotient of f * f by p. They add up to f, or one less.
LEMMA Complement ==
  ASSUME NEW f \in Nat, f >= 101, NEW p \in Nat, f <= p, p <= 100 * f, NEW q \in Nat,
         NEW a \in Nat, NEW b \in Nat,
         p * q <= f * f, f * f < p * q + p,
         a * (f + p) <= f * f, f * f < a * (f + p) + (f + p),
         b * (f + q) <= f * f, f * f < b * (f + q) + (f + q)
  PROVE  a <= f /\ b <= f /\ a + b \in {f - 1, f}
<1> DEFINE s == f + p
           ff == f * f
<1>1. s \in Nat /\ ff \in Nat /\ f <= s /\ p < s /\ s <= 101 * f
  OBVIOUS
<1>2. f * s = ff + f * p /\ f * p \in Nat
  OBVIOUS
<1>3. a * s \in Nat /\ a * s <= ff /\ ff < a * s + s
  OBVIOUS
<1>4. a <= f /\ b <= f
  <2>1. \A x, y \in Nat : f <= y /\ x * y <= ff => x <= f
    <3>1. SUFFICES ASSUME NEW x \in Nat, NEW y \in Nat, f <= y, x * y <= ff, f + 1 <= x
                   PROVE  FALSE
      OBVIOUS
    <3>2. (f + 1) * y <= x * y
      BY <3>1, TimesMono
    <3>3. f * (f + 1) <= y * (f + 1)
      BY <3>1, TimesMono
    <3>4. f * (f + 1) = ff + f /\ y * (f + 1) = (f + 1) * y
      OBVIOUS
    <3>5. x * y \in Nat /\ (f + 1) * y \in Nat
      OBVIOUS
    <3>6. QED
      BY <1>1, <3>1, <3>2, <3>3, <3>4, <3>5
  <2>2. f <= f + q /\ f + q \in Nat /\ b * (f + q) <= ff
    OBVIOUS
  <2>3. QED
    BY <1>1, <1>3, <2>1, <2>2
<1>5. a >= 1
  <2>1. SUFFICES ASSUME a = 0 PROVE FALSE
    OBVIOUS
  <2>2. a * s = 0
    BY <1>1, <2>1
  <2>3. 101 * f <= f * f
    BY TimesMono
  <2>4. QED
    BY <1>1, <1>3, <2>2, <2>3
<1>6. a + b <= f
  <2>1. SUFFICES ASSUME f + 1 <= a + b PROVE FALSE
    OBVIOUS
  <2> DEFINE c == f + 1 - a
  <2>2. c \in Nat /\ c <= b /\ c <= f /\ c >= 1
    BY <1>4, <1>5, <2>1
  <2>3. c * s = f * s + s - a * s
    BY <1>1
  <2> HIDE DEF c
  <2>4. c * (f + q) <= ff
    <3>1. c * (f + q) <= b * (f + q)
      BY <2>2, TimesMono
    <3>2. c * (f + q) \in Nat /\ b * (f + q) \in Nat
      BY <2>2
    <3>3. QED
      BY <1>1, <3>1, <3>2
  <2>5. (c * (f + q)) * p <= ff * p
    BY <1>1, <2>2, <2>4, TimesMono
  <2>6. (c * (f + q)) * p = (f * p) * c + (p * q) * c
    BY <2>2
  <2>7. (ff - p) * c <= (p * q) * c
    <3>1. ff - p <= p * q /\ ff - p \in Int /\ p * q \in Int
      BY <1>1
    <3>2. QED
      BY <2>2, <3>1, TimesMono
  <2>8. (ff - p) * c = ff * c - p * c
    BY <1>1, <2>2
  <2>9. ff * c + (f * p) * c = (c * s) * f
    BY <2>2
  <2>10. c * s >= f * p + s
    <3>1. f * s + s - a * s >= f * p + s
      BY <1>1, <1>2, <1>3
    <3>2. QED
      BY <2>3, <3>1
  <2>11. (f * p + s) * f <= (c * s) * f
    <3>1. c * s \in Int /\ f * p + s \in Int
      BY <1>1, <1>2, <2>2
    <3>2. QED
      BY <2>10, <3>1, TimesMono
  <2>12. (f * p + s) * f = ff * p + s * f
    OBVIOUS
  <2>13. p * c <= f * p
    <3>1. c * p <= f * p
      BY <2>2, TimesMono
    <3>2. c * p = p * c
      BY <2>2
    <3>3. QED
      BY <3>1, <3>2
  <2>14. f * p < s * f
    <3>1. s * f = f * p + ff
      OBVIOUS
    <3>2. ff >= 1
      <4>1. 101 * f <= f * f
        BY TimesMono
      <4>2. QED
        BY <1>1, <4>1
    <3>3. QED
      BY <1>1, <1>2, <3>1, <3>2
  <2> DEFINE x1 == (f * p) * c
             x2 == (p * q) * c
             x3 == ff * p
             x4 == ff * c
             x5 == p * c
             x6 == (c * s) * f
             x7 == s * f
             x8 == f * p
  <2>15. x1 \in Int /\ x2 \in Int /\ x3 \in Int /\ x4 \in Int /\ x5 \in Int /\ x6 \in Int
         /\ x7 \in Int /\ x8 \in Int
    BY <1>1, <2>2
  <2>16. x1 + x2 <= x3 /\ x4 - x5 <= x2 /\ x4 + x1 = x6 /\ x3 + x7 <= x6 /\ x5 <= x8 /\ x8 < x7
    BY <2>5, <2>6, <2>7, <2>8, <2>9, <2>11, <2>12, <2>13, <2>14
  <2> HIDE DEF x1, x2, x3, x4, x5, x6, x7, x8
  <2>17. QED
    BY <2>15, <2>16
<1>7. f - 1 <= a + b
  <2>1. SUFFICES ASSUME a + b + 2 <= f PROVE FALSE
    OBVIOUS
  <2> DEFINE d == f - 1 - a
  <2>2. d \in Nat /\ b + 1 <= d
    BY <2>1
  <2>3. d * s = f * s - s - a * s
    BY <1>1
  <2> HIDE DEF d
  <2>4. ff < d * (f + q)
    <3>1. (b + 1) * (f + q) <= d * (f + q)
      BY <2>2, TimesMono
    <3>2. (b + 1) * (f + q) = b * (f + q) + (f + q)
      OBVIOUS
    <3>3. d * (f + q) \in Nat /\ b * (f + q) \in Nat
      BY <2>2
    <3>4. QED
      BY <1>1, <3>1, <3>2, <3>3
  <2>5. (ff + 1) * p <= (d * (f + q)) * p
    <3>1. ff + 1 <= d * (f + q) /\ d * (f + q) \in Int
      BY <1>1, <2>2, <2>4
    <3>2. QED
      BY <1>1, <3>1, TimesMono
  <2>6. (ff + 1) * p = ff * p + p
    BY <1>1
  <2>7. (d * (f + q)) * p = (f * p) * d + (p * q) * d
    BY <2>2
  <2>8. (p * q) * d <= ff * d
    <3>1. p * q \in Int
      OBVIOUS
    <3>2. QED
      BY <1>1, <2>2, <3>1, TimesMono
  <2>9. ff * d + (f * p) * d = (d * s) * f
    BY <2>2
  <2>10. d * s <= f * p
    <3>1. f * s - s - a * s <= f * p
      BY <1>1, <1>2, <1>3
    <3>2. QED
      BY <2>3, <3>1
  <2>11. (d * s) * f <= (f * p) * f
    <3>1. d * s \in Int /\ f * p \in Int
      BY <1>1, <2>2
    <3>2. QED
      BY <2>10, <3>1, TimesMono
  <2>12. (f * p) * f = ff * p
    OBVIOUS
  <2> DEFINE x1 == (f * p) * d
             x2 == (p * q) * d
             x3 == ff * p
             x4 == ff * d
             x6 == (d * s) * f
  <2>13. x1 \in Int /\ x2 \in Int /\ x3 \in Int /\ x4 \in Int /\ x6 \in Int
    BY <1>1, <2>2
  <2>14. x3 + p <= x1 + x2 /\ x2 <= x4 /\ x4 + x1 = x6 /\ x6 <= x3 /\ p >= 1
    BY <2>5, <2>6, <2>7, <2>8, <2>9, <2>11, <2>12
  <2> HIDE DEF x1, x2, x3, x4, x6
  <2>15. QED
    BY <2>13, <2>14
<1>8. QED
  BY <1>4, <1>6, <1>7

\* The expected scores of the two sides add up to one, or to the least bit less.
LEMMA ScoresComplement ==
  ASSUME NEW ra \in Int, NEW rb \in Int
  PROVE  LET a == ExpectedScoreA(ra, rb)
             b == ExpectedScoreA(rb, ra)
         IN a \in Nat /\ b \in Nat /\ a <= EloFP /\ b <= EloFP /\ a + b \in {EloFP - 1, EloFP}
<1> DEFINE f == EloFP
           u == Pow10Ratio(rb - ra)
           v == Pow10Ratio(-(rb - ra))
           a == FpSquaredOver(f + u)
           b == FpSquaredOver(f + v)
<1>1. f \in Nat /\ f >= 101
  BY SMT DEF EloFP
<1>2. ExpectedScoreA(ra, rb) = a /\ ExpectedScoreA(rb, ra) = b
  <2>1. ra - rb = -(rb - ra)
    OBVIOUS
  <2>2. QED
    BY <2>1 DEF ExpectedScoreA
<1>3. rb - ra \in Int
  OBVIOUS
<1>4. Inverses(u, v) \/ Inverses(v, u)
  BY <1>3, RatiosInverse
<1> HIDE DEF u, v
<1>5. ASSUME NEW p, NEW q, Inverses(p, q)
      PROVE  LET x == FpSquaredOver(f + p)
                 y == FpSquaredOver(f + q)
             IN x \in Nat /\ y \in Nat /\ x <= f /\ y <= f /\ x + y \in {f - 1, f}
  <2>1. /\ p \in Nat /\ f <= p /\ p <= 100 * f /\ q \in Nat
        /\ p * q <= f * f /\ f * f < p * q + p
    BY <1>1, <1>5 DEF Inverses
  <2>2. f + p \in Nat \ {0} /\ f + q \in Nat \ {0}
    BY <1>1, <2>1
  <2> DEFINE x == FpSquaredOver(f + p)
             y == FpSquaredOver(f + q)
  <2>3. /\ x \in Nat /\ x * (f + p) <= f * f /\ f * f < x * (f + p) + (f + p)
        /\ y \in Nat /\ y * (f + q) <= f * f /\ f * f < y * (f + q) + (f + q)
    BY <2>2, FpSquaredBounds
  <2> HIDE DEF x, y, f
  <2>4. x <= f /\ y <= f /\ x + y \in {f - 1, f}
    BY <1>1, <2>1, <2>3, Complement
  <2>5. QED
    BY <2>3, <2>4 DEF x, y, f
<1>6. CASE Inverses(u, v)
  BY <1>2, <1>5, <1>6
<1>7. CASE Inverses(v, u)
  <2>1. a \in Nat /\ b \in Nat /\ b <= f /\ a <= f /\ b + a \in {f - 1, f}
    BY <1>5, <1>7
  <2> HIDE DEF a, b, f
  <2>2. a + b \in {f - 1, f}
    BY <1>1, <2>1
  <2>3. QED
    BY <1>2, <2>1, <2>2 DEF f
<1>8. QED
  BY <1>4, <1>6, <1>7

\* A rounded quotient by EloFP, of a number or its negative.
Rounded(x) == (x + (EloFP \div 2)) \div EloFP

\* round_div is the same for a number and its negative, but for the sign.
LEMMA RoundDivFacts ==
  ASSUME NEW x \in Nat
  PROVE  /\ Rounded(x) \in Nat
         /\ Rounded(x) * EloFP <= x + (EloFP \div 2)
         /\ x + (EloFP \div 2) < Rounded(x) * EloFP + EloFP
         /\ RoundDiv(x, EloFP) = Rounded(x)
         /\ RoundDiv(-x, EloFP) = -Rounded(x)
<1> DEFINE h == EloFP \div 2
           y == x + h
           m == y % EloFP
           k == y \div EloFP
<1>1. EloFP \in Nat \ {0}
  BY FpType
<1>2. h \in Nat /\ h < EloFP
  BY <1>1
<1>3. y \in Nat
  BY <1>2
<1> HIDE DEF y
<1>4. k \in Nat /\ m \in Nat /\ m < EloFP /\ k * EloFP + m = y
  BY <1>1, <1>3, DivMod
<1>5. Rounded(x) = k
  BY DEF Rounded, y
<1> HIDE DEF k, m
<1>6. k * EloFP <= y /\ y < k * EloFP + EloFP
  <2> DEFINE z == k * EloFP
  <2>1. z \in Nat
    BY <1>1, <1>4
  <2> HIDE DEF z
  <2>2. z <= y /\ y < z + EloFP
    BY <1>1, <1>3, <1>4, <2>1 DEF z
  <2>3. QED
    BY <2>2 DEF z
<1>7. RoundDiv(x, EloFP) = Rounded(x)
  BY DEF RoundDiv, Rounded
<1>8. RoundDiv(-x, EloFP) = -Rounded(x)
  <2>1. CASE x = 0
    <3>1. -x = x
      <4>1. x <= 0 /\ 0 <= x
        BY <2>1
      <4>2. QED
        BY <4>1
    <3>2. RoundDiv(-x, EloFP) = Rounded(x)
      BY <1>7, <3>1
    <3>3. k = 0
      <4>1. y = h
        BY <1>2, <2>1 DEF y
      <4>2. SUFFICES ASSUME k >= 1 PROVE FALSE
        BY <1>4
      <4>3. 1 * EloFP <= k * EloFP
        BY <1>1, <1>4, <4>2, TimesMono
      <4>4. k * EloFP \in Nat
        BY <1>1, <1>4
      <4> HIDE DEF h
      <4>5. QED
        BY <1>1, <1>2, <1>6, <4>1, <4>3, <4>4
    <3>4. QED
      BY <1>5, <3>2, <3>3
  <2>2. CASE x # 0
    <3>1. ~(-x >= 0) /\ -(-x) = x
      BY <2>2
    <3>2. RoundDiv(-x, EloFP) = -((-(-x) + (EloFP \div 2)) \div EloFP)
      BY <3>1 DEF RoundDiv
    <3>3. QED
      BY <3>1, <3>2 DEF Rounded
  <2>3. QED
    BY <2>1, <2>2
<1>9. QED
  BY <1>4, <1>5, <1>6, <1>7, <1>8 DEF y, h

\* The rounded halves of two numbers less than EloFP apart differ by at most one.
LEMMA RoundedNear ==
  ASSUME NEW x \in Nat, NEW y \in Nat, y <= x, x < y + EloFP
  PROVE  Rounded(y) = Rounded(x) \/ Rounded(y) = Rounded(x) - 1
<1> DEFINE k == Rounded(x)
           m == Rounded(y)
           h == EloFP \div 2
           f == EloFP
<1>1. f \in Nat \ {0} /\ h \in Nat
  BY FpType
<1>2. k \in Nat /\ k * f <= x + h /\ x + h < k * f + f
  BY RoundDivFacts
<1>3. m \in Nat /\ m * f <= y + h /\ y + h < m * f + f
  BY RoundDivFacts
<1>4. y <= x /\ x < y + f
  OBVIOUS
<1> HIDE DEF k, m, h, f
<1>5. k * f \in Nat /\ m * f \in Nat
  BY <1>1, <1>2, <1>3
<1>6. m <= k
  <2>1. SUFFICES ASSUME k + 1 <= m PROVE FALSE
    BY <1>2, <1>3
  <2>2. (k + 1) * f <= m * f
    BY <1>1, <1>2, <1>3, <2>1, TimesMono
  <2>3. (k + 1) * f = k * f + f
    BY <1>1, <1>2
  <2>4. QED
    BY <1>1, <1>2, <1>3, <1>4, <1>5, <2>2, <2>3
<1>7. k <= m + 1
  <2>1. SUFFICES ASSUME m + 2 <= k PROVE FALSE
    BY <1>2, <1>3
  <2>2. (m + 2) * f <= k * f
    BY <1>1, <1>2, <1>3, <2>1, TimesMono
  <2>3. (m + 2) * f = m * f + f + f
    BY <1>1, <1>3
  <2>4. QED
    BY <1>1, <1>2, <1>3, <1>4, <1>5, <2>2, <2>3
<1>8. m = k \/ m = k - 1
  BY <1>2, <1>3, <1>6, <1>7
<1>9. QED
  BY <1>8 DEF k, m

\* What the winner gains and the loser loses: never of the wrong sign, and the
\* same but for the rounding, which may create one point.
THEOREM EloExchange ==
  ASSUME NEW ra \in Int, NEW rb \in Int
  PROVE  LET gain == EloDelta(ra, rb, TRUE)
             loss == EloDelta(rb, ra, FALSE)
         IN gain \in Nat /\ loss \in Int /\ -loss \in Nat /\ gain + loss \in {0, 1}
<1> DEFINE a == ExpectedScoreA(ra, rb)
           b == ExpectedScoreA(rb, ra)
           x == 24 * (EloFP - a)
           y == 24 * b
<1>1. EloFP \in Nat /\ 24 < EloFP
  BY SMT DEF EloFP
<1>2. a \in Nat /\ b \in Nat /\ a <= EloFP /\ b <= EloFP /\ a + b \in {EloFP - 1, EloFP}
  BY ScoresComplement
<1>3. /\ EloDelta(ra, rb, TRUE) = RoundDiv(x, EloFP)
      /\ EloDelta(rb, ra, FALSE) = RoundDiv(24 * (0 - b), EloFP)
  BY DEF EloDelta, PvpEloK
<1> HIDE DEF a, b
<1>4. x \in Nat /\ y \in Nat /\ y <= x /\ x < y + EloFP /\ 24 * (0 - b) = -y
  BY <1>1, <1>2
<1> HIDE DEF x, y
<1>5. Rounded(x) \in Nat /\ RoundDiv(x, EloFP) = Rounded(x)
  BY <1>4, RoundDivFacts
<1>6. Rounded(y) \in Nat /\ RoundDiv(-y, EloFP) = -Rounded(y)
  BY <1>4, RoundDivFacts
<1>7. Rounded(y) = Rounded(x) \/ Rounded(y) = Rounded(x) - 1
  BY <1>4, RoundedNear
<1>8. EloDelta(ra, rb, TRUE) = Rounded(x) /\ EloDelta(rb, ra, FALSE) = -Rounded(y)
  BY <1>3, <1>4, <1>5, <1>6
<1>9. -Rounded(y) \in Int /\ -(-Rounded(y)) \in Nat /\ Rounded(x) + (-Rounded(y)) \in {0, 1}
  BY <1>5, <1>6, <1>7
<1>10. QED
  BY <1>5, <1>8, <1>9

-----------------------------------------------------------------------------
(* The throttle of one pair: its account against the history of its fights S *)

\* The latest day of the fights in S up to f, and the rated fights that ran on day d.
DaysUpTo(S, f) == {g.day : g \in {h \in S : h.slot <= f.slot}}
RunDay(S, f) == Latest(DaysUpTo(S, f))
RatedOn(S, d) == {f \in S : f.rated /\ RunDay(S, f) = d}

\* What PairThrottled says of one pair.
ThrottledPair(S) ==
  /\ \A f, g \in S : f.rated /\ g.rated /\ g # f =>
       g.slot >= f.slot + PairCooldownSlots \/ f.slot >= g.slot + PairCooldownSlots
  /\ \A d : Cardinality(RatedOn(S, d)) <= MaxRankedPerPair

\* The account knows the last rated fight, the latest day of any, and no fewer
\* rated fights of that day than there were.
Throttles(r, S) ==
  /\ \A f \in S : f.day <= r.day
  /\ r.day # 0 => \E f \in S : f.day = r.day
  /\ \A f \in S : f.rated => r.lastRanked # 0 /\ f.slot <= r.lastRanked
  /\ Cardinality(RatedOn(S, r.day)) <= r.rankedToday

\* A history whose latest slot is that of n, all in n's slot on n's day.
Before(S, n) ==
  /\ IsFiniteSet(S)
  /\ \A f \in S : /\ f.slot \in Nat /\ f.day \in 1..DayHorizon /\ f.rated \in BOOLEAN
                  /\ f.slot <= n.slot
                  /\ f.slot = n.slot => f.day = n.day
  /\ n.slot \in Nat \ {0} /\ n.day \in 1..DayHorizon /\ n.rated \in BOOLEAN

\* The pair's account on day d, whether it lets a fight be rated at s, and the fight consumed.
OnDay(r, d) == IF d > r.day THEN [r EXCEPT !.day = d, !.rankedToday = 0] ELSE r
MayRank(r, s) ==
  /\ r.lastRanked = 0 \/ s >= r.lastRanked + PairCooldownSlots
  /\ r.rankedToday < MaxRankedPerPair
Consumed(r, s) ==
  IF MayRank(r, s) THEN [r EXCEPT !.lastRanked = s, !.rankedToday = @ + 1] ELSE r

\* What a fight does to the account of a pair.
LEMMA CooldownType ==
  ASSUME NEW r \in PairCooldown
  PROVE  /\ r.lastRanked \in Nat /\ r.day \in 0..DayHorizon /\ r.rankedToday \in 0..MaxRankedPerPair
         /\ \A d \in 1..DayHorizon :
              /\ OnDay(r, d) \in PairCooldown
              /\ OnDay(r, d).lastRanked = r.lastRanked
              /\ d > r.day => OnDay(r, d).day = d /\ OnDay(r, d).rankedToday = 0
              /\ ~(d > r.day) => OnDay(r, d) = r
         /\ \A s \in Nat :
              /\ Consumed(r, s) \in PairCooldown
              /\ Consumed(r, s).day = r.day
              /\ MayRank(r, s) => /\ Consumed(r, s).lastRanked = s
                                  /\ Consumed(r, s).rankedToday = r.rankedToday + 1
              /\ ~MayRank(r, s) => Consumed(r, s) = r
<1>1. DayHorizon \in Nat /\ MaxRankedPerPair \in Nat
  BY LeaderboardAssumption, PvpAssumption
<1>2. r.lastRanked \in Nat /\ r.day \in 0..DayHorizon /\ r.rankedToday \in 0..MaxRankedPerPair
  BY DEF PairCooldown
<1>3. ASSUME NEW d \in 1..DayHorizon
      PROVE  /\ OnDay(r, d) \in PairCooldown
             /\ OnDay(r, d).lastRanked = r.lastRanked
             /\ d > r.day => OnDay(r, d).day = d /\ OnDay(r, d).rankedToday = 0
             /\ ~(d > r.day) => OnDay(r, d) = r
  <2>1. d \in 0..DayHorizon /\ 0 \in 0..MaxRankedPerPair
    BY <1>1
  <2>2. QED
    BY <2>1 DEF OnDay, PairCooldown
<1>4. ASSUME NEW s \in Nat
      PROVE  /\ Consumed(r, s) \in PairCooldown
             /\ Consumed(r, s).day = r.day
             /\ MayRank(r, s) => /\ Consumed(r, s).lastRanked = s
                                 /\ Consumed(r, s).rankedToday = r.rankedToday + 1
             /\ ~MayRank(r, s) => Consumed(r, s) = r
  <2>1. CASE MayRank(r, s)
    <3>1. r.rankedToday + 1 \in 0..MaxRankedPerPair
      BY <1>1, <1>2, <2>1 DEF MayRank
    <3>2. Consumed(r, s) = [r EXCEPT !.lastRanked = s, !.rankedToday = r.rankedToday + 1]
      BY <2>1 DEF Consumed, PairCooldown
    <3>3. QED
      BY <2>1, <3>1, <3>2 DEF PairCooldown
  <2>2. CASE ~MayRank(r, s)
    BY <2>2 DEF Consumed
  <2>3. QED
    BY <2>1, <2>2
<1>5. QED
  BY <1>2, <1>3, <1>4

\* A fight more changes the running day of none before it.
LEMMA RunDayKept ==
  ASSUME NEW S, NEW n, Before(S, n), NEW f \in S
  PROVE  RunDay(S \cup {n}, f) = RunDay(S, f)
<1>1. /\ f.slot \in Nat /\ n.slot \in Nat /\ f.slot <= n.slot
      /\ f.slot = n.slot => f.day = n.day
  BY DEF Before
<1>2. f.day \in DaysUpTo(S, f)
  <2>1. f.slot <= f.slot
    BY <1>1
  <2>2. QED
    BY <2>1 DEF DaysUpTo
<1>3. n.slot <= f.slot => n.day = f.day
  BY <1>1
<1>4. DaysUpTo(S \cup {n}, f) = DaysUpTo(S, f)
  BY <1>2, <1>3 DEF DaysUpTo
<1>5. QED
  BY <1>4 DEF RunDay

\* The running day of a fight is the day of some fight of the pair.
LEMMA RunDayBounds ==
  ASSUME NEW S, NEW n, Before(S, n), NEW f \in S, NEW D \in Nat, \A g \in S : g.day <= D
  PROVE  RunDay(S, f) \in Nat /\ RunDay(S, f) <= D
<1>1. DayHorizon \in Nat
  BY LeaderboardAssumption
<1>2. \A g \in S : g.day \in 1..DayHorizon /\ g.slot \in Nat
  BY DEF Before
<1>3. f.day \in DaysUpTo(S, f)
  <2>1. f.slot <= f.slot
    BY <1>2
  <2>2. QED
    BY <2>1 DEF DaysUpTo
<1>4. \A x \in DaysUpTo(S, f) : x \in 0..DayHorizon /\ x <= D
  BY <1>1, <1>2 DEF DaysUpTo
<1>5. DaysUpTo(S, f) \in SUBSET (0..DayHorizon) /\ DaysUpTo(S, f) # {}
  BY <1>3, <1>4
<1>6. RunDay(S, f) \in DaysUpTo(S, f)
  BY <1>1, <1>5, LatestExists DEF RunDay
<1>7. QED
  BY <1>1, <1>4, <1>6

\* The running day of a new fight is the day its pair account shows after it.
LEMMA RunDayOfNew ==
  ASSUME NEW S, NEW n, Before(S, n), NEW r \in PairCooldown, Throttles(r, S)
  PROVE  RunDay(S \cup {n}, n) = OnDay(r, n.day).day
<1>1. /\ n.slot \in Nat /\ n.day \in 1..DayHorizon /\ DayHorizon \in Nat
      /\ \A g \in S : g.slot \in Nat /\ g.slot <= n.slot /\ g.day \in 1..DayHorizon
      /\ \A g \in S : g.day <= r.day
      /\ r.day # 0 => \E g \in S : g.day = r.day
  BY LeaderboardAssumption DEF Before, Throttles
<1>2. r.day \in 0..DayHorizon
  BY CooldownType
<1>3. n.slot <= n.slot
  BY <1>1
<1>4. DaysUpTo(S \cup {n}, n) = {g.day : g \in S} \cup {n.day}
  BY <1>1, <1>3 DEF DaysUpTo
<1> DEFINE D == {g.day : g \in S} \cup {n.day}
           m == OnDay(r, n.day).day
<1>5. \A x \in D : x \in Int
  BY <1>1
<1>6. m \in D /\ \A x \in D : x <= m
  <2>1. CASE n.day > r.day
    <3>1. m = n.day
      BY <1>1, <2>1, CooldownType
    <3>2. \A g \in S : g.day <= n.day
      BY <1>1, <1>2, <2>1
    <3>3. QED
      BY <1>1, <3>1, <3>2
  <2>2. CASE ~(n.day > r.day)
    <3>1. m = r.day
      BY <1>1, <2>2, CooldownType
    <3>2. n.day <= r.day /\ r.day # 0
      BY <1>1, <1>2, <2>2
    <3>3. QED
      BY <1>1, <3>1, <3>2
  <2>3. QED
    BY <2>1, <2>2
<1> HIDE DEF D, m
<1>7. Latest(D) = m
  <2>1. D \in SUBSET Int
    BY <1>5
  <2>2. QED
    BY <1>6, <2>1, LatestIs
<1>8. QED
  BY <1>4, <1>7 DEF RunDay, D, m

\* One element more adds at most one.
LEMMA AtMostOneMore ==
  ASSUME NEW S, IsFiniteSet(S), NEW n
  PROVE  /\ Cardinality(S) \in Nat /\ Cardinality(S \cup {n}) \in Nat
         /\ Cardinality(S \cup {n}) <= Cardinality(S) + 1
<1>1. Cardinality(S) \in Nat
  BY FS_CardinalityType
<1>2. CASE n \in S
  <2>1. S \cup {n} = S
    BY <1>2
  <2>2. QED
    BY <1>1, <2>1
<1>3. CASE n \notin S
  <2>1. Cardinality(S \cup {n}) = Cardinality(S) + 1
    BY <1>3, FS_AddElement
  <2>2. QED
    BY <1>1, <2>1
<1>4. QED
  BY <1>2, <1>3

\* A new fight is added to the rated ones of its running day, and to no other.
LEMMA RatedOnAfter ==
  ASSUME NEW S, NEW n, Before(S, n), NEW d
  PROVE  RatedOn(S \cup {n}, d) =
           IF n.rated /\ RunDay(S \cup {n}, n) = d THEN RatedOn(S, d) \cup {n}
           ELSE RatedOn(S, d) \ {n}
<1>1. \A f \in S : RunDay(S \cup {n}, f) = RunDay(S, f)
  BY RunDayKept
<1>2. QED
  BY <1>1 DEF RatedOn

\* PairCooldown::consume_rated: the account lets a fight be rated only when its cooldown
\* and quota allow, and still accounts for every earlier rated fight of the pair.
THEOREM PairFought ==
  ASSUME NEW S, NEW n, Before(S, n), NEW r \in PairCooldown,
         Throttles(r, S), ThrottledPair(S), n.rated = MayRank(OnDay(r, n.day), n.slot)
  PROVE  LET t == Consumed(OnDay(r, n.day), n.slot)
         IN t \in PairCooldown /\ Throttles(t, S \cup {n}) /\ ThrottledPair(S \cup {n})
<1> DEFINE p == OnDay(r, n.day)
           t == Consumed(p, n.slot)
           T == S \cup {n}
<1>1. /\ n.slot \in Nat \ {0} /\ n.day \in 1..DayHorizon /\ n.rated \in BOOLEAN
      /\ DayHorizon \in Nat /\ MaxRankedPerPair \in Nat /\ PairCooldownSlots \in Nat
      /\ IsFiniteSet(S)
      /\ \A f \in S : f.slot \in Nat /\ f.slot <= n.slot /\ f.day \in 1..DayHorizon
                      /\ f.rated \in BOOLEAN
  BY LeaderboardAssumption, PvpAssumption DEF Before
<1>2. /\ r.day \in 0..DayHorizon /\ r.lastRanked \in Nat
      /\ p \in PairCooldown /\ p.lastRanked = r.lastRanked
      /\ n.day > r.day => p.day = n.day /\ p.rankedToday = 0
      /\ ~(n.day > r.day) => p = r
  <2>1. r.day \in 0..DayHorizon /\ r.lastRanked \in Nat
    BY CooldownType
  <2>2. \A d \in 1..DayHorizon :
              /\ OnDay(r, d) \in PairCooldown
              /\ OnDay(r, d).lastRanked = r.lastRanked
              /\ d > r.day => OnDay(r, d).day = d /\ OnDay(r, d).rankedToday = 0
              /\ ~(d > r.day) => OnDay(r, d) = r
    BY CooldownType
  <2>3. n.day \in 1..DayHorizon
    BY <1>1
  <2>4. QED
    BY <2>1, <2>2, <2>3
<1>3. RunDay(T, n) = p.day
  BY RunDayOfNew
<1>4. Cardinality(RatedOn(S, p.day)) <= p.rankedToday
  <2>1. CASE n.day > r.day
    <3>1. \A f \in S : RunDay(S, f) \in Nat /\ RunDay(S, f) <= r.day
      BY <1>2, RunDayBounds DEF Throttles
    <3>2. \A f \in S : RunDay(S, f) # n.day
      BY <1>1, <1>2, <2>1, <3>1
    <3>3. RatedOn(S, p.day) = {}
      BY <1>2, <2>1, <3>2 DEF RatedOn
    <3>4. QED
      BY <1>2, <2>1, <3>3, FS_EmptySet
  <2>2. CASE ~(n.day > r.day)
    BY <1>2, <2>2 DEF Throttles
  <2>3. QED
    BY <2>1, <2>2
<1> HIDE DEF p
<1>5. /\ p.lastRanked \in Nat /\ p.day \in 0..DayHorizon /\ p.rankedToday \in 0..MaxRankedPerPair
      /\ t \in PairCooldown /\ t.day = p.day
      /\ MayRank(p, n.slot) => t.lastRanked = n.slot /\ t.rankedToday = p.rankedToday + 1
      /\ ~MayRank(p, n.slot) => t = p
  BY <1>1, <1>2, CooldownType
<1> HIDE DEF t, T
<1>6. n.rated = MayRank(p, n.slot)
  BY DEF p
<1>7. \A d : RatedOn(T, d) = IF n.rated /\ p.day = d THEN RatedOn(S, d) \cup {n}
                            ELSE RatedOn(S, d) \ {n}
  BY <1>3, RatedOnAfter DEF T
<1>8. \A d : IsFiniteSet(RatedOn(S, d)) /\ Cardinality(RatedOn(S, d)) \in Nat
             /\ Cardinality(RatedOn(S, d)) <= MaxRankedPerPair
  <2>1. \A d : RatedOn(S, d) \subseteq S
    BY DEF RatedOn
  <2>2. QED
    BY <1>1, <2>1, FS_Subset, FS_CardinalityType DEF ThrottledPair
<1>9. \A d : /\ Cardinality(RatedOn(S, d) \ {n}) \in Nat
             /\ Cardinality(RatedOn(S, d) \ {n}) <= Cardinality(RatedOn(S, d))
  <2>1. \A d : RatedOn(S, d) \ {n} \subseteq RatedOn(S, d)
    OBVIOUS
  <2>2. QED
    BY <1>8, <2>1, FS_Subset, FS_CardinalityType
<1>10. \A d : /\ Cardinality(RatedOn(S, d) \cup {n}) \in Nat
              /\ Cardinality(RatedOn(S, d) \cup {n}) <= Cardinality(RatedOn(S, d)) + 1
  BY <1>8, AtMostOneMore
<1>11. Cardinality(RatedOn(T, t.day)) <= t.rankedToday
  <2>1. CASE n.rated
    <3>1. Cardinality(RatedOn(T, p.day)) <= Cardinality(RatedOn(S, p.day)) + 1
      BY <1>7, <1>10, <2>1
    <3>2. QED
      BY <1>4, <1>5, <1>6, <1>7, <1>8, <1>10, <2>1, <3>1
  <2>2. CASE ~n.rated
    <3>1. Cardinality(RatedOn(T, p.day)) <= Cardinality(RatedOn(S, p.day))
      BY <1>7, <1>9, <2>2
    <3>2. QED
      BY <1>4, <1>5, <1>6, <1>7, <1>8, <1>9, <2>2, <3>1
  <2>3. QED
    BY <1>1, <2>1, <2>2
<1>12. ASSUME NEW d PROVE Cardinality(RatedOn(T, d)) <= MaxRankedPerPair
  <2>1. CASE n.rated /\ p.day = d
    <3>1. p.rankedToday < MaxRankedPerPair
      BY <1>6, <2>1 DEF MayRank
    <3>2. Cardinality(RatedOn(T, d)) <= Cardinality(RatedOn(S, d)) + 1
      BY <1>7, <1>10, <2>1
    <3>3. Cardinality(RatedOn(T, d)) \in Nat
      BY <1>7, <1>10, <2>1
    <3>4. Cardinality(RatedOn(S, d)) <= p.rankedToday
      BY <1>4, <2>1
    <3>5. QED
      BY <1>1, <1>5, <1>8, <3>1, <3>2, <3>3, <3>4
  <2>2. CASE ~(n.rated /\ p.day = d)
    <3>1. /\ Cardinality(RatedOn(T, d)) <= Cardinality(RatedOn(S, d))
          /\ Cardinality(RatedOn(T, d)) \in Nat
      BY <1>7, <1>9, <2>2
    <3>2. QED
      BY <1>1, <1>8, <3>1
  <2>3. QED
    BY <2>1, <2>2
<1>13. \A f \in T : f.day <= t.day
  <2>1. n.day <= t.day
    BY <1>1, <1>2, <1>5
  <2>2. \A f \in S : f.day <= r.day
    BY DEF Throttles
  <2>3. r.day <= t.day
    BY <1>1, <1>2, <1>5
  <2>4. \A f \in S : f.day <= t.day
    BY <1>1, <1>2, <1>5, <2>2, <2>3
  <2>5. QED
    BY <2>1, <2>4 DEF T
<1>14. t.day # 0 => \E f \in T : f.day = t.day
  <2>1. CASE n.day > r.day
    BY <1>2, <1>5, <2>1 DEF T
  <2>2. CASE ~(n.day > r.day)
    BY <1>2, <1>5, <2>2 DEF T, Throttles
  <2>3. QED
    BY <2>1, <2>2
<1>15. \A f \in S : f.rated => p.lastRanked # 0 /\ f.slot <= p.lastRanked
  BY <1>2 DEF Throttles
<1>16. \A f \in T : f.rated => t.lastRanked # 0 /\ f.slot <= t.lastRanked
  <2>1. CASE n.rated
    <3>1. t.lastRanked = n.slot
      BY <1>5, <1>6, <2>1
    <3>2. n.slot <= n.slot
      BY <1>1
    <3>3. QED
      BY <1>1, <3>1, <3>2 DEF T
  <2>2. CASE ~n.rated
    <3>1. t = p
      BY <1>5, <1>6, <2>2
    <3>2. QED
      BY <1>15, <2>2, <3>1 DEF T
  <2>3. QED
    BY <1>1, <2>1, <2>2
<1>17. n.rated => \A f \in S : f.rated => n.slot >= f.slot + PairCooldownSlots
  <2>1. SUFFICES ASSUME n.rated, NEW f \in S, f.rated PROVE n.slot >= f.slot + PairCooldownSlots
    OBVIOUS
  <2>2. p.lastRanked # 0 /\ f.slot <= p.lastRanked
    BY <1>15, <2>1
  <2>3. n.slot >= p.lastRanked + PairCooldownSlots
    BY <1>6, <2>1, <2>2 DEF MayRank
  <2>4. QED
    BY <1>1, <1>5, <2>2, <2>3
<1>18. \A f, g \in T : f.rated /\ g.rated /\ g # f =>
         g.slot >= f.slot + PairCooldownSlots \/ f.slot >= g.slot + PairCooldownSlots
  BY <1>17 DEF ThrottledPair, T
<1>19. QED
  BY <1>5, <1>11, <1>12, <1>13, <1>14, <1>16, <1>18 DEF Throttles, ThrottledPair, p, t, T

-----------------------------------------------------------------------------
(* The inductive invariant of the arena *)

\* The fights of one pair.
Of(S, q) == {f \in S : f.pair = q}

\* Nobody challenges himself.
ChallengesOK == \A k \in Keys : challenges[k] # NoChallenge => challenges[k].opponent # k[1]

\* Every fight is older than the bank of now, or of the same bank and day, and than
\* the challenge that is open under its key.
FightsOK ==
  /\ IsFiniteSet(fights)
  /\ \A f \in fights :
       /\ f.key \in Keys /\ f.pair \in Pairs /\ f.target \in Nat /\ f.slot \in Nat
       /\ f.day \in 1..DayHorizon /\ f.rated \in BOOLEAN
       /\ f.target < slot /\ f.slot <= slot
       /\ f.slot = slot => f.day = day
       /\ challenges[f.key] # NoChallenge => f.target < challenges[f.key].target

\* Every account of a pair accounts for the fights of the pair.
ThrottleOK ==
  \A q \in Pairs : Throttles(pairs[q], Of(fights, q)) /\ ThrottledPair(Of(fights, q))

\* The inductive invariant of the program.
PvpInv ==
  LadderInv /\ TypeOK /\ ChallengesOK /\ FightsOK /\ ThrottleOK /\ EveryFightCounted

\* An open challenge is not the absence of one.
LEMMA ChallengesApart == \A c \in Challenge : c # NoChallenge /\ c.target # Idle /\ c.target \in Nat
<1>1. \A c \in Challenge : c.target \in Nat /\ c.target # Idle
  BY DEF Challenge
<1>2. NoChallenge.target = Idle
  BY DEF NoChallenge
<1>3. SUFFICES ASSUME NEW c \in Challenge
               PROVE  c # NoChallenge /\ c.target # Idle /\ c.target \in Nat
  OBVIOUS
<1>4. c.target # NoChallenge.target
  BY <1>1, <1>2
<1>5. QED
  BY <1>1, <1>4

\* Two wallets are a pair.
LEMMA PairOf ==
  ASSUME NEW c \in Wallets, NEW o \in Wallets, c # o
  PROVE  {c, o} \in Pairs
<1>1. Cardinality({c}) = 1 /\ IsFiniteSet({c})
  BY FS_Singleton
<1>2. {c, o} = {c} \cup {o} /\ o \notin {c}
  OBVIOUS
<1>3. Cardinality({c, o}) = 2
  BY <1>1, <1>2, FS_AddElement
<1>4. QED
  BY <1>3 DEF Pairs

\* No challenge, pair account or character record exists at first.
LEMMA InitPvpInv == Init => PvpInv
<1>1. SUFFICES ASSUME Init PROVE PvpInv
  OBVIOUS
<1>2. LadderInv
  BY <1>1, InitLadderInv DEF Init
<1>3. /\ snapshots = [w \in Wallets |-> NoSnapshot]
      /\ challenges = [k \in Keys |-> NoChallenge]
      /\ charRecords = [c \in Wallets \X Avatars |-> [wins |-> 0, losses |-> 0, games |-> 0]]
      /\ pairs = [p \in Pairs |-> [lastRanked |-> 0, rankedToday |-> 0, day |-> 0]]
      /\ settled = {} /\ fights = {}
      /\ stats = [w \in Wallets |-> NoStats]
      /\ battles = [w \in Wallets |-> << >>]
  BY <1>1 DEF Init, PvpInit, LeaderboardInit, LadderInit
<1>4. MaxRankedPerPair \in Nat /\ DayHorizon \in Nat
  BY PvpAssumption, LeaderboardAssumption
<1>5. [lastRanked |-> 0, rankedToday |-> 0, day |-> 0] \in PairCooldown
  BY <1>4 DEF PairCooldown
<1>6. TypeOK
  <2>1. [wins |-> 0, losses |-> 0, games |-> 0] \in CharRecord
    BY DEF CharRecord
  <2>2. LeaderboardTypeOK
    BY <1>2 DEF LadderInv
  <2>3. QED
    BY <1>3, <1>5, <2>1, <2>2 DEF TypeOK
<1>7. ChallengesOK
  BY <1>3 DEF ChallengesOK
<1>8. FightsOK
  BY <1>3, FS_EmptySet DEF FightsOK
<1>9. ThrottleOK
  <2>1. \A q : Of(fights, q) = {}
    BY <1>3 DEF Of
  <2>2. \A d : RatedOn({}, d) = {}
    BY DEF RatedOn
  <2>3. Cardinality({}) = 0
    BY FS_EmptySet
  <2>4. ThrottledPair({})
    BY <1>4, <2>2, <2>3 DEF ThrottledPair
  <2>5. Throttles([lastRanked |-> 0, rankedToday |-> 0, day |-> 0], {})
    BY <2>2, <2>3 DEF Throttles
  <2>6. QED
    BY <1>3, <2>1, <2>4, <2>5 DEF ThrottleOK
<1>10. EveryFightCounted
  <2>1. Cardinality({}) = 0 /\ Len(<< >>) = 0
    BY FS_EmptySet, EmptySeq
  <2>2. SUFFICES ASSUME NEW w \in Wallets
                 PROVE  /\ stats[w].games = Len(battles[w]) + Cardinality({})
                        /\ \A a \in Avatars :
                             charRecords[<<w, a>>] = [games |-> Cardinality({}),
                                                      wins |-> Cardinality({}),
                                                      losses |-> Cardinality({})]
    <3>1. \A v \in Wallets : {f \in fights : v \in f.pair} = {}
      BY <1>3
    <3>2. \A v, a : {f \in {} : f.worn[v] = a} = {} /\ {f \in {} : f.winner = v} = {}
                    /\ {f \in {} : f.winner # v} = {}
      OBVIOUS
    <3>3. QED
      BY <2>2, <3>1, <3>2 DEF EveryFightCounted
  <2>3. stats[w].games = 0 /\ battles[w] = << >>
    BY <1>3 DEF NoStats
  <2>4. QED
    BY <1>3, <2>1, <2>3
<1>11. QED
  BY <1>2, <1>6, <1>7, <1>8, <1>9, <1>10 DEF PvpInv

-----------------------------------------------------------------------------
(* Steps without a fight *)

\* A step without a fight keeps the throttles.
LEMMA ThrottleFrame ==
  ASSUME PvpInv, pairs' = pairs, fights' = fights
  PROVE  ThrottleOK'
BY DEF PvpInv, ThrottleOK

\* A step that adds as many games as battles keeps the tallies.
LEMMA CountsFrame ==
  ASSUME PvpInv, charRecords' = charRecords, fights' = fights,
         \A w \in Wallets : stats[w].games - Len(battles[w]) = stats'[w].games - Len(battles'[w]),
         \A w \in Wallets : /\ stats[w].games \in Nat /\ stats'[w].games \in Nat
                            /\ Len(battles[w]) \in Nat /\ Len(battles'[w]) \in Nat
  PROVE  EveryFightCounted'
<1>1. EveryFightCounted /\ IsFiniteSet(fights)
  BY DEF PvpInv, FightsOK
<1> DEFINE Fought(w) == {f \in fights : w \in f.pair}
<1>2. \A w \in Wallets : Cardinality(Fought(w)) \in Nat
  BY <1>1, FS_Subset, FS_CardinalityType
<1>3. \A w \in Wallets : stats[w].games = Len(battles[w]) + Cardinality(Fought(w))
  BY <1>1 DEF EveryFightCounted
<1>4. ASSUME NEW w \in Wallets
      PROVE  stats'[w].games = Len(battles'[w]) + Cardinality(Fought(w))
  <2> DEFINE g == stats[w].games
             l == Len(battles[w])
             gn == stats'[w].games
             ln == Len(battles'[w])
             n == Cardinality(Fought(w))
  <2>1. g \in Nat /\ gn \in Nat /\ l \in Nat /\ ln \in Nat /\ g - l = gn - ln
    OBVIOUS
  <2>2. n \in Nat /\ g = l + n
    BY <1>2, <1>3
  <2> HIDE DEF g, l, gn, ln, n
  <2>3. gn = ln + n
    BY <2>1, <2>2
  <2>4. QED
    BY <2>3 DEF gn, ln, n
<1>5. QED
  BY <1>1, <1>4 DEF EveryFightCounted

\* The games of a wallet are a number, zero before its stats exist.
LEMMA GamesType ==
  ASSUME LadderInv, NEW w \in Wallets
  PROVE  /\ stats[w].games \in Nat /\ Len(battles[w]) \in Nat
         /\ EnsuredStats(w).games = stats[w].games
<1>1. LeaderboardTypeOK
  BY DEF LadderInv
<1>2. stats[w] \in PlayerStats \cup {NoStats} /\ battles[w] \in Seq(Battle)
  BY <1>1 DEF LeaderboardTypeOK, Battle
<1>3. NoStats.games = 0
  BY DEF NoStats
<1>4. EnsuredStats(w).games = stats[w].games
  BY <1>3 DEF EnsuredStats
<1>5. QED
  BY <1>2, <1>3, <1>4, LenProperties DEF PlayerStats

\* A step outside the fights, in the same bank.
LEMMA QuietStep ==
  ASSUME PvpInv, LadderInv', UNCHANGED <<slot, day>>, fights' = fights, pairs' = pairs,
         charRecords' = charRecords,
         snapshots' \in [Wallets -> Snapshot \cup {NoSnapshot}],
         challenges' \in [Keys -> Challenge \cup {NoChallenge}],
         ChallengesOK',
         \A f \in fights : challenges'[f.key] # NoChallenge => f.target < challenges'[f.key].target,
         \A w \in Wallets : stats[w].games - Len(battles[w]) = stats'[w].games - Len(battles'[w])
  PROVE  PvpInv'
<1>1. LadderInv /\ TypeOK /\ FightsOK
  BY DEF PvpInv
<1>2. TypeOK'
  <2>1. LeaderboardTypeOK'
    BY DEF LadderInv
  <2>2. QED
    BY <1>1, <2>1 DEF TypeOK
<1>3. FightsOK'
  BY <1>1 DEF FightsOK
<1>4. ThrottleOK'
  BY ThrottleFrame
<1>5. EveryFightCounted'
  <2>1. \A w \in Wallets : stats[w].games \in Nat /\ Len(battles[w]) \in Nat
    BY <1>1, GamesType
  <2>2. \A w \in Wallets : stats'[w].games \in Nat /\ Len(battles'[w]) \in Nat
    <3>1. LeaderboardTypeOK'
      BY DEF LadderInv
    <3>2. \A w \in Wallets : stats'[w] \in PlayerStats \cup {NoStats} /\ battles'[w] \in Seq(Battle)
      BY <3>1 DEF LeaderboardTypeOK, Battle
    <3>3. NoStats.games = 0
      BY DEF NoStats
    <3>4. QED
      BY <3>2, <3>3, LenProperties DEF PlayerStats
  <2>3. QED
    BY <2>1, <2>2, CountsFrame
<1>6. QED
  BY <1>2, <1>3, <1>4, <1>5 DEF PvpInv

\* publish_snapshot and unpublish_snapshot change no fight that was fought.
LEMMA GhostInv ==
  ASSUME PvpInv, NEW w \in Wallets,
         \/ \E a \in Avatars, d \in Builds : PublishSnapshot(w, [avatar |-> a, build |-> d])
         \/ UnpublishSnapshot(w)
  PROVE  PvpInv'
<1>1. /\ UNCHANGED leaderboardVars /\ challenges' = challenges /\ charRecords' = charRecords
      /\ pairs' = pairs /\ fights' = fights
  BY DEF PublishSnapshot, UnpublishSnapshot
<1>2. LadderInv /\ TypeOK /\ ChallengesOK /\ FightsOK
  BY DEF PvpInv
<1>3. LadderInv'
  BY <1>1, <1>2, LeaderboardStutterInv
<1>4. snapshots' \in [Wallets -> Snapshot \cup {NoSnapshot}]
  BY <1>2 DEF PublishSnapshot, UnpublishSnapshot, TypeOK, Snapshot
<1>5. UNCHANGED <<slot, day>> /\ stats' = stats /\ battles' = battles
  BY <1>1 DEF leaderboardVars, ladderVars, clockVars
<1>6. challenges' \in [Keys -> Challenge \cup {NoChallenge}] /\ ChallengesOK'
  BY <1>1, <1>2 DEF TypeOK, ChallengesOK
<1>7. \A f \in fights : challenges'[f.key] # NoChallenge => f.target < challenges'[f.key].target
  BY <1>1, <1>2 DEF FightsOK
<1>8. QED
  BY <1>1, <1>3, <1>4, <1>5, <1>6, <1>7, QuietStep

\* commit_challenge opens a challenge younger than every fight under its key.
LEMMA CommitChallengeInv ==
  ASSUME PvpInv, NEW k \in Keys, NEW o \in Wallets, CommitChallenge(k, o)
  PROVE  PvpInv'
<1> DEFINE new == [target |-> slot + Delay, opponent |-> o]
<1>1. /\ UNCHANGED leaderboardVars /\ snapshots' = snapshots /\ charRecords' = charRecords
      /\ pairs' = pairs /\ fights' = fights
      /\ o # k[1] /\ challenges' = [challenges EXCEPT ![k] = new]
  BY DEF CommitChallenge
<1>2. LadderInv /\ TypeOK /\ ChallengesOK /\ FightsOK
  BY DEF PvpInv
<1>3. LadderInv'
  BY <1>1, <1>2, LeaderboardStutterInv
<1>4. UNCHANGED <<slot, day>> /\ stats' = stats /\ battles' = battles
  BY <1>1 DEF leaderboardVars, ladderVars, clockVars
<1>5. slot \in Nat \ {0} /\ Delay \in Nat \ {0}
  BY <1>2, PvpAssumption, SlotHashesAssumption DEF TypeOK, LeaderboardTypeOK, ClockTypeOK
<1>6. new \in Challenge /\ new.target = slot + Delay /\ new.opponent = o
  BY <1>5 DEF Challenge, Idle
<1> HIDE DEF new
<1>7. /\ challenges' \in [Keys -> Challenge \cup {NoChallenge}] /\ challenges'[k] = new
      /\ \A j \in Keys : j # k => challenges'[j] = challenges[j]
  BY <1>1, <1>2, <1>6 DEF TypeOK
<1>8. ChallengesOK'
  BY <1>1, <1>2, <1>6, <1>7 DEF ChallengesOK
<1>9. ASSUME NEW f \in fights, challenges'[f.key] # NoChallenge
      PROVE  f.target < challenges'[f.key].target
  <2>1. f.key \in Keys /\ f.target \in Nat /\ f.target < slot
    BY <1>2 DEF FightsOK
  <2>2. CASE f.key = k
    BY <1>5, <1>6, <1>7, <2>1, <2>2
  <2>3. CASE f.key # k
    BY <1>2, <1>7, <1>9, <2>1, <2>3 DEF FightsOK
  <2>4. QED
    BY <2>2, <2>3
<1>10. snapshots' \in [Wallets -> Snapshot \cup {NoSnapshot}]
  BY <1>1, <1>2 DEF TypeOK
<1>11. QED
  BY <1>1, <1>3, <1>4, <1>7, <1>8, <1>9, <1>10, QuietStep

\* The account of a challenge is closed.
LEMMA ClosedFacts ==
  ASSUME PvpInv, NEW k \in Keys, challenges' = [challenges EXCEPT ![k] = NoChallenge]
  PROVE  /\ challenges' \in [Keys -> Challenge \cup {NoChallenge}]
         /\ challenges'[k] = NoChallenge
         /\ \A j \in Keys : j # k => challenges'[j] = challenges[j]
         /\ ChallengesOK'
         /\ \A f \in fights :
              challenges'[f.key] # NoChallenge => f.target < challenges'[f.key].target
<1>1. challenges \in [Keys -> Challenge \cup {NoChallenge}] /\ ChallengesOK /\ FightsOK
  BY DEF PvpInv, TypeOK
<1>2. /\ challenges' \in [Keys -> Challenge \cup {NoChallenge}]
      /\ challenges'[k] = NoChallenge
      /\ \A j \in Keys : j # k => challenges'[j] = challenges[j]
  BY <1>1
<1>3. ChallengesOK'
  BY <1>1, <1>2 DEF ChallengesOK
<1>4. \A f \in fights : challenges'[f.key] # NoChallenge => f.target < challenges'[f.key].target
  BY <1>1, <1>2 DEF FightsOK
<1>5. QED
  BY <1>2, <1>3, <1>4

\* close_expired_challenge fights nothing.
LEMMA CloseInv ==
  ASSUME PvpInv, NEW k \in Keys, CloseExpiredChallenge(k)
  PROVE  PvpInv'
<1>1. /\ UNCHANGED leaderboardVars /\ snapshots' = snapshots /\ charRecords' = charRecords
      /\ pairs' = pairs /\ fights' = fights
      /\ challenges' = [challenges EXCEPT ![k] = NoChallenge]
  BY DEF CloseExpiredChallenge, Settle
<1>2. LadderInv /\ TypeOK
  BY DEF PvpInv
<1>3. LadderInv'
  BY <1>1, <1>2, LeaderboardStutterInv
<1>4. UNCHANGED <<slot, day>> /\ stats' = stats /\ battles' = battles
  BY <1>1 DEF leaderboardVars, ladderVars, clockVars
<1>5. snapshots' \in [Wallets -> Snapshot \cup {NoSnapshot}]
  BY <1>1, <1>2 DEF TypeOK
<1>6. QED
  BY <1>1, <1>3, <1>4, <1>5, ClosedFacts, QuietStep

\* A battle is a game; nothing else the ladder does on its own counts as one.
LEMMA OneMore ==
  ASSUME NEW a \in Nat, NEW b \in Nat
  PROVE  a - b = (a + 1) - (b + 1)
OBVIOUS

LEMMA LadderCounts ==
  ASSUME LadderInv, LadderStep, NEW w \in Wallets
  PROVE  stats[w].games - Len(battles[w]) = stats'[w].games - Len(battles'[w])
<1>1. LeaderboardTypeOK
  BY DEF LadderInv
<1>2. /\ stats[w].games \in Nat /\ Len(battles[w]) \in Nat
      /\ EnsuredStats(w).games = stats[w].games
  BY GamesType
<1>3. stats \in [Wallets -> PlayerStats \cup {NoStats}] /\ battles \in [Wallets -> Seq(Battle)]
  BY <1>1 DEF LeaderboardTypeOK, Battle
<1>4. ASSUME NEW p \in Wallets, NEW key \in SessionKeys, RegisterSessionKey(p, key)
      PROVE  battles' = battles /\ stats'[w].games = stats[w].games
  <2>1. EnsuredStats(p) \in PlayerStats
    BY <1>1, EnsuredType
  <2>2. /\ battles' = battles
        /\ stats' = [stats EXCEPT ![p] = [EnsuredStats(p) EXCEPT !.session = key]]
    BY <1>4 DEF RegisterSessionKey
  <2>3. [EnsuredStats(p) EXCEPT !.session = key].games = EnsuredStats(p).games
    BY <2>1 DEF PlayerStats
  <2>4. QED
    BY <1>2, <1>3, <2>2, <2>3
<1>5. ASSUME NEW p \in Wallets, RevokeSessionKey(p)
      PROVE  battles' = battles /\ stats'[w].games = stats[w].games
  <2>1. /\ battles' = battles /\ stats[p] # NoStats
        /\ stats' = [stats EXCEPT ![p] = [stats[p] EXCEPT !.session = None]]
    BY <1>5 DEF RevokeSessionKey
  <2>2. stats[p] \in PlayerStats
    BY <1>3, <2>1
  <2>3. [stats[p] EXCEPT !.session = None].games = stats[p].games
    BY <2>2 DEF PlayerStats
  <2>4. QED
    BY <1>3, <2>1, <2>3
<1>6. ASSUME NEW b \in Boards, NEW p \in Wallets, NEW signer, NEW win \in BOOLEAN,
             NEW bot \in BOOLEAN, RecordBattle(b, p, signer, win, bot)
      PROVE  stats[w].games - Len(battles[w]) = stats'[w].games - Len(battles'[w])
  <2> DEFINE s == Tallied(EnsuredStats(p), win, RatingDelta(win, bot))
             x == [slot |-> slot, day |-> day]
  <2>1. /\ stats' = [stats EXCEPT ![p] = s]
        /\ battles' = [battles EXCEPT ![p] = Append(battles[p], x)]
    BY <1>6 DEF RecordBattle
  <2>2. s.games = EnsuredStats(p).games + 1
    BY <1>1, EnsuredType, DeltaType, TalliedType
  <2>3. x \in Battle
    BY <1>1, SlotHashesAssumption DEF Battle, LeaderboardTypeOK, ClockTypeOK
  <2> HIDE DEF s, x
  <2>4. Len(Append(battles[p], x)) = Len(battles[p]) + 1
    BY <1>3, <2>3, AppendProperties
  <2>5. CASE p = w
    <3>1. stats'[w].games = stats[w].games + 1 /\ Len(battles'[w]) = Len(battles[w]) + 1
      BY <1>2, <1>3, <2>1, <2>2, <2>4, <2>5
    <3>2. QED
      BY <1>2, <3>1, OneMore
  <2>6. CASE p # w
    BY <1>3, <2>1, <2>6
  <2>7. QED
    BY <2>5, <2>6
<1>7. (battles' = battles /\ stats'[w].games = stats[w].games) =>
        stats[w].games - Len(battles[w]) = stats'[w].games - Len(battles'[w])
  OBVIOUS
<1>8. ASSUME NEW b \in Boards, NEW c \in Capacities, InitLeaderboard(b, c)
      PROVE  battles' = battles /\ stats'[w].games = stats[w].games
  BY <1>8 DEF InitLeaderboard
<1>9. ASSUME NEW b \in Boards, NEW p \in Wallets, SetProfile(b, p)
      PROVE  battles' = battles /\ stats'[w].games = stats[w].games
  BY <1>9 DEF SetProfile
<1>10. QED
  BY <1>4, <1>5, <1>6, <1>7, <1>8, <1>9 DEF LadderStep

\* The PvE half and the PvP half share the stats and the boards.
LEMMA BesideLadderInv ==
  ASSUME PvpInv, LadderStep, UNCHANGED pvpVars
  PROVE  PvpInv'
<1>1. /\ snapshots' = snapshots /\ challenges' = challenges /\ charRecords' = charRecords
      /\ pairs' = pairs /\ fights' = fights
  BY DEF pvpVars
<1>2. LadderInv /\ TypeOK /\ ChallengesOK /\ FightsOK
  BY DEF PvpInv
<1>3. LadderInv'
  BY <1>2, LadderStepInv
<1>4. UNCHANGED <<slot, day>>
  BY DEF LadderStep, InitLeaderboard, RegisterSessionKey, RevokeSessionKey, RecordBattle,
         SetProfile, clockVars
<1>5. /\ snapshots' \in [Wallets -> Snapshot \cup {NoSnapshot}]
      /\ challenges' \in [Keys -> Challenge \cup {NoChallenge}] /\ ChallengesOK'
  BY <1>1, <1>2 DEF TypeOK, ChallengesOK
<1>6. \A f \in fights : challenges'[f.key] # NoChallenge => f.target < challenges'[f.key].target
  BY <1>1, <1>2 DEF FightsOK
<1>7. \A w \in Wallets : stats[w].games - Len(battles[w]) = stats'[w].games - Len(battles'[w])
  BY <1>2, LadderCounts
<1>8. QED
  BY <1>1, <1>3, <1>4, <1>5, <1>6, <1>7, QuietStep

\* The next bank is later than every fight.
LEMMA AdvanceClockInv ==
  ASSUME PvpInv, AdvanceClock
  PROVE  PvpInv'
<1>1. /\ NextBank /\ UNCHANGED ladderVars /\ stats' = stats /\ battles' = battles
      /\ snapshots' = snapshots /\ challenges' = challenges /\ charRecords' = charRecords
      /\ pairs' = pairs /\ fights' = fights
  BY DEF AdvanceClock, pvpVars, ladderVars
<1>2. LadderInv /\ TypeOK /\ ChallengesOK /\ FightsOK /\ EveryFightCounted
  BY DEF PvpInv
<1>3. LadderInv'
  BY <1>1, <1>2, NextBankInv
<1>4. TypeOK'
  BY <1>1, <1>2, <1>3 DEF TypeOK, LadderInv
<1>5. slot \in Nat /\ slot' \in Nat /\ slot' > slot
  BY <1>1, <1>2, SlotHashesAssumption DEF NextBank, NewBank, TypeOK, LeaderboardTypeOK, ClockTypeOK
<1>6. FightsOK'
  <2>1. ASSUME NEW f \in fights
        PROVE  f.target < slot' /\ f.slot <= slot' /\ f.slot # slot'
    <3>1. f.target \in Nat /\ f.slot \in Nat /\ f.target < slot /\ f.slot <= slot
      BY <1>2 DEF FightsOK
    <3>2. QED
      BY <1>5, <3>1
  <2>2. QED
    BY <1>1, <1>2, <2>1 DEF FightsOK
<1>7. ChallengesOK' /\ EveryFightCounted'
  BY <1>1, <1>2 DEF ChallengesOK, EveryFightCounted
<1>8. ThrottleOK'
  BY <1>1, ThrottleFrame
<1>9. QED
  BY <1>3, <1>4, <1>6, <1>7, <1>8 DEF PvpInv

-----------------------------------------------------------------------------
(* A fight *)

\* What a side gains, its stats after the fight, and the board that sees them.
Gain(me, other, iWon) ==
  IF Ranked({me, other})
  THEN EloDelta(EnsuredStats(me).rating, EnsuredStats(other).rating, iWon) ELSE 0

After(me, other, iWon) == Tallied(EnsuredStats(me), iWon, Gain(me, other, iWon))

SeenBy(b, s) == IF s.games >= MinRankedGames THEN b ELSE None

\* The record of the fight in the history.
FightOf(k, c, o, won) ==
  [key |-> k, target |-> challenges[k].target, pair |-> {c, o}, slot |-> slot, day |-> day,
   rated |-> Ranked({c, o}), winner |-> IF won THEN c ELSE o,
   worn |-> [w \in {c, o} |-> snapshots[w].avatar]]

\* ResolveChallenge with the opponent and the outcome named.
Fights(b, k, c, o, won) ==
  /\ c # o /\ {c, o} \in Pairs
  /\ challenges[k] # NoChallenge /\ slot > challenges[k].target
  /\ boards[b].capacity # 0
  /\ snapshots[c] \in Snapshot /\ snapshots[o] \in Snapshot
  /\ pairs' = [pairs EXCEPT ![{c, o}] = Consumed(OnDay(pairs[{c, o}], day), slot)]
  /\ stats' = [stats EXCEPT ![c] = After(c, o, won), ![o] = After(o, c, ~won)]
  /\ charRecords' = [charRecords EXCEPT
       ![<<c, snapshots[c].avatar>>] = Recorded(charRecords[<<c, snapshots[c].avatar>>], won),
       ![<<o, snapshots[o].avatar>>] = Recorded(charRecords[<<o, snapshots[o].avatar>>], ~won)]
  /\ Ranked({c, o}) =>
       /\ boards' = [boards EXCEPT ![b] =
            UpsertRanked(UpsertRanked(boards[b], c, After(c, o, won)), o, After(o, c, ~won))]
       /\ ratedOn' = [ratedOn EXCEPT ![c] = SeenBy(b, After(c, o, won)),
                                     ![o] = SeenBy(b, After(o, c, ~won))]
  /\ ~Ranked({c, o}) => boards' = boards /\ ratedOn' = ratedOn
  /\ fights' = fights \cup {FightOf(k, c, o, won)}
  /\ challenges' = [challenges EXCEPT ![k] = NoChallenge]
  /\ UNCHANGED <<clockVars, day>>
  /\ limiter' = limiter /\ profiled' = profiled /\ battles' = battles /\ snapshots' = snapshots

\* The pair's account, day and slot decide whether a fight is rated.
LEMMA ConsumedIs ==
  ASSUME NEW q \in Pairs
  PROVE  /\ ConsumedPair(q) = Consumed(OnDay(pairs[q], day), slot)
         /\ Ranked(q) = MayRank(OnDay(pairs[q], day), slot)
<1>1. PairToday(q) = OnDay(pairs[q], day)
  BY DEF PairToday, OnDay
<1>2. Ranked(q) = MayRank(OnDay(pairs[q], day), slot)
  BY <1>1 DEF Ranked, MayRank
<1>3. QED
  BY <1>1, <1>2 DEF ConsumedPair, Consumed

\* resolve_challenge is a fight between the challenger and the opponent of the challenge.
LEMMA ResolveFights ==
  ASSUME PvpInv, NEW b \in Boards, NEW k \in Keys, ResolveChallenge(b, k)
  PROVE  \E o \in Wallets, won \in BOOLEAN : Fights(b, k, k[1], o, won)
<1>1. TypeOK /\ ChallengesOK /\ LeaderboardTypeOK
  BY DEF PvpInv, TypeOK
<1>2. k[1] \in Wallets
  BY DEF Keys
<1>3. challenges[k] # NoChallenge /\ challenges[k] \in Challenge
  BY <1>1 DEF ResolveChallenge, CanResolve, TypeOK
<1>4. PICK o \in Wallets : o = challenges[k].opponent
  BY <1>3 DEF Challenge
<1>5. PICK c \in Wallets : c = k[1]
  BY <1>2
<1>6. c # o
  BY <1>1, <1>3, <1>4, <1>5 DEF ChallengesOK
<1>7. snapshots[c] \in Snapshot /\ snapshots[o] \in Snapshot
  BY <1>1, <1>4, <1>5 DEF ResolveChallenge, CanResolve, TypeOK
<1>8. PICK s \in blocks : /\ Settle(k, s)
                          /\ RecordFight(b, k, k[1], challenges[k].opponent,
                                         Beats(snapshots[k[1]].build, snapshots[challenges[k].opponent].build, s))
  BY DEF ResolveChallenge
<1>9. s \in 0..SlotHorizon
  BY <1>1, SlotHashesAssumption DEF LeaderboardTypeOK, ClockTypeOK
<1>10. Beats(snapshots[c].build, snapshots[o].build, s) \in BOOLEAN
  BY <1>7, <1>9, PvpAssumption DEF Snapshot
<1>11. PICK won \in BOOLEAN : won = Beats(snapshots[c].build, snapshots[o].build, s)
  BY <1>10
<1>12. won = Beats(snapshots[k[1]].build, snapshots[challenges[k].opponent].build, s)
  BY <1>4, <1>5, <1>11
<1>13. {c, o} \in Pairs
  BY <1>6, PairOf
<1>14. Ranked({c, o}) = Ranked({o, c})
  <2>1. {c, o} = {o, c}
    OBVIOUS
  <2>2. QED
    BY <2>1
<1>15. challenges' = [challenges EXCEPT ![k] = NoChallenge]
  BY <1>8 DEF Settle
<1>16. /\ challenges[k] # NoChallenge /\ slot > challenges[k].target
       /\ boards[b].capacity # 0
       /\ UNCHANGED <<clockVars, day>>
       /\ limiter' = limiter /\ profiled' = profiled /\ battles' = battles /\ snapshots' = snapshots
  BY DEF ResolveChallenge, CanResolve, InRevealWindow
<1>17. pairs' = [pairs EXCEPT ![{c, o}] = ConsumedPair({c, o})]
  BY <1>4, <1>5, <1>8 DEF RecordFight
<1>18. fights' = fights \cup {FightOf(k, c, o, won)}
  BY <1>4, <1>5, <1>8, <1>12 DEF RecordFight, FightOf
<1>19. charRecords' = [charRecords EXCEPT
       ![<<c, snapshots[c].avatar>>] = Recorded(charRecords[<<c, snapshots[c].avatar>>], won),
       ![<<o, snapshots[o].avatar>>] = Recorded(charRecords[<<o, snapshots[o].avatar>>], ~won)]
  <2>1. <<c, snapshots[c].avatar>> # <<o, snapshots[o].avatar>>
    BY <1>6
  <2>2. QED
    BY <1>4, <1>5, <1>8, <1>12, <2>1 DEF RecordFight
<1>20. stats' = [stats EXCEPT ![c] = After(c, o, won), ![o] = After(o, c, ~won)]
  BY <1>4, <1>5, <1>6, <1>8, <1>12, <1>14 DEF RecordFight, After, Gain
<1>21. Ranked({c, o}) =>
       /\ boards' = [boards EXCEPT ![b] =
            UpsertRanked(UpsertRanked(boards[b], c, After(c, o, won)), o, After(o, c, ~won))]
       /\ ratedOn' = [ratedOn EXCEPT ![c] = SeenBy(b, After(c, o, won)),
                                     ![o] = SeenBy(b, After(o, c, ~won))]
  BY <1>4, <1>5, <1>6, <1>8, <1>12, <1>14 DEF RecordFight, After, Gain, SeenBy
<1>22. ~Ranked({c, o}) => boards' = boards /\ ratedOn' = ratedOn
  BY <1>4, <1>5, <1>8 DEF RecordFight
<1>23. Fights(b, k, c, o, won)
  BY <1>6, <1>7, <1>13, <1>15, <1>16, <1>17, <1>18, <1>19,
     <1>20, <1>21, <1>22, ConsumedIs DEF Fights
<1>24. QED
  BY <1>5, <1>23

\* The account b was, or the board it becomes when p, rated s, is offered to it.
RankedOn(new, old, p, s) ==
  /\ GoodBoard(new) /\ new.capacity = old.capacity
  /\ s.games >= MinRankedGames => Shown(new, p, s.rating)
  /\ \A q, r : q # p /\ Shown(old, q, r) => Shown(new, q, r)
  /\ \/ AsSet(new.heap) = AsSet(old.heap)
     \/ AsSet(new.heap) \in Top!Offered(AsSet(old.heap), old.capacity, EntryOf(p, s))

\* The offer of one side of a fight to the board, if it has games enough.
LEMMA UpsertRankedGood ==
  ASSUME NEW board, GoodBoard(board), board.capacity # 0, NEW p \in Wallets, NEW s \in PlayerStats
  PROVE  RankedOn(UpsertRanked(board, p, s), board, p, s)
<1> DEFINE e == EntryOf(p, s)
           u == Upsert(board, e)
<1>1. e \in HeapEntry /\ e.player = p /\ e.rating = s.rating
  BY EntryType
<1> HIDE DEF e
<1>2. Upserted(u, board, e)
  BY <1>1, UpsertGood
<1>3. Shown(u, p, s.rating) /\ \A q, r : q # p /\ Shown(board, q, r) => Shown(u, q, r)
  BY <1>1, UpsertShows
<1> HIDE DEF u
<1>4. GoodBoard(u) /\ u.capacity = board.capacity
      /\ AsSet(u.heap) \in Top!Offered(AsSet(board.heap), board.capacity, e)
  BY <1>2 DEF Upserted
<1>5. RankedOn(u, board, p, s)
  BY <1>3, <1>4 DEF RankedOn, e
<1>6. CASE s.games >= MinRankedGames
  BY <1>5, <1>6 DEF UpsertRanked, u, e
<1>7. CASE ~(s.games >= MinRankedGames)
  BY <1>7 DEF UpsertRanked, RankedOn
<1>8. QED
  BY <1>6, <1>7

\* The rating delta of a fight is a number.
LEMMA EloDeltaType == \A x, y \in Nat, won \in BOOLEAN : EloDelta(x, y, won) \in Int
<1>1. SUFFICES ASSUME NEW x \in Nat, NEW y \in Nat, NEW won \in BOOLEAN
               PROVE  EloDelta(x, y, won) \in Int
  OBVIOUS
<1>2. x \in Int /\ y \in Int
  OBVIOUS
<1> DEFINE gain == EloDelta(x, y, TRUE)
           loss == EloDelta(x, y, FALSE)
<1>3. gain \in Nat /\ loss \in Int
  BY <1>2, EloExchange
<1> HIDE DEF gain, loss
<1>4. gain \in Int
  BY <1>3
<1>5. won = TRUE \/ won = FALSE
  OBVIOUS
<1>6. won = TRUE => EloDelta(x, y, won) = gain
  BY Zenon DEF gain
<1>7. won = FALSE => EloDelta(x, y, won) = loss
  BY Zenon DEF loss
<1>8. QED
  BY <1>3, <1>4, <1>5, <1>6, <1>7

\* The stats of one side after the fight.
LEMMA AfterFacts ==
  ASSUME LeaderboardTypeOK, NEW me \in Wallets, NEW other \in Wallets, NEW won \in BOOLEAN
  PROVE  /\ EnsuredStats(me) \in PlayerStats
         /\ After(me, other, won) \in PlayerStats
         /\ After(me, other, won).games = EnsuredStats(me).games + 1
         /\ After(me, other, won).rating =
              ApplyRatingDelta(EnsuredStats(me).rating, Gain(me, other, won))
         /\ Gain(me, other, won) \in Int
         /\ ~Ranked({me, other}) => After(me, other, won).rating = EnsuredStats(me).rating
<1>1. EnsuredStats(me) \in PlayerStats /\ EnsuredStats(other) \in PlayerStats
  BY EnsuredType
<1>2. EnsuredStats(me).rating \in Nat /\ EnsuredStats(other).rating \in Nat
  BY <1>1 DEF PlayerStats
<1>3. EloDelta(EnsuredStats(me).rating, EnsuredStats(other).rating, won) \in Int
  BY <1>2, EloDeltaType
<1>4. Gain(me, other, won) \in Int
  <2> DEFINE d == EloDelta(EnsuredStats(me).rating, EnsuredStats(other).rating, won)
  <2>1. d \in Int /\ Gain(me, other, won) = IF Ranked({me, other}) THEN d ELSE 0
    BY <1>3 DEF Gain
  <2> HIDE DEF d
  <2>2. QED
    BY <2>1
<1> DEFINE g == Gain(me, other, won)
           s == EnsuredStats(me)
<1>5. /\ Tallied(s, won, g) \in PlayerStats
      /\ Tallied(s, won, g).games = s.games + 1
      /\ Tallied(s, won, g).rating = ApplyRatingDelta(s.rating, g)
  <2> HIDE DEF g, s
  <2>1. QED
    BY <1>1, <1>4, TalliedType DEF s, g
<1>6. ~Ranked({me, other}) => ApplyRatingDelta(s.rating, g) = s.rating
  <2>1. ~Ranked({me, other}) => g = 0
    BY DEF Gain
  <2> HIDE DEF g, s
  <2>2. s.rating \in Nat
    BY <1>2 DEF s
  <2>3. QED
    BY <2>1, <2>2 DEF ApplyRatingDelta
<1>7. QED
  BY <1>1, <1>4, <1>5, <1>6 DEF After

\* The stats of both sides are written.
LEMMA StatsFought ==
  ASSUME LadderInv, NEW b, NEW k, NEW c \in Wallets, NEW o \in Wallets, NEW won \in BOOLEAN,
         Fights(b, k, c, o, won)
  PROVE  /\ stats' \in [Wallets -> PlayerStats \cup {NoStats}]
         /\ After(c, o, won) \in PlayerStats /\ After(o, c, ~won) \in PlayerStats
         /\ stats'[c] = After(c, o, won) /\ stats'[o] = After(o, c, ~won)
         /\ \A w \in Wallets \ {c, o} : stats'[w] = stats[w]
<1>1. LeaderboardTypeOK /\ stats \in [Wallets -> PlayerStats \cup {NoStats}] /\ c # o
  BY DEF LadderInv, LeaderboardTypeOK, Fights
<1> DEFINE x == After(c, o, won)
           y == After(o, c, ~won)
<1>2. x \in PlayerStats /\ y \in PlayerStats
  BY <1>1, AfterFacts
<1>3. stats' = [stats EXCEPT ![c] = x, ![o] = y]
  BY DEF Fights
<1> HIDE DEF x, y
<1>4. QED
  BY <1>1, <1>2, <1>3 DEF x, y

\* The board both sides report to, if the fight is rated.
LEMMA BoardFought ==
  ASSUME LadderInv, NEW b \in Boards, NEW k, NEW c \in Wallets, NEW o \in Wallets,
         NEW won \in BOOLEAN, Fights(b, k, c, o, won), Ranked({c, o})
  PROVE  \E mid, new :
           /\ RankedOn(mid, boards[b], c, After(c, o, won))
           /\ RankedOn(new, mid, o, After(o, c, ~won))
           /\ boards' = [boards EXCEPT ![b] = new]
           /\ boards' \in [Boards -> Board] /\ boards'[b] = new
           /\ \A a \in Boards : a # b => boards'[a] = boards[a]
           /\ BoardsOK'
<1> DEFINE x == After(c, o, won)
           y == After(o, c, ~won)
           mid == UpsertRanked(boards[b], c, x)
           new == UpsertRanked(mid, o, y)
<1>1. x \in PlayerStats /\ y \in PlayerStats
  BY StatsFought
<1>2. boards[b].capacity # 0 /\ boards' = [boards EXCEPT ![b] = new]
  BY DEF Fights
<1>3. BoardsOK /\ boards \in [Boards -> Board]
  BY DEF LadderInv, LeaderboardTypeOK
<1> HIDE DEF x, y
<1>4. RankedOn(mid, boards[b], c, x)
  BY <1>1, <1>2, <1>3, UpsertRankedGood DEF BoardsOK
<1> HIDE DEF mid
<1>5. RankedOn(new, mid, o, y)
  BY <1>1, <1>2, <1>4, UpsertRankedGood DEF RankedOn
<1> HIDE DEF new
<1>6. GoodBoard(new) /\ new \in Board /\ new.capacity = boards[b].capacity
  BY <1>4, <1>5 DEF RankedOn, GoodBoard
<1>7. /\ boards' \in [Boards -> Board] /\ boards'[b] = new
      /\ \A a \in Boards : a # b => boards'[a] = boards[a]
  BY <1>2, <1>3, <1>6
<1>8. BoardsOK'
  BY <1>3, <1>6, <1>7 DEF BoardsOK
<1>9. QED
  BY <1>2, <1>4, <1>5, <1>7, <1>8 DEF x, y

\* A fight keeps the invariant of the PvE half: both entries on the board are those of the
\* stats just written, or neither is touched when the fight is unrated.
LEMMA LadderFought ==
  ASSUME LadderInv, NEW b \in Boards, NEW k, NEW c \in Wallets, NEW o \in Wallets,
         NEW won \in BOOLEAN, Fights(b, k, c, o, won)
  PROVE  LadderInv'
<1> DEFINE x == After(c, o, won)
           y == After(o, c, ~won)
<1>1. LeaderboardTypeOK /\ BoardsOK /\ EntriesOK /\ c # o
  BY DEF LadderInv, Fights
<1>2. /\ stats' \in [Wallets -> PlayerStats \cup {NoStats}]
      /\ x \in PlayerStats /\ y \in PlayerStats
      /\ stats'[c] = x /\ stats'[o] = y
      /\ \A w \in Wallets \ {c, o} : stats'[w] = stats[w]
  BY StatsFought
<1>3. /\ UNCHANGED <<clockVars, day>> /\ limiter' = limiter /\ profiled' = profiled
      /\ battles' = battles
  BY DEF Fights
<1>4. QuotaOK'
  BY <1>3, QuotaFrame DEF EnsuredLimiter
<1>5. (boards' \in [Boards -> Board] /\ ratedOn' \in [Wallets -> Boards \cup {None}])
        => LeaderboardTypeOK'
  BY <1>1, <1>2, <1>3, ClockFrame DEF LeaderboardTypeOK
<1>6. CASE ~Ranked({c, o})
  <2>1. boards' = boards /\ ratedOn' = ratedOn
    BY <1>6 DEF Fights
  <2>2. x.rating = EnsuredStats(c).rating /\ y.rating = EnsuredStats(o).rating
    <3>1. {c, o} = {o, c}
      OBVIOUS
    <3>2. x.rating = EnsuredStats(c).rating
      BY <1>1, <1>6, AfterFacts
    <3>3. y.rating = EnsuredStats(o).rating
      <4>1. ~Ranked({o, c})
        BY <1>6, <3>1
      <4>2. QED
        BY <1>1, <4>1, AfterFacts
    <3>4. QED
      BY <3>2, <3>3
  <2> HIDE DEF x, y
  <2>3. \A p \in Wallets : stats[p] # NoStats =>
          stats'[p] # NoStats /\ stats'[p].rating = stats[p].rating
    BY <1>2, <2>2, StatsApart DEF EnsuredStats
  <2>4. BoardsOK' /\ EntriesOK'
    BY <2>1, <2>3, EntriesFrame
  <2>5. QED
    BY <1>1, <1>4, <1>5, <2>1, <2>4 DEF LadderInv, LeaderboardTypeOK
<1>7. CASE Ranked({c, o})
  <2>1. PICK mid, new :
           /\ RankedOn(mid, boards[b], c, x)
           /\ RankedOn(new, mid, o, y)
           /\ boards' = [boards EXCEPT ![b] = new]
           /\ boards' \in [Boards -> Board] /\ boards'[b] = new
           /\ \A a \in Boards : a # b => boards'[a] = boards[a]
           /\ BoardsOK'
    BY <1>7, BoardFought
  <2>2. ratedOn' = [ratedOn EXCEPT ![c] = SeenBy(b, x), ![o] = SeenBy(b, y)]
    BY <1>7 DEF Fights
  <2> HIDE DEF x, y
  <2>3. /\ ratedOn' \in [Wallets -> Boards \cup {None}]
        /\ ratedOn'[c] = SeenBy(b, x) /\ ratedOn'[o] = SeenBy(b, y)
        /\ \A w \in Wallets \ {c, o} : ratedOn'[w] = ratedOn[w]
    BY <1>1, <2>2 DEF LeaderboardTypeOK, SeenBy
  <2>4. EntriesOK'
    <3>1. SUFFICES ASSUME NEW a \in Boards, NEW q \in Wallets, ratedOn'[q] = a
                   PROVE  stats'[q] # NoStats /\ Shown(boards'[a], q, stats'[q].rating)
      BY DEF EntriesOK
    <3>2. None \notin Boards
      BY LeaderboardAssumption
    <3>3. CASE q = c
      <4>1. a = b /\ x.games >= MinRankedGames
        BY <2>3, <3>1, <3>2, <3>3 DEF SeenBy
      <4>2. Shown(mid, c, x.rating)
        BY <2>1, <4>1 DEF RankedOn
      <4>3. Shown(new, c, x.rating)
        BY <1>1, <2>1, <4>2 DEF RankedOn
      <4>4. QED
        BY <1>2, <2>1, <3>3, <4>1, <4>3, StatsApart
    <3>4. CASE q = o
      <4>1. a = b /\ y.games >= MinRankedGames
        BY <2>3, <3>1, <3>2, <3>4 DEF SeenBy
      <4>2. Shown(new, o, y.rating)
        BY <2>1, <4>1 DEF RankedOn
      <4>3. QED
        BY <1>2, <2>1, <3>4, <4>1, <4>2, StatsApart
    <3>5. CASE q \notin {c, o}
      <4>1. stats[q] # NoStats /\ Shown(boards[a], q, stats[q].rating) /\ stats'[q] = stats[q]
        BY <1>1, <1>2, <2>3, <3>1, <3>5 DEF EntriesOK
      <4>2. CASE a = b
        <5>1. Shown(mid, q, stats[q].rating)
          BY <2>1, <3>5, <4>1, <4>2 DEF RankedOn
        <5>2. Shown(new, q, stats[q].rating)
          BY <2>1, <3>5, <5>1 DEF RankedOn
        <5>3. QED
          BY <2>1, <4>1, <4>2, <5>2
      <4>3. CASE a # b
        BY <2>1, <4>1, <4>3
      <4>4. QED
        BY <4>2, <4>3
    <3>6. QED
      BY <3>3, <3>4, <3>5
  <2>5. QED
    BY <1>4, <1>5, <2>1, <2>3, <2>4 DEF LadderInv
<1>8. QED
  BY <1>6, <1>7

\* The fights of S in which w wore a, and what its record says of them.
WornIn(S, w, a) == {f \in {g \in S : w \in g.pair} : f.worn[w] = a}
TallyOf(S, w, a) ==
  [games |-> Cardinality(WornIn(S, w, a)),
   wins |-> Cardinality({f \in WornIn(S, w, a) : f.winner = w}),
   losses |-> Cardinality({f \in WornIn(S, w, a) : f.winner # w})]

\* EveryFightCounted, wallet by wallet and character by character.
LEMMA CountedIs ==
  EveryFightCounted <=>
    \A w \in Wallets :
      /\ stats[w].games = Len(battles[w]) + Cardinality({f \in fights : w \in f.pair})
      /\ \A a \in Avatars : charRecords[<<w, a>>] = TallyOf(fights, w, a)
BY DEF EveryFightCounted, TallyOf, WornIn

\* A fight in which the character was not worn leaves its record.
LEMMA TalliedElsewhere ==
  ASSUME NEW S, NEW n, NEW w, NEW a, w \in n.pair => n.worn[w] # a
  PROVE  TallyOf(S \cup {n}, w, a) = TallyOf(S, w, a)
<1>1. WornIn(S \cup {n}, w, a) = WornIn(S, w, a)
  BY DEF WornIn
<1>2. QED
  BY <1>1 DEF TallyOf

\* A fight in which the character was worn is one game more of its record.
LEMMA TalliedHere ==
  ASSUME NEW S, IsFiniteSet(S), NEW n, n \notin S, NEW w, w \in n.pair, NEW a, n.worn[w] = a,
         NEW won \in BOOLEAN, won <=> n.winner = w
  PROVE  TallyOf(S \cup {n}, w, a) = Recorded(TallyOf(S, w, a), won)
<1> DEFINE W == WornIn(S, w, a)
           wins == {f \in W : f.winner = w}
           losses == {f \in W : f.winner # w}
<1>1. WornIn(S \cup {n}, w, a) = W \cup {n}
  BY DEF WornIn
<1>2. IsFiniteSet(W) /\ n \notin W
  <2>1. W \subseteq S
    BY DEF WornIn
  <2>2. QED
    BY <2>1, FS_Subset
<1> HIDE DEF W
<1>3. IsFiniteSet(wins) /\ IsFiniteSet(losses) /\ n \notin wins /\ n \notin losses
  <2>1. wins \subseteq W /\ losses \subseteq W
    OBVIOUS
  <2>2. QED
    BY <1>2, <2>1, FS_Subset
<1>4. Cardinality(W \cup {n}) = Cardinality(W) + 1
  BY <1>2, FS_AddElement
<1>5. TallyOf(S, w, a) = [games |-> Cardinality(W), wins |-> Cardinality(wins),
                          losses |-> Cardinality(losses)]
  BY DEF TallyOf, W
<1>6. TallyOf(S \cup {n}, w, a) =
        [games |-> Cardinality(W \cup {n}),
         wins |-> Cardinality({f \in W \cup {n} : f.winner = w}),
         losses |-> Cardinality({f \in W \cup {n} : f.winner # w})]
  BY <1>1 DEF TallyOf
<1>7. CASE won
  <2>1. /\ {f \in W \cup {n} : f.winner = w} = wins \cup {n}
        /\ {f \in W \cup {n} : f.winner # w} = losses
    BY <1>7
  <2> HIDE DEF wins, losses
  <2>2. Cardinality(wins \cup {n}) = Cardinality(wins) + 1
    BY <1>3, FS_AddElement
  <2>3. \A x, y, z : Recorded([games |-> x, wins |-> y, losses |-> z], won)
                       = [games |-> x + 1, wins |-> y + 1, losses |-> z]
    BY <1>7 DEF Recorded
  <2>4. Recorded(TallyOf(S, w, a), won)
          = [games |-> Cardinality(W) + 1, wins |-> Cardinality(wins) + 1,
             losses |-> Cardinality(losses)]
    BY <1>5, <2>3
  <2>5. QED
    BY <1>4, <1>6, <2>1, <2>2, <2>4
<1>8. CASE ~won
  <2>1. /\ {f \in W \cup {n} : f.winner = w} = wins
        /\ {f \in W \cup {n} : f.winner # w} = losses \cup {n}
    BY <1>8
  <2> HIDE DEF wins, losses
  <2>2. Cardinality(losses \cup {n}) = Cardinality(losses) + 1
    BY <1>3, FS_AddElement
  <2>3. \A x, y, z : Recorded([games |-> x, wins |-> y, losses |-> z], won)
                       = [games |-> x + 1, wins |-> y, losses |-> z + 1]
    BY <1>8 DEF Recorded
  <2>4. Recorded(TallyOf(S, w, a), won)
          = [games |-> Cardinality(W) + 1, wins |-> Cardinality(wins),
             losses |-> Cardinality(losses) + 1]
    BY <1>5, <2>3
  <2>5. QED
    BY <1>4, <1>6, <2>1, <2>2, <2>4
<1>9. QED
  BY <1>7, <1>8

\* The fight, as it enters the history.
NewFightIs(n, k, c, o, won) ==
  /\ n = FightOf(k, c, o, won)
  /\ fights' = fights \cup {n} /\ n \notin fights
  /\ n.key = k /\ n.pair = {c, o} /\ n.target = challenges[k].target
  /\ n.slot = slot /\ n.day = day
  /\ n.rated = Ranked({c, o}) /\ n.rated \in BOOLEAN
  /\ n.winner = (IF won THEN c ELSE o)
  /\ n.worn[c] = snapshots[c].avatar /\ n.worn[o] = snapshots[o].avatar

\* The fight is none of the earlier ones.
LEMMA NewFight ==
  ASSUME PvpInv, NEW b, NEW k \in Keys, NEW c \in Wallets, NEW o \in Wallets,
         NEW won \in BOOLEAN, Fights(b, k, c, o, won)
  PROVE  \E n : NewFightIs(n, k, c, o, won)
<1>1. PICK n : n = FightOf(k, c, o, won)
  OBVIOUS
<1>2. fights' = fights \cup {n}
  BY <1>1 DEF Fights
<1>3. /\ n.key = k /\ n.pair = {c, o} /\ n.target = challenges[k].target
      /\ n.slot = slot /\ n.day = day
      /\ n.rated = Ranked({c, o})
      /\ n.winner = (IF won THEN c ELSE o)
      /\ n.worn = [w \in {c, o} |-> snapshots[w].avatar]
  BY <1>1 DEF FightOf
<1>4. n.worn[c] = snapshots[c].avatar /\ n.worn[o] = snapshots[o].avatar
  BY <1>3
<1>5. Ranked({c, o}) \in BOOLEAN
  BY DEF Ranked
<1>6. n \notin fights
  <2>1. SUFFICES ASSUME n \in fights PROVE FALSE
    OBVIOUS
  <2>2. challenges[k] # NoChallenge /\ FightsOK /\ TypeOK
    BY DEF Fights, PvpInv
  <2>3. n.target < challenges[n.key].target /\ n.target \in Nat
    BY <1>3, <2>1, <2>2 DEF FightsOK
  <2>4. QED
    BY <1>3, <2>3
<1>7. NewFightIs(n, k, c, o, won)
  BY <1>1, <1>2, <1>3, <1>4, <1>5, <1>6 DEF NewFightIs
<1>8. QED
  BY <1>7

\* The records of the two characters worn in the fight are written, and no other.
LEMMA CharRecordsFought ==
  ASSUME TypeOK, NEW b, NEW k, NEW c \in Wallets, NEW o \in Wallets, NEW won \in BOOLEAN,
         Fights(b, k, c, o, won)
  PROVE  /\ charRecords' \in [Wallets \X Avatars -> CharRecord]
         /\ \A w \in Wallets, a \in Avatars :
              /\ w = c /\ a = snapshots[c].avatar =>
                   charRecords'[<<w, a>>] = Recorded(charRecords[<<w, a>>], won)
              /\ w = o /\ a = snapshots[o].avatar =>
                   charRecords'[<<w, a>>] = Recorded(charRecords[<<w, a>>], ~won)
              /\ ~(w = c /\ a = snapshots[c].avatar) /\ ~(w = o /\ a = snapshots[o].avatar) =>
                   charRecords'[<<w, a>>] = charRecords[<<w, a>>]
<1>1. PICK x, y : x = snapshots[c].avatar /\ y = snapshots[o].avatar
  OBVIOUS
<1>2. c # o /\ x \in Avatars /\ y \in Avatars
  BY <1>1 DEF Fights, Snapshot
<1>3. charRecords \in [Wallets \X Avatars -> CharRecord]
  BY DEF TypeOK
<1>4. charRecords' = [charRecords EXCEPT ![<<c, x>>] = Recorded(charRecords[<<c, x>>], won),
                                         ![<<o, y>>] = Recorded(charRecords[<<o, y>>], ~won)]
  BY <1>1 DEF Fights
<1>5. \A r \in CharRecord, v \in BOOLEAN : Recorded(r, v) \in CharRecord
  BY DEF Recorded, CharRecord
<1>6. <<c, x>> \in Wallets \X Avatars /\ <<o, y>> \in Wallets \X Avatars
  BY <1>2
<1> DEFINE r == Recorded(charRecords[<<c, x>>], won)
           s == Recorded(charRecords[<<o, y>>], ~won)
<1>7. r \in CharRecord /\ s \in CharRecord
  BY <1>3, <1>5, <1>6
<1>8. charRecords' = [charRecords EXCEPT ![<<c, x>>] = r, ![<<o, y>>] = s]
  BY <1>4
<1> HIDE DEF r, s
<1>9. charRecords' \in [Wallets \X Avatars -> CharRecord]
  BY <1>3, <1>7, <1>8
<1>10. /\ charRecords'[<<c, x>>] = r /\ charRecords'[<<o, y>>] = s
       /\ \A w \in Wallets, a \in Avatars : <<w, a>> # <<c, x>> /\ <<w, a>> # <<o, y>> =>
             charRecords'[<<w, a>>] = charRecords[<<w, a>>]
  BY <1>2, <1>3, <1>6, <1>8
<1>11. ASSUME NEW w \in Wallets, NEW a \in Avatars
       PROVE  /\ w = c /\ a = x => charRecords'[<<w, a>>] = Recorded(charRecords[<<w, a>>], won)
              /\ w = o /\ a = y => charRecords'[<<w, a>>] = Recorded(charRecords[<<w, a>>], ~won)
              /\ ~(w = c /\ a = x) /\ ~(w = o /\ a = y) =>
                   charRecords'[<<w, a>>] = charRecords[<<w, a>>]
  <2>1. CASE w = c /\ a = x
    BY <1>2, <1>10, <2>1 DEF r
  <2>2. CASE w = o /\ a = y
    BY <1>2, <1>10, <2>2 DEF s
  <2>3. CASE ~(w = c /\ a = x) /\ ~(w = o /\ a = y)
    BY <1>10, <2>3
  <2>4. QED
    BY <2>1, <2>2, <2>3
<1>12. QED
  BY <1>1, <1>9, <1>11

\* A fight is tallied once for each side.
LEMMA CountsFought ==
  ASSUME PvpInv, NEW b, NEW k \in Keys, NEW c \in Wallets, NEW o \in Wallets,
         NEW won \in BOOLEAN, Fights(b, k, c, o, won)
  PROVE  EveryFightCounted'
<1>1. LadderInv /\ TypeOK /\ EveryFightCounted /\ IsFiniteSet(fights) /\ c # o /\ LeaderboardTypeOK
  BY DEF PvpInv, FightsOK, Fights, LadderInv
<1>2. PICK n : NewFightIs(n, k, c, o, won)
  BY NewFight
<1>20. /\ fights' = fights \cup {n} /\ n \notin fights
               /\ n.pair = {c, o} /\ n.winner = (IF won THEN c ELSE o)
               /\ n.worn[c] = snapshots[c].avatar /\ n.worn[o] = snapshots[o].avatar
  BY <1>2 DEF NewFightIs
<1>3. battles' = battles
  BY DEF Fights
<1>4. ASSUME NEW w \in Wallets
      PROVE  stats'[w].games = Len(battles'[w]) + Cardinality({f \in fights' : w \in f.pair})
  <2> DEFINE F == {f \in fights : w \in f.pair}
             l == Len(battles[w])
             g == stats[w].games
  <2>1. g = l + Cardinality(F) /\ IsFiniteSet(F) /\ n \notin F
    <3>1. F \subseteq fights
      OBVIOUS
    <3>2. QED
      BY <1>1, <1>20, <3>1, FS_Subset DEF EveryFightCounted
  <2>2. g \in Nat /\ l \in Nat /\ Cardinality(F) \in Nat /\ EnsuredStats(w).games = g
    BY <1>1, <2>1, GamesType, FS_CardinalityType
  <2>3. CASE w \in {c, o}
    <3>1. {f \in fights' : w \in f.pair} = F \cup {n}
      BY <1>20, <2>3
    <3> HIDE DEF F, l
    <3>2. Cardinality(F \cup {n}) = Cardinality(F) + 1
      BY <2>1, FS_AddElement
    <3>3. stats'[w].games = EnsuredStats(w).games + 1
      <4>1. stats'[c] = After(c, o, won) /\ stats'[o] = After(o, c, ~won)
        BY <1>1, StatsFought
      <4>2. After(c, o, won).games = EnsuredStats(c).games + 1
        BY <1>1, AfterFacts
      <4>3. After(o, c, ~won).games = EnsuredStats(o).games + 1
        BY <1>1, AfterFacts
      <4>4. QED
        BY <2>3, <4>1, <4>2, <4>3
    <3> HIDE DEF g
    <3>4. stats'[w].games = l + Cardinality(F \cup {n})
      BY <2>1, <2>2, <3>2, <3>3
    <3>5. QED
      BY <1>3, <3>1, <3>4 DEF l
  <2>4. CASE w \notin {c, o}
    <3>1. {f \in fights' : w \in f.pair} = F
      BY <1>20, <2>4
    <3>2. stats'[w] = stats[w]
      BY <1>1, <2>4, StatsFought
    <3>3. QED
      BY <1>3, <2>1, <3>1, <3>2
  <2>5. QED
    BY <2>3, <2>4
<1>5. ASSUME NEW w \in Wallets, NEW a \in Avatars
      PROVE  charRecords'[<<w, a>>] = TallyOf(fights', w, a)
  <2>1. charRecords[<<w, a>>] = TallyOf(fights, w, a)
    BY <1>1, CountedIs
  <2>2. /\ w = c /\ a = snapshots[c].avatar =>
             charRecords'[<<w, a>>] = Recorded(charRecords[<<w, a>>], won)
        /\ w = o /\ a = snapshots[o].avatar =>
             charRecords'[<<w, a>>] = Recorded(charRecords[<<w, a>>], ~won)
        /\ ~(w = c /\ a = snapshots[c].avatar) /\ ~(w = o /\ a = snapshots[o].avatar) =>
             charRecords'[<<w, a>>] = charRecords[<<w, a>>]
    BY <1>1, CharRecordsFought
  <2>3. CASE w = c /\ a = snapshots[c].avatar
    <3>1. w \in n.pair /\ n.worn[w] = a /\ (won <=> n.winner = w)
      BY <1>1, <1>20, <2>3
    <3>2. TallyOf(fights \cup {n}, w, a) = Recorded(TallyOf(fights, w, a), won)
      BY <1>1, <1>20, <3>1, TalliedHere
    <3>3. charRecords'[<<w, a>>] = Recorded(charRecords[<<w, a>>], won)
      BY <2>2, <2>3
    <3>4. QED
      BY <1>20, <2>1, <3>2, <3>3
  <2>4. CASE w = o /\ a = snapshots[o].avatar
    <3>1. w \in n.pair /\ n.worn[w] = a
      BY <1>20, <2>4
    <3>2. TallyOf(fights \cup {n}, w, a) = Recorded(TallyOf(fights, w, a), ~won)
      <4>1. (~won) \in BOOLEAN
        OBVIOUS
      <4>2. ~won <=> n.winner = w
        <5>1. CASE won
          BY <1>1, <1>20, <2>4, <5>1
        <5>2. CASE ~won
          BY <1>1, <1>20, <2>4, <5>2
        <5>3. QED
          BY <5>1, <5>2
      <4>3. PICK lost \in BOOLEAN : lost = ~won
        BY <4>1
      <4>4. lost <=> n.winner = w
        BY <4>2, <4>3
      <4>5. TallyOf(fights \cup {n}, w, a) = Recorded(TallyOf(fights, w, a), lost)
        BY <1>1, <1>20, <3>1, <4>4, TalliedHere
      <4>6. QED
        BY <4>3, <4>5, Zenon
    <3>3. charRecords'[<<w, a>>] = Recorded(charRecords[<<w, a>>], ~won)
      BY <1>1, <2>2, <2>4
    <3>4. QED
      BY <1>20, <2>1, <3>2, <3>3
  <2>5. CASE ~(w = c /\ a = snapshots[c].avatar) /\ ~(w = o /\ a = snapshots[o].avatar)
    <3>1. w \in n.pair => n.worn[w] # a
      BY <1>20, <2>5
    <3>2. TallyOf(fights \cup {n}, w, a) = TallyOf(fights, w, a)
      BY <3>1, TalliedElsewhere
    <3>3. QED
      BY <1>20, <2>1, <2>2, <2>5, <3>2
  <2>6. QED
    BY <2>3, <2>4, <2>5
<1>6. QED
  BY <1>4, <1>5 DEF EveryFightCounted, TallyOf, WornIn

\* A fight is accounted for in the account of its pair.
LEMMA ThrottleFought ==
  ASSUME PvpInv, NEW b, NEW k \in Keys, NEW c \in Wallets, NEW o \in Wallets,
         NEW won \in BOOLEAN, Fights(b, k, c, o, won)
  PROVE  ThrottleOK' /\ pairs' \in [Pairs -> PairCooldown]
<1>1. /\ TypeOK /\ FightsOK /\ ThrottleOK /\ pairs \in [Pairs -> PairCooldown]
      /\ LeaderboardTypeOK
  BY DEF PvpInv, TypeOK
<1>2. PICK n : NewFightIs(n, k, c, o, won)
  BY NewFight
<1>20. /\ fights' = fights \cup {n} /\ n \notin fights
               /\ n.pair = {c, o} /\ n.slot = slot /\ n.day = day
               /\ n.rated = Ranked({c, o}) /\ n.rated \in BOOLEAN
  BY <1>2 DEF NewFightIs
<1>3. PICK q \in Pairs : q = {c, o}
  BY DEF Fights
<1> DEFINE r == pairs[q]
           t == Consumed(OnDay(r, n.day), n.slot)
           S == Of(fights, q)
<1>4. slot \in Nat \ {0} /\ day \in 1..DayHorizon
  BY <1>1 DEF LeaderboardTypeOK, ClockTypeOK
<1>5. Before(S, n)
  <2>1. IsFiniteSet(S)
    <3>1. S \subseteq fights
      BY DEF Of
    <3>2. QED
      BY <1>1, <3>1, FS_Subset DEF FightsOK
  <2>2. QED
    BY <1>1, <1>20, <1>4, <2>1 DEF Before, FightsOK, Of
<1>6. r \in PairCooldown /\ Throttles(r, S) /\ ThrottledPair(S)
  BY <1>1 DEF ThrottleOK
<1>7. n.rated = MayRank(OnDay(r, n.day), n.slot)
  BY <1>20, <1>3, ConsumedIs
<1>8. pairs' = [pairs EXCEPT ![q] = t]
  BY <1>20, <1>3 DEF Fights
<1> HIDE DEF r, S
<1>9. t \in PairCooldown /\ Throttles(t, S \cup {n}) /\ ThrottledPair(S \cup {n})
  BY <1>5, <1>6, <1>7, PairFought
<1> HIDE DEF t
<1>10. /\ pairs' \in [Pairs -> PairCooldown] /\ pairs'[q] = t
       /\ \A p \in Pairs : p # q => pairs'[p] = pairs[p]
  BY <1>1, <1>8, <1>9
<1>11. Of(fights', q) = S \cup {n} /\ \A p \in Pairs : p # q => Of(fights', p) = Of(fights, p)
  BY <1>20, <1>3 DEF Of, S
<1>12. ASSUME NEW p \in Pairs
       PROVE  Throttles(pairs'[p], Of(fights', p)) /\ ThrottledPair(Of(fights', p))
  <2>1. CASE p = q
    BY <1>9, <1>10, <1>11, <2>1
  <2>2. CASE p # q
    BY <1>1, <1>10, <1>11, <2>2 DEF ThrottleOK
  <2>3. QED
    BY <2>1, <2>2
<1>13. QED
  BY <1>10, <1>12 DEF ThrottleOK

\* A fight is the youngest of all and closes its challenge.
LEMMA FightsFought ==
  ASSUME PvpInv, NEW b, NEW k \in Keys, NEW c \in Wallets, NEW o \in Wallets,
         NEW won \in BOOLEAN, Fights(b, k, c, o, won)
  PROVE  FightsOK'
<1>1. FightsOK /\ TypeOK /\ LeaderboardTypeOK /\ slot' = slot /\ day' = day
  BY DEF PvpInv, TypeOK, Fights, clockVars
<1>2. PICK n : NewFightIs(n, k, c, o, won)
  BY NewFight
<1>20. /\ fights' = fights \cup {n}
               /\ n.key = k /\ n.pair = {c, o} /\ n.target = challenges[k].target
               /\ n.slot = slot /\ n.day = day /\ n.rated \in BOOLEAN
  BY <1>2 DEF NewFightIs
<1>3. slot \in Nat /\ day \in 1..DayHorizon
  BY <1>1 DEF LeaderboardTypeOK, ClockTypeOK
<1>4. /\ {c, o} \in Pairs /\ challenges[k] # NoChallenge /\ slot > challenges[k].target
      /\ challenges' = [challenges EXCEPT ![k] = NoChallenge]
  BY DEF Fights
<1>5. challenges[k].target \in Nat
  BY <1>1, <1>4, ChallengesApart DEF TypeOK
<1>6. /\ challenges'[k] = NoChallenge
      /\ \A f \in fights :
              challenges'[f.key] # NoChallenge => f.target < challenges'[f.key].target
  BY <1>4, ClosedFacts
<1>7. IsFiniteSet(fights \cup {n})
  BY <1>1, FS_AddElement DEF FightsOK
<1>8. /\ n.key \in Keys /\ n.pair \in Pairs /\ n.target \in Nat /\ n.slot \in Nat
      /\ n.day \in 1..DayHorizon /\ n.rated \in BOOLEAN
      /\ n.target < slot /\ n.slot <= slot
      /\ challenges'[n.key] = NoChallenge
  BY <1>20, <1>3, <1>4, <1>5, <1>6
<1>9. \A f \in fights :
        /\ f.key \in Keys /\ f.pair \in Pairs /\ f.target \in Nat /\ f.slot \in Nat
        /\ f.day \in 1..DayHorizon /\ f.rated \in BOOLEAN
        /\ f.target < slot /\ f.slot <= slot
        /\ f.slot = slot => f.day = day
  BY <1>1 DEF FightsOK
<1>10. QED
  BY <1>1, <1>20, <1>6, <1>7, <1>8, <1>9 DEF FightsOK

\* resolve_challenge keeps the invariant.
LEMMA ResolveInv ==
  ASSUME PvpInv, NEW b \in Boards, NEW k \in Keys, ResolveChallenge(b, k)
  PROVE  PvpInv'
<1>1. PICK o \in Wallets, won \in BOOLEAN : Fights(b, k, k[1], o, won)
  BY ResolveFights
<1>2. PICK c \in Wallets : c = k[1]
  BY DEF Keys
<1>3. Fights(b, k, c, o, won)
  BY <1>1, <1>2
<1>4. LadderInv /\ TypeOK
  BY DEF PvpInv
<1>5. LadderInv'
  BY <1>3, <1>4, LadderFought
<1>6. EveryFightCounted' /\ ThrottleOK' /\ FightsOK' /\ pairs' \in [Pairs -> PairCooldown]
  BY <1>3, CountsFought, ThrottleFought, FightsFought
<1>7. challenges' \in [Keys -> Challenge \cup {NoChallenge}] /\ ChallengesOK'
  BY <1>3, ClosedFacts DEF Fights
<1>8. charRecords' \in [Wallets \X Avatars -> CharRecord]
  BY <1>3, <1>4, CharRecordsFought
<1>9. snapshots' \in [Wallets -> Snapshot \cup {NoSnapshot}]
  BY <1>3, <1>4 DEF Fights, TypeOK
<1>10. LeaderboardTypeOK'
  BY <1>5 DEF LadderInv
<1>11. TypeOK'
  BY <1>6, <1>7, <1>8, <1>9, <1>10 DEF TypeOK
<1>12. QED
  BY <1>5, <1>6, <1>7, <1>11 DEF PvpInv

\* A step outside the arena keeps the invariant.
LEMMA PvpStutterInv ==
  ASSUME PvpInv, UNCHANGED vars
  PROVE  PvpInv'
<1>1. /\ UNCHANGED leaderboardVars /\ snapshots' = snapshots /\ challenges' = challenges
      /\ charRecords' = charRecords /\ pairs' = pairs /\ fights' = fights
  BY DEF vars, pvpVars
<1>2. LadderInv /\ TypeOK /\ ChallengesOK /\ FightsOK
  BY DEF PvpInv
<1>3. LadderInv'
  BY <1>1, <1>2, LeaderboardStutterInv
<1>4. UNCHANGED <<slot, day>> /\ stats' = stats /\ battles' = battles
  BY <1>1 DEF leaderboardVars, ladderVars, clockVars
<1>5. /\ snapshots' \in [Wallets -> Snapshot \cup {NoSnapshot}]
      /\ challenges' \in [Keys -> Challenge \cup {NoChallenge}] /\ ChallengesOK'
  BY <1>1, <1>2 DEF TypeOK, ChallengesOK
<1>6. \A f \in fights : challenges'[f.key] # NoChallenge => f.target < challenges'[f.key].target
  BY <1>1, <1>2 DEF FightsOK
<1>7. QED
  BY <1>1, <1>3, <1>4, <1>5, <1>6, QuietStep

\* Every instruction of the PvP half keeps the invariant.
LEMMA PvpStepInv ==
  ASSUME PvpInv, PvpStep
  PROVE  PvpInv'
<1>1. CASE \E w \in Wallets, a \in Avatars, d \in Builds :
             PublishSnapshot(w, [avatar |-> a, build |-> d])
  BY <1>1, GhostInv
<1>2. CASE \E w \in Wallets : UnpublishSnapshot(w)
  BY <1>2, GhostInv
<1>3. CASE \E k \in Keys, o \in Wallets : CommitChallenge(k, o)
  BY <1>3, CommitChallengeInv
<1>4. CASE \E b \in Boards, k \in Keys : ResolveChallenge(b, k)
  BY <1>4, ResolveInv
<1>5. CASE \E k \in Keys : CloseExpiredChallenge(k)
  BY <1>5, CloseInv
<1>6. QED
  BY <1>1, <1>2, <1>3, <1>4, <1>5 DEF PvpStep

\* The invariant of the whole program, PvE and PvP interleaved, for any wallets, boards,
\* builds, nonces and bounds.
THEOREM PvpInvariant == Spec => []PvpInv
<1>1. PvpInv /\ [Next]_vars => PvpInv'
  BY PvpStepInv, BesideLadderInv, AdvanceClockInv, PvpStutterInv DEF Next
<1>2. QED
  BY <1>1, InitPvpInv, PTL DEF Spec

\* The whole program is typed.
THEOREM PvpTypeCorrect == Spec => []TypeOK
<1>1. PvpInv => TypeOK
  BY DEF PvpInv
<1>2. QED
  BY <1>1, PvpInvariant, PTL

\* With rated fights writing two players at once beside the battles, boards stay heaps that
\* show their members as rated, and battles stay within the quota.
THEOREM PvpBoardsAndQuotas == Spec => [](HeapOrder /\ EntriesCurrent /\ QuotaKept)
<1>1. PvpInv => HeapOrder /\ EntriesCurrent /\ QuotaKept
  BY LadderInvShows DEF PvpInv
<1>2. QED
  BY <1>1, PvpInvariant, PTL

\* Nor does a fight, an open challenge or a published ghost cost a wallet a battle.
THEOREM PvpLimitExact == Spec => []QuotaExact
<1>1. PvpInv => QuotaExact
  BY LimitIsQuota DEF PvpInv
<1>2. QED
  BY <1>1, PvpInvariant, PTL

\* Every fight is tallied once for each side: in the games of the two wallets and in the
\* records of the two characters they wore when it was resolved.
THEOREM FightsCounted == Spec => []EveryFightCounted
<1>1. PvpInv => EveryFightCounted
  BY DEF PvpInv
<1>2. QED
  BY <1>1, PvpInvariant, PTL

\* The accounts of the pairs say what PairThrottled says of the history.
LEMMA ThrottleShows ==
  ASSUME PvpInv
  PROVE  PairThrottled
<1>1. ThrottleOK /\ FightsOK
  BY DEF PvpInv
<1>2. SUFFICES ASSUME NEW f \in fights, f.rated
               PROVE
    /\ \A g \in fights : g.rated /\ g.pair = f.pair /\ g # f =>
         g.slot >= f.slot + PairCooldownSlots \/ f.slot >= g.slot + PairCooldownSlots
    /\ Cardinality({g \in fights : g.rated /\ g.pair = f.pair
                                   /\ RunningDay(g) = RunningDay(f)}) <= MaxRankedPerPair
  BY DEF PairThrottled
<1> DEFINE S == Of(fights, f.pair)
<1>3. ThrottledPair(S)
  BY <1>1 DEF ThrottleOK, FightsOK
<1>4. ASSUME NEW g \in fights, g.pair = f.pair
      PROVE  RunningDay(g) = RunDay(S, g)
  <2>1. {h \in fights : h.pair = g.pair /\ h.slot <= g.slot} = {h \in S : h.slot <= g.slot}
    BY <1>4 DEF Of
  <2>2. QED
    BY <2>1 DEF RunningDay, RunDay, DaysUpTo, Latest
<1>5. {g \in fights : g.rated /\ g.pair = f.pair /\ RunningDay(g) = RunningDay(f)}
        = RatedOn(S, RunningDay(f))
  BY <1>4 DEF RatedOn, Of
<1>6. Cardinality(RatedOn(S, RunningDay(f))) <= MaxRankedPerPair
  BY <1>3 DEF ThrottledPair
<1>7. \A g \in fights : g.rated /\ g.pair = f.pair /\ g # f =>
         g.slot >= f.slot + PairCooldownSlots \/ f.slot >= g.slot + PairCooldownSlots
  <2>1. f \in S /\ \A g \in fights : g.pair = f.pair => g \in S
    BY DEF Of
  <2>2. QED
    BY <1>2, <1>3, <2>1 DEF ThrottledPair
<1>8. QED
  BY <1>5, <1>6, <1>7

\* Two wallets trade rating at most once per cooldown and MaxRankedPerPair times a day,
\* however many challenges they have open and although the day may step back.
THEOREM ThrottleKept == Spec => []PairThrottled
BY ThrottleShows, PvpInvariant, PTL

-----------------------------------------------------------------------------
\* The deltas of a fight, cut off at the rating floor.
LEMMA ExchangeOf ==
  ASSUME NEW x \in Nat, NEW y \in Nat, NEW g \in Nat, NEW l \in Int, -l \in Nat, g + l \in {0, 1}
  PROVE  LET up == ApplyRatingDelta(x, g) - x
             down == ApplyRatingDelta(y, l) - y
         IN /\ up >= 0 /\ down <= 0
            /\ up + down <= 1 \/ ApplyRatingDelta(y, l) = 0
            /\ up + down >= -1
<1>1. ApplyRatingDelta(x, g) = x + g
  BY DEF ApplyRatingDelta
<1>2. CASE y + l < 0
  <2>1. ApplyRatingDelta(y, l) = 0
    BY <1>2 DEF ApplyRatingDelta
  <2>2. QED
    BY <1>1, <1>2, <2>1
<1>3. CASE ~(y + l < 0)
  <2>1. ApplyRatingDelta(y, l) = y + l
    BY <1>3 DEF ApplyRatingDelta
  <2>2. QED
    BY <1>1, <2>1
<1>4. QED
  BY <1>2, <1>3

\* What RatingExchanged says of a fight between a winner and a loser.
Exchanged(w, l) ==
  LET up == stats'[w].rating - EnsuredStats(w).rating
      down == stats'[l].rating - EnsuredStats(l).rating
  IN /\ up >= 0 /\ down <= 0
     /\ up + down <= 1 \/ stats'[l].rating = 0
     /\ up + down >= -1

\* The ratings of the two sides of a rated fight, as its result moves them.
LEMMA WinnerAndLoser ==
  ASSUME LadderInv, NEW w \in Wallets, NEW l \in Wallets, w # l, Ranked({w, l}),
         stats'[w] = After(w, l, TRUE), stats'[l] = After(l, w, FALSE)
  PROVE  Exchanged(w, l)
<1> DEFINE x == EnsuredStats(w).rating
           y == EnsuredStats(l).rating
           g == EloDelta(x, y, TRUE)
           d == EloDelta(y, x, FALSE)
<1>1. LeaderboardTypeOK /\ {l, w} = {w, l}
  BY DEF LadderInv
<1>2. x \in Nat /\ y \in Nat
  BY <1>1, EnsuredType DEF PlayerStats
<1>3. Gain(w, l, TRUE) = g /\ Gain(l, w, FALSE) = d
  BY <1>1, Zenon DEF Gain
<1>4. /\ stats'[w].rating = ApplyRatingDelta(x, Gain(w, l, TRUE))
      /\ stats'[l].rating = ApplyRatingDelta(y, Gain(l, w, FALSE))
  <2>1. TRUE \in BOOLEAN /\ FALSE \in BOOLEAN
    OBVIOUS
  <2>2. After(w, l, TRUE).rating = ApplyRatingDelta(x, Gain(w, l, TRUE))
    BY <1>1, <2>1, AfterFacts, Zenon
  <2>3. After(l, w, FALSE).rating = ApplyRatingDelta(y, Gain(l, w, FALSE))
    BY <1>1, <2>1, AfterFacts, Zenon
  <2>4. QED
    BY <2>2, <2>3
<1>5. stats'[w].rating = ApplyRatingDelta(x, g) /\ stats'[l].rating = ApplyRatingDelta(y, d)
  BY <1>3, <1>4, Zenon
<1> HIDE DEF x, y
<1>6. g \in Nat /\ d \in Int /\ -d \in Nat /\ g + d \in {0, 1}
  <2>1. x \in Int /\ y \in Int
    BY <1>2
  <2>2. QED
    BY <2>1, EloExchange
<1> HIDE DEF g, d
<1>7. LET up == ApplyRatingDelta(x, g) - x
          down == ApplyRatingDelta(y, d) - y
      IN /\ up >= 0 /\ down <= 0
         /\ up + down <= 1 \/ ApplyRatingDelta(y, d) = 0
         /\ up + down >= -1
  BY <1>2, <1>6, ExchangeOf
<1>8. QED
  BY <1>5, <1>7 DEF Exchanged, x, y

\* The body of RatingExchanged.
ExchangeStep ==
  \A f \in fights' \ fights : f.rated =>
        LET gain(w) == stats'[w].rating - EnsuredStats(w).rating
            loser == CHOOSE w \in f.pair : w # f.winner
        IN /\ gain(f.winner) >= 0 /\ gain(loser) <= 0
           /\ gain(f.winner) + gain(loser) <= 1 \/ stats'[loser].rating = 0
           /\ gain(f.winner) + gain(loser) >= -1

\* Every fight of a resolve exchanges rating.
LEMMA ExchangeFought ==
  ASSUME PvpInv, NEW b \in Boards, NEW k \in Keys, ResolveChallenge(b, k)
  PROVE  ExchangeStep
<1>1. PICK c \in Wallets : c = k[1]
  BY DEF Keys
<1>2. PICK o \in Wallets, won \in BOOLEAN : Fights(b, k, c, o, won)
  BY <1>1, ResolveFights
<1>3. PICK n : NewFightIs(n, k, c, o, won)
  BY <1>2, NewFight
<1>4. /\ fights' = fights \cup {n} /\ n.pair = {c, o}
      /\ n.rated = Ranked({c, o}) /\ n.winner = (IF won THEN c ELSE o)
  BY <1>3 DEF NewFightIs
<1>5. LadderInv /\ c # o
  BY <1>2 DEF PvpInv, Fights
<1>6. stats'[c] = After(c, o, won) /\ stats'[o] = After(o, c, ~won)
  BY <1>2, <1>5, StatsFought
<1>7. ASSUME n.rated
      PROVE  \E w, l \in Wallets : n.winner = w /\ (CHOOSE v \in n.pair : v # n.winner) = l
                                   /\ Exchanged(w, l)
  <2>1. CASE won
    <3>1. won = TRUE /\ (~won) = FALSE
      BY <2>1
    <3>2. stats'[c] = After(c, o, TRUE) /\ stats'[o] = After(o, c, FALSE)
      BY <1>6, <3>1, Zenon
    <3>3. Exchanged(c, o)
      BY <1>4, <1>5, <1>7, <3>2, WinnerAndLoser
    <3>4. n.winner = c /\ (CHOOSE v \in n.pair : v # n.winner) = o
      BY <1>4, <1>5, <2>1
    <3>5. QED
      BY <3>3, <3>4
  <2>2. CASE ~won
    <3>1. won = FALSE /\ (~won) = TRUE
      BY <2>2
    <3>2. stats'[c] = After(c, o, FALSE) /\ stats'[o] = After(o, c, TRUE)
      BY <1>6, <3>1, Zenon
    <3>3. Ranked({o, c})
      <4>1. {o, c} = {c, o}
        OBVIOUS
      <4>2. QED
        BY <1>4, <1>7, <4>1
    <3>4. Exchanged(o, c)
      BY <1>5, <3>2, <3>3, WinnerAndLoser
    <3>5. n.winner = o /\ (CHOOSE v \in n.pair : v # n.winner) = c
      BY <1>4, <1>5, <2>2
    <3>6. QED
      BY <3>4, <3>5
  <2>3. QED
    BY <2>1, <2>2
<1>8. SUFFICES ASSUME n.rated
               PROVE  LET gain(w) == stats'[w].rating - EnsuredStats(w).rating
                          loser == CHOOSE w \in n.pair : w # n.winner
                      IN /\ gain(n.winner) >= 0 /\ gain(loser) <= 0
                         /\ gain(n.winner) + gain(loser) <= 1 \/ stats'[loser].rating = 0
                         /\ gain(n.winner) + gain(loser) >= -1
  BY <1>4 DEF ExchangeStep
<1>9. PICK w \in Wallets, l \in Wallets :
        /\ n.winner = w /\ (CHOOSE v \in n.pair : v # n.winner) = l
        /\ Exchanged(w, l)
  BY <1>7, <1>8
<1>10. QED
  BY <1>9 DEF Exchanged

\* A rated fight moves rating from the loser to the winner: none moves against its result,
\* and but for one point of rounding and the floor none is created or destroyed.
THEOREM RatingsExchange == Spec => RatingExchanged
<1>1. PvpInv /\ [Next]_vars => [ExchangeStep]_vars
  <2>1. SUFFICES ASSUME PvpInv, Next PROVE ExchangeStep
    OBVIOUS
  <2>2. CASE \E b \in Boards, k \in Keys : ResolveChallenge(b, k)
    BY <2>1, <2>2, ExchangeFought
  <2>3. CASE fights' = fights
    BY <2>3 DEF ExchangeStep
  <2>4. Next => fights' = fights \/ \E b \in Boards, k \in Keys : ResolveChallenge(b, k)
    BY DEF Next, PvpStep, AdvanceClock, pvpVars, PublishSnapshot, UnpublishSnapshot,
           CommitChallenge, CloseExpiredChallenge
  <2>5. QED
    BY <2>1, <2>2, <2>3, <2>4
<1>2. QED
  BY <1>1, PvpInvariant, PTL DEF Spec, RatingExchanged, ExchangeStep

-----------------------------------------------------------------------------
(* A fight is rated whenever the throttle allows it *)

\* The account of a pair remembers nothing but its fights: its last rated slot is
\* that of a rated fight, and its count that of the rated fights of its day.
Exactly(r, S) ==
  /\ r.lastRanked # 0 => \E f \in S : f.rated /\ f.slot = r.lastRanked
  /\ Cardinality(RatedOn(S, r.day)) = r.rankedToday

\* On the day of a fight the count is exact too, and the new fight counts one more.
LEMMA PairOnDay ==
  ASSUME NEW S, NEW n, Before(S, n), n \notin S, NEW r \in PairCooldown,
         Throttles(r, S), Exactly(r, S)
  PROVE  LET p == OnDay(r, n.day) IN
         /\ p \in PairCooldown /\ p.lastRanked = r.lastRanked
         /\ IsFiniteSet(RatedOn(S, p.day)) /\ Cardinality(RatedOn(S, p.day)) = p.rankedToday
         /\ n \notin RatedOn(S, p.day)
         /\ n.rated => RatedOn(S \cup {n}, p.day) = RatedOn(S, p.day) \cup {n}
         /\ ~n.rated => RatedOn(S \cup {n}, p.day) = RatedOn(S, p.day)
<1> DEFINE p == OnDay(r, n.day)
<1>1. /\ r.day \in 0..DayHorizon /\ DayHorizon \in Nat /\ IsFiniteSet(S)
      /\ n.day \in 1..DayHorizon /\ \A f \in S : f.day \in 1..DayHorizon
  BY LeaderboardAssumption, CooldownType DEF Before
<1>2. /\ p \in PairCooldown /\ p.lastRanked = r.lastRanked
      /\ n.day > r.day => p.day = n.day /\ p.rankedToday = 0
      /\ ~(n.day > r.day) => p = r
  BY <1>1, CooldownType
<1>3. RunDay(S \cup {n}, n) = p.day
  BY RunDayOfNew
<1> HIDE DEF p
<1>4. Cardinality(RatedOn(S, p.day)) = p.rankedToday
  <2>1. CASE n.day > r.day
    <3>1. \A f \in S : RunDay(S, f) \in Nat /\ RunDay(S, f) <= r.day
      BY <1>1, RunDayBounds DEF Throttles
    <3>2. \A f \in S : RunDay(S, f) # n.day
      BY <1>1, <2>1, <3>1
    <3>3. RatedOn(S, p.day) = {}
      BY <1>2, <2>1, <3>2 DEF RatedOn
    <3>4. QED
      BY <1>2, <2>1, <3>3, FS_EmptySet
  <2>2. CASE ~(n.day > r.day)
    BY <1>2, <2>2 DEF Exactly
  <2>3. QED
    BY <2>1, <2>2
<1>5. RatedOn(S, p.day) \subseteq S
  BY DEF RatedOn
<1>6. IsFiniteSet(RatedOn(S, p.day)) /\ n \notin RatedOn(S, p.day)
  BY <1>1, <1>5, FS_Subset
<1>7. /\ n.rated => RatedOn(S \cup {n}, p.day) = RatedOn(S, p.day) \cup {n}
      /\ ~n.rated => RatedOn(S \cup {n}, p.day) = RatedOn(S, p.day)
  <2>1. RatedOn(S \cup {n}, p.day) =
          IF n.rated /\ RunDay(S \cup {n}, n) = p.day THEN RatedOn(S, p.day) \cup {n}
          ELSE RatedOn(S, p.day) \ {n}
    BY RatedOnAfter
  <2>2. RatedOn(S, p.day) \ {n} = RatedOn(S, p.day)
    BY <1>6
  <2>3. QED
    BY <1>3, <2>1, <2>2
<1>8. QED
  BY <1>2, <1>4, <1>6, <1>7 DEF p

\* A fight keeps the account exact.
LEMMA PairStaysExact ==
  ASSUME NEW S, NEW n, Before(S, n), n \notin S, NEW r \in PairCooldown,
         Throttles(r, S), Exactly(r, S), n.rated = MayRank(OnDay(r, n.day), n.slot)
  PROVE  Exactly(Consumed(OnDay(r, n.day), n.slot), S \cup {n})
<1> DEFINE p == OnDay(r, n.day)
           t == Consumed(p, n.slot)
<1>1. /\ p \in PairCooldown /\ p.lastRanked = r.lastRanked
      /\ IsFiniteSet(RatedOn(S, p.day)) /\ Cardinality(RatedOn(S, p.day)) = p.rankedToday
      /\ n \notin RatedOn(S, p.day)
      /\ n.rated => RatedOn(S \cup {n}, p.day) = RatedOn(S, p.day) \cup {n}
      /\ ~n.rated => RatedOn(S \cup {n}, p.day) = RatedOn(S, p.day)
  BY PairOnDay
<1>2. n.slot \in Nat
  BY DEF Before
<1> HIDE DEF p
<1>3. /\ t.day = p.day
      /\ MayRank(p, n.slot) => t.lastRanked = n.slot /\ t.rankedToday = p.rankedToday + 1
      /\ ~MayRank(p, n.slot) => t = p
  BY <1>1, <1>2, CooldownType
<1>4. n.rated = MayRank(p, n.slot)
  BY DEF p
<1> HIDE DEF t
<1>5. t.lastRanked # 0 => \E f \in S \cup {n} : f.rated /\ f.slot = t.lastRanked
  BY <1>1, <1>3, <1>4 DEF Exactly
<1>6. Cardinality(RatedOn(S \cup {n}, t.day)) = t.rankedToday
  <2>1. CASE n.rated
    <3>1. Cardinality(RatedOn(S, p.day) \cup {n}) = Cardinality(RatedOn(S, p.day)) + 1
      BY <1>1, FS_AddElement
    <3>2. QED
      BY <1>1, <1>3, <1>4, <2>1, <3>1
  <2>2. CASE ~n.rated
    BY <1>1, <1>3, <1>4, <2>2
  <2>3. QED
    BY <2>1, <2>2
<1>7. QED
  BY <1>5, <1>6 DEF Exactly, t, p

\* What the account refuses, the throttle does not allow.
LEMMA PairRefused ==
  ASSUME NEW S, NEW n, Before(S, n), n \notin S, NEW r \in PairCooldown,
         Throttles(r, S), Exactly(r, S), n.rated, ThrottledPair(S \cup {n})
  PROVE  MayRank(OnDay(r, n.day), n.slot)
<1> DEFINE p == OnDay(r, n.day)
<1>1. /\ p \in PairCooldown /\ p.lastRanked = r.lastRanked
      /\ IsFiniteSet(RatedOn(S, p.day)) /\ Cardinality(RatedOn(S, p.day)) = p.rankedToday
      /\ n \notin RatedOn(S, p.day)
      /\ n.rated => RatedOn(S \cup {n}, p.day) = RatedOn(S, p.day) \cup {n}
      /\ ~n.rated => RatedOn(S \cup {n}, p.day) = RatedOn(S, p.day)
  BY PairOnDay
<1>2. /\ n.slot \in Nat /\ PairCooldownSlots \in Nat \ {0} /\ MaxRankedPerPair \in Nat
      /\ \A f \in S : f.slot \in Nat /\ f.slot <= n.slot
  BY PvpAssumption DEF Before
<1>3. p.rankedToday < MaxRankedPerPair
  <2>1. Cardinality(RatedOn(S, p.day) \cup {n}) = p.rankedToday + 1
    BY <1>1, FS_AddElement
  <2>2. p.rankedToday + 1 <= MaxRankedPerPair
    BY <1>1, <2>1 DEF ThrottledPair
  <2>3. p.rankedToday \in Nat
    BY <1>1, FS_CardinalityType
  <2>4. QED
    BY <1>2, <2>2, <2>3
<1>4. ASSUME r.lastRanked # 0 PROVE n.slot >= r.lastRanked + PairCooldownSlots
  <2>1. PICK f \in S : f.rated /\ f.slot = r.lastRanked
    BY <1>4 DEF Exactly
  <2>2. n # f
    BY <2>1
  <2>3. n.slot >= f.slot + PairCooldownSlots \/ f.slot >= n.slot + PairCooldownSlots
    BY <2>1, <2>2 DEF ThrottledPair
  <2>4. QED
    BY <1>2, <2>1, <2>3
<1>5. QED
  BY <1>1, <1>3, <1>4 DEF MayRank

\* Every account of a pair is exact.
AccountsExact == \A q \in Pairs : Exactly(pairs[q], Of(fights, q))

LEMMA InitExact == Init => AccountsExact
<1>1. SUFFICES ASSUME Init, NEW q \in Pairs PROVE Exactly(pairs[q], Of(fights, q))
  BY DEF AccountsExact
<1>2. pairs[q] = [lastRanked |-> 0, rankedToday |-> 0, day |-> 0] /\ Of(fights, q) = {}
  BY <1>1 DEF Init, PvpInit, Of
<1>3. RatedOn({}, 0) = {}
  BY DEF RatedOn
<1>4. QED
  BY <1>2, <1>3, FS_EmptySet DEF Exactly

\* A step that adds the fight n to the history and to the account of the pair q.
AddsFight(n, q) ==
  /\ fights' = fights \cup {n} /\ n.pair = q /\ n.rated \in BOOLEAN
  /\ Before(Of(fights, q), n)
  /\ \A f \in fights : f.key # n.key \/ f.target # n.target
  /\ n.rated = MayRank(OnDay(pairs[q], n.day), n.slot)
  /\ pairs' = [pairs EXCEPT ![q] = Consumed(OnDay(pairs[q], n.day), n.slot)]
  /\ n = [key |-> n.key, target |-> n.target, pair |-> n.pair, slot |-> n.slot,
          day |-> n.day, rated |-> n.rated, winner |-> n.winner, worn |-> n.worn]

LEMMA PairAtResolve ==
  ASSUME PvpInv, AccountsExact, NEW b \in Boards, NEW k \in Keys, ResolveChallenge(b, k)
  PROVE  \E n : \E q \in Pairs : AddsFight(n, q)
<1>1. PICK c \in Wallets : c = k[1]
  BY DEF Keys
<1>2. PICK o \in Wallets, won \in BOOLEAN : Fights(b, k, c, o, won)
  BY <1>1, ResolveFights
<1>3. PICK n : NewFightIs(n, k, c, o, won)
  BY <1>2, NewFight
<1>4. /\ n = FightOf(k, c, o, won) /\ fights' = fights \cup {n} /\ n.pair = {c, o}
      /\ n.key = k /\ n.target = challenges[k].target
      /\ n.slot = slot /\ n.day = day /\ n.rated = Ranked({c, o}) /\ n.rated \in BOOLEAN
  BY <1>3 DEF NewFightIs
<1>5. PICK q \in Pairs : q = {c, o}
  BY <1>2 DEF Fights
<1>6. LeaderboardTypeOK /\ FightsOK
  BY DEF PvpInv, TypeOK
<1>7. slot \in Nat \ {0} /\ day \in 1..DayHorizon
  BY <1>6 DEF LeaderboardTypeOK, ClockTypeOK
<1>8. Before(Of(fights, q), n)
  <2>1. Of(fights, q) \subseteq fights
    BY DEF Of
  <2>2. IsFiniteSet(Of(fights, q))
    BY <1>6, <2>1, FS_Subset DEF FightsOK
  <2>3. QED
    BY <1>4, <1>6, <1>7, <2>1, <2>2 DEF Before, FightsOK
<1>9. \A f \in fights : f.key # n.key \/ f.target # n.target
  <2>1. challenges[k] # NoChallenge
    BY <1>2 DEF Fights
  <2>2. \A f \in fights : f.key = k => f.target < challenges[k].target /\ f.target \in Nat
    BY <1>6, <2>1 DEF FightsOK
  <2>3. QED
    BY <1>4, <2>2
<1>10. n.rated = MayRank(OnDay(pairs[q], n.day), n.slot)
  BY <1>4, <1>5, ConsumedIs
<1>11. pairs' = [pairs EXCEPT ![q] = Consumed(OnDay(pairs[q], n.day), n.slot)]
  BY <1>2, <1>4, <1>5 DEF Fights
<1>12. n = [key |-> n.key, target |-> n.target, pair |-> n.pair, slot |-> n.slot,
            day |-> n.day, rated |-> n.rated, winner |-> n.winner, worn |-> n.worn]
  BY <1>4 DEF FightOf
<1>13. QED
  BY <1>4, <1>5, <1>8, <1>9, <1>10, <1>11, <1>12 DEF AddsFight

LEMMA ExactAfterResolve ==
  ASSUME PvpInv, AccountsExact, NEW b \in Boards, NEW k \in Keys, ResolveChallenge(b, k)
  PROVE  AccountsExact'
<1>1. PICK n : \E q \in Pairs : AddsFight(n, q)
  BY PairAtResolve
<1>2. PICK q \in Pairs : AddsFight(n, q)
  BY <1>1
<1>3. /\ fights' = fights \cup {n} /\ n.pair = q /\ n.rated \in BOOLEAN
      /\ Before(Of(fights, q), n)
      /\ \A f \in fights : f.key # n.key \/ f.target # n.target
      /\ n.rated = MayRank(OnDay(pairs[q], n.day), n.slot)
      /\ pairs' = [pairs EXCEPT ![q] = Consumed(OnDay(pairs[q], n.day), n.slot)]
      /\ n = [key |-> n.key, target |-> n.target, pair |-> n.pair, slot |-> n.slot,
              day |-> n.day, rated |-> n.rated, winner |-> n.winner, worn |-> n.worn]
  BY <1>2 DEF AddsFight
<1> DEFINE t == Consumed(OnDay(pairs[q], n.day), n.slot)
<1>4. pairs[q] \in PairCooldown /\ Throttles(pairs[q], Of(fights, q)) /\ Exactly(pairs[q], Of(fights, q))
  BY DEF PvpInv, TypeOK, ThrottleOK, AccountsExact
<1>5. n \notin Of(fights, q)
  BY <1>3 DEF Of
<1>6. Exactly(t, Of(fights, q) \cup {n})
  BY <1>3, <1>4, <1>5, PairStaysExact
<1> HIDE DEF t
<1>7. Of(fights', q) = Of(fights, q) \cup {n} /\ \A p \in Pairs : p # q => Of(fights', p) = Of(fights, p)
  BY <1>3 DEF Of
<1>8. pairs'[q] = t /\ \A p \in Pairs : p # q => pairs'[p] = pairs[p]
  BY <1>3 DEF t, PvpInv, TypeOK
<1>9. ASSUME NEW p \in Pairs PROVE Exactly(pairs'[p], Of(fights', p))
  BY <1>6, <1>7, <1>8 DEF AccountsExact
<1>10. QED
  BY <1>9 DEF AccountsExact

\* Only a resolve changes the accounts or the history.
LEMMA QuietAccounts ==
  ASSUME [Next]_vars
  PROVE  \/ fights' = fights /\ pairs' = pairs
         \/ \E b \in Boards, k \in Keys : ResolveChallenge(b, k)
BY DEF Next, PvpStep, AdvanceClock, pvpVars, vars, PublishSnapshot, UnpublishSnapshot,
       CommitChallenge, CloseExpiredChallenge

LEMMA ExactKept == PvpInv /\ AccountsExact /\ [Next]_vars => AccountsExact'
<1>1. SUFFICES ASSUME PvpInv, AccountsExact, [Next]_vars PROVE AccountsExact'
  OBVIOUS
<1>2. CASE fights' = fights /\ pairs' = pairs
  BY <1>1, <1>2 DEF AccountsExact
<1>3. CASE \E b \in Boards, k \in Keys : ResolveChallenge(b, k)
  BY <1>1, <1>3, ExactAfterResolve
<1>4. QED
  BY <1>1, <1>2, <1>3, QuietAccounts

\* The fights a step adds are rated exactly when the throttle of their pair allows
\* them to be: rated, they would keep the cooldown and the quota of the day.
RatedExactlyStep ==
  \A f \in fights' \ fights :
    f.rated <=> ThrottledPair(Of(fights, f.pair) \cup {[f EXCEPT !.rated = TRUE]})

LEMMA RatedAtResolve ==
  ASSUME PvpInv, AccountsExact, NEW b \in Boards, NEW k \in Keys, ResolveChallenge(b, k)
  PROVE  RatedExactlyStep
<1>1. PICK n : \E q \in Pairs : AddsFight(n, q)
  BY PairAtResolve
<1>2. PICK q \in Pairs : AddsFight(n, q)
  BY <1>1
<1>3. /\ fights' = fights \cup {n} /\ n.pair = q /\ n.rated \in BOOLEAN
      /\ Before(Of(fights, q), n)
      /\ \A f \in fights : f.key # n.key \/ f.target # n.target
      /\ n.rated = MayRank(OnDay(pairs[q], n.day), n.slot)
      /\ pairs' = [pairs EXCEPT ![q] = Consumed(OnDay(pairs[q], n.day), n.slot)]
      /\ n = [key |-> n.key, target |-> n.target, pair |-> n.pair, slot |-> n.slot,
              day |-> n.day, rated |-> n.rated, winner |-> n.winner, worn |-> n.worn]
  BY <1>2 DEF AddsFight
<1> DEFINE r == pairs[q]
           S == Of(fights, q)
<1>4. /\ r \in PairCooldown /\ Throttles(r, S) /\ ThrottledPair(S)
      /\ Exactly(r, S)
  BY DEF PvpInv, TypeOK, ThrottleOK, AccountsExact
<1>5. PICK m : m = [n EXCEPT !.rated = TRUE]
  OBVIOUS
<1>6. /\ m.rated = TRUE /\ m.slot = n.slot /\ m.day = n.day
      /\ m.key = n.key /\ m.target = n.target
  BY <1>3, <1>5
<1>7. m \notin S
  BY <1>3, <1>6 DEF Of
<1> HIDE DEF r
<1>8. Before(S, m)
  BY <1>3, <1>6 DEF Before
<1> HIDE DEF S
<1>9. n.rated = MayRank(OnDay(r, m.day), m.slot)
  BY <1>3, <1>6 DEF r
<1>10. ASSUME n.rated PROVE ThrottledPair(S \cup {m})
  <2>1. m.rated = MayRank(OnDay(r, m.day), m.slot)
    BY <1>6, <1>9, <1>10
  <2>2. QED
    BY <1>4, <1>8, <2>1, PairFought
<1>11. ASSUME ThrottledPair(S \cup {m}) PROVE n.rated
  BY <1>4, <1>6, <1>7, <1>8, <1>9, <1>11, PairRefused
<1>12. n.rated <=> ThrottledPair(Of(fights, n.pair) \cup {[n EXCEPT !.rated = TRUE]})
  BY <1>3, <1>5, <1>10, <1>11 DEF S
<1>13. QED
  BY <1>3, <1>12 DEF RatedExactlyStep

\* consume_rated: a fight goes unrated for no other reason than the throttle that
\* ThrottleKept proves, whatever else the pair, its clock and its challenges did.
THEOREM RatedWhenAllowed == Spec => [][RatedExactlyStep]_vars
<1>1. PvpInv /\ AccountsExact /\ [Next]_vars => [RatedExactlyStep]_vars
  <2>1. SUFFICES ASSUME PvpInv, AccountsExact, [Next]_vars PROVE RatedExactlyStep
    OBVIOUS
  <2>2. CASE fights' = fights /\ pairs' = pairs
    BY <2>2 DEF RatedExactlyStep
  <2>3. CASE \E b \in Boards, k \in Keys : ResolveChallenge(b, k)
    BY <2>1, <2>3, RatedAtResolve
  <2>4. QED
    BY <2>1, <2>2, <2>3, QuietAccounts
<1>2. Spec => []AccountsExact
  BY InitExact, ExactKept, PvpInvariant, PTL DEF Spec
<1>3. QED
  BY <1>1, <1>2, PvpInvariant, PTL DEF Spec

-----------------------------------------------------------------------------
(* Implementation of TopBoards by both halves of the ladder *)

\* A fight is reported for both sides to the board it names, or for none.
LEMMA TopFought ==
  ASSUME LadderInv, NEW b \in Boards, NEW k, NEW c \in Wallets, NEW o \in Wallets,
         NEW won \in BOOLEAN, Fights(b, k, c, o, won)
  PROVE  Top!Fight(b, c, o)
<1>1. LeaderboardTypeOK /\ c # o /\ boards[b].capacity # 0
  BY DEF LadderInv, Fights
<1> DEFINE x == After(c, o, won)
           y == After(o, c, ~won)
<1>2. x.games = EnsuredStats(c).games + 1 /\ y.games = EnsuredStats(o).games + 1
  BY <1>1, AfterFacts
<1>3. /\ x \in PlayerStats /\ y \in PlayerStats
      /\ stats'[c] = x /\ stats'[o] = y
      /\ \A w \in Wallets \ {c, o} : stats'[w] = stats[w]
  BY StatsFought
<1>8. ASSUME Ranked({c, o})
      PROVE  \E mid, new :
               /\ RankedOn(mid, boards[b], c, x)
               /\ RankedOn(new, mid, o, y)
               /\ boards' = [boards EXCEPT ![b] = new]
               /\ boards' \in [Boards -> Board] /\ boards'[b] = new
               /\ \A a \in Boards : a # b => boards'[a] = boards[a]
               /\ BoardsOK'
  BY <1>8, BoardFought
<1> HIDE DEF x, y
<1>4. /\ Top!Played({c, o})
      /\ Top!EntryOf(c) = EntryOf(c, x) /\ Top!EntryOf(o) = EntryOf(o, y)
  <2>1. \A w \in {c, o} : stats'[w] \in PlayerStats /\ stats'[w].games = EnsuredStats(w).games + 1
    BY <1>2, <1>3
  <2>2. QED
    BY <1>1, <1>3, <2>1, ScoresPlayed
<1> DEFINE E == AsSet(boards[b].heap)
           n == boards[b].capacity
           e == Top!EntryOf(c)
           f == Top!EntryOf(o)
<1>5. TopView[b].entries = E /\ TopView[b].capacity = n
  BY BoardsView DEF View
<1>6. \E M \in Top!MaybeOffered(E, n, e) : \E F \in Top!MaybeOffered(M, n, f) :
        TopView' = [TopView EXCEPT ![b].entries = F]
  <2>1. CASE ~Ranked({c, o})
    <3>1. boards' = boards
      BY <2>1 DEF Fights
    <3>2. boards \in [Boards -> Board]
      BY <1>1 DEF LeaderboardTypeOK
    <3>3. boards' = [boards EXCEPT ![b] = boards[b]]
      BY <3>1, <3>2
    <3>4. TopView' = [TopView EXCEPT ![b].entries = E]
      BY <3>3, ViewExcept
    <3>5. E \in Top!MaybeOffered(E, n, e) /\ E \in Top!MaybeOffered(E, n, f)
      BY DEF Top!MaybeOffered
    <3>6. QED
      BY <3>4, <3>5
  <2>2. CASE Ranked({c, o})
    <3>1. PICK mid, new :
             /\ RankedOn(mid, boards[b], c, x)
             /\ RankedOn(new, mid, o, y)
             /\ boards' = [boards EXCEPT ![b] = new]
      BY <1>8, <2>2
    <3>2. /\ mid.capacity = n /\ new.capacity = n
          /\ AsSet(mid.heap) = E \/ AsSet(mid.heap) \in Top!Offered(E, n, e)
          /\ \/ AsSet(new.heap) = AsSet(mid.heap)
             \/ AsSet(new.heap) \in Top!Offered(AsSet(mid.heap), n, f)
      BY <1>4, <3>1 DEF RankedOn
    <3>3. /\ AsSet(mid.heap) \in Top!MaybeOffered(E, n, e)
          /\ AsSet(new.heap) \in Top!MaybeOffered(AsSet(mid.heap), n, f)
      BY <3>2 DEF Top!MaybeOffered
    <3>4. TopView' = [TopView EXCEPT ![b].entries = AsSet(new.heap)]
      BY <3>1, <3>2, ViewExcept
    <3>5. QED
      BY <3>3, <3>4
  <2>3. QED
    BY <2>1, <2>2
<1>7. QED
  BY <1>1, <1>4, <1>5, <1>6 DEF Top!Fight

\* An instruction of either half opens one board, reports a battle or a fight to one, or
\* changes neither the boards nor a score.
LEMMA PvpTopStep ==
  ASSUME PvpInv, [Next]_vars
  PROVE  [Top!Next]_(Top!topVars)
<1>1. LadderInv
  BY DEF PvpInv
<1>2. CASE \E b \in Boards, k \in Keys : ResolveChallenge(b, k)
  <2>1. PICK b \in Boards, k \in Keys : ResolveChallenge(b, k)
    BY <1>2
  <2>2. PICK c \in Wallets : c = k[1]
    BY DEF Keys
  <2>3. PICK o \in Wallets, won \in BOOLEAN : Fights(b, k, c, o, won)
    BY <2>1, <2>2, ResolveFights
  <2>4. Top!Fight(b, c, o)
    BY <1>1, <2>3, TopFought
  <2>5. QED
    BY <2>4 DEF Top!Next
<1>3. \/ LadderStep \/ (boards' = boards /\ stats' = stats)
      \/ \E b \in Boards, k \in Keys : ResolveChallenge(b, k)
  BY DEF Next, PvpStep, AdvanceClock, vars, leaderboardVars, ladderVars, PublishSnapshot,
         UnpublishSnapshot, CommitChallenge, CloseExpiredChallenge
<1>4. QED
  BY <1>1, <1>2, <1>3, TopStep

\* The boards both halves write implement TopBoards: a fight, which upserts two players on
\* one heap, is two offers, the challenger's and then the opponent's, each of the score the
\* fight has just left that player; the second may displace what the first put in, and a
\* third player is displaced only as a weakest entry, by a fighter that strictly beats it.
THEOREM PvpRefinesTopBoards == Spec => ImplementsTopBoards
<1>1. Init => Top!Init
  BY InitLadderInv, InitTop DEF Init
<1>2. PvpInv /\ [Next]_vars => [Top!Next]_(Top!topVars)
  BY PvpTopStep
<1>3. QED
  BY <1>1, <1>2, PvpInvariant, PTL DEF Spec, ImplementsTopBoards, Top!Spec

-----------------------------------------------------------------------------
(* Implementation of CommitReveal *)

\* No challenge is open at first.
LEMMA InitKeeps == Init => Promise!Init
BY DEF Init, LeaderboardInit, PvpInit, Promise!Init, ClockInit, Promise!ClockInit, Target,
       NoChallenge, Idle, Promise!Idle

\* commit_challenge is a commit.
LEMMA CommitKeeps ==
  ASSUME PvpInv, NEW k \in Keys, NEW o \in Wallets, CommitChallenge(k, o)
  PROVE  Promise!Commit(k)
<1>1. challenges \in [Keys -> Challenge \cup {NoChallenge}]
  BY DEF PvpInv, TypeOK
<1>2. \A j \in Keys : challenges'[j].target = IF j = k THEN slot + Delay ELSE challenges[j].target
  BY <1>1 DEF CommitChallenge
<1>3. Target' = [Target EXCEPT ![k] = slot + Delay]
  BY <1>2 DEF Target
<1>4. challenges[k] = NoChallenge
  BY DEF CommitChallenge
<1>5. Target[k] = Idle
  BY <1>4 DEF Target, NoChallenge
<1>6. UNCHANGED <<slot, blocks, settled>>
  BY DEF CommitChallenge, leaderboardVars, clockVars
<1>7. QED
  BY <1>3, <1>5, <1>6 DEF CommitChallenge, Promise!Commit, Promise!Idle, Idle, Promise!clockVars

\* Closing the account of a challenge settles it.
LEMMA SettleKeeps ==
  ASSUME PvpInv, NEW k \in Keys, NEW e, Settle(k, e), UNCHANGED clockVars
  PROVE  Promise!Settle(k, e)
<1>1. challenges \in [Keys -> Challenge \cup {NoChallenge}]
  BY DEF PvpInv, TypeOK
<1>2. \A j \in Keys : challenges'[j].target = IF j = k THEN Idle ELSE challenges[j].target
  BY <1>1 DEF Settle, NoChallenge
<1>3. Target' = [Target EXCEPT ![k] = Idle] /\ Target[k] = challenges[k].target
  BY <1>2 DEF Target
<1>4. QED
  BY <1>3 DEF Settle, Promise!Settle, Promise!Idle, Idle, clockVars, Promise!clockVars

\* The lookup in the retained slots finds the first block of the whole chain.
LEMMA ResolveKeeps ==
  ASSUME PvpInv, NEW b \in Boards, NEW k \in Keys, ResolveChallenge(b, k)
  PROVE  Promise!Reveal(k)
<1>1. /\ challenges[k] # NoChallenge /\ InRevealWindow(challenges[k].target)
      /\ UNCHANGED clockVars
  BY DEF ResolveChallenge, CanResolve
<1>2. challenges[k] \in Challenge
  BY <1>1 DEF PvpInv, TypeOK
<1>3. challenges[k].target \in Nat /\ challenges[k].target # Idle
  BY <1>2, ChallengesApart
<1>4. PICK s \in blocks :
        SlothashAtOrAfter(s, Retained(blocks), challenges[k].target) /\ Settle(k, s)
  BY DEF ResolveChallenge, CanResolve
<1>5. ClockTypeOK
  BY DEF PvpInv, LadderInv, LeaderboardTypeOK
<1>6. IsFirstAtOrAfter(s, blocks, challenges[k].target)
  BY <1>3, <1>4, <1>5, BlocksFinite, LookupIsCanonical
<1>7. Promise!Settle(k, s)
  BY <1>1, <1>4, SettleKeeps
<1>8. slot > challenges[k].target /\ slot <= challenges[k].target + Window
  BY <1>1 DEF InRevealWindow
<1>9. Target[k] = challenges[k].target
  BY DEF Target
<1>10. QED
  BY <1>3, <1>6, <1>7, <1>8, <1>9
     DEF Promise!Reveal, Promise!IsFirstAtOrAfter, IsFirstAtOrAfter, Promise!Idle, Idle

\* close_expired_challenge expires a commit whose window is over.
LEMMA CloseKeeps ==
  ASSUME PvpInv, NEW k \in Keys, CloseExpiredChallenge(k)
  PROVE  Promise!Expire(k)
<1>1. challenges[k] # NoChallenge /\ Settle(k, Expired) /\ UNCHANGED clockVars
  BY DEF CloseExpiredChallenge, leaderboardVars
<1>2. challenges[k].target # Idle /\ Target[k] = challenges[k].target
  BY <1>1, ChallengesApart DEF PvpInv, TypeOK, Target
<1>3. Promise!Settle(k, Expired)
  BY <1>1, SettleKeeps
<1>4. QED
  BY <1>2, <1>3 DEF CloseExpiredChallenge, Promise!Expire, Promise!Idle, Idle,
                    Promise!Expired, Expired

\* Every step of the program is a step of CommitReveal or leaves it alone.
LEMMA StepKeeps == PvpInv /\ [Next]_vars => [Promise!Next]_(Promise!vars)
<1>1. SUFFICES ASSUME PvpInv, [Next]_vars PROVE [Promise!Next]_(Promise!vars)
  OBVIOUS
<1>2. ASSUME NEW k \in Keys, NEW o \in Wallets, CommitChallenge(k, o)
      PROVE  Promise!Next
  BY <1>1, <1>2, CommitKeeps DEF Promise!Next
<1>3. ASSUME NEW b \in Boards, NEW k \in Keys, ResolveChallenge(b, k)
      PROVE  Promise!Next
  BY <1>1, <1>3, ResolveKeeps DEF Promise!Next
<1>4. ASSUME NEW k \in Keys, CloseExpiredChallenge(k)
      PROVE  Promise!Next
  BY <1>1, <1>4, CloseKeeps DEF Promise!Next
<1>5. CASE AdvanceClock
  <2>1. NewBank /\ UNCHANGED <<challenges, settled>>
    BY <1>5 DEF AdvanceClock, NextBank, pvpVars
  <2>2. Promise!NewBank /\ UNCHANGED <<Target, settled>>
    BY <2>1 DEF NewBank, Promise!NewBank, Target
  <2>3. QED
    BY <2>2 DEF Promise!Next
<1>6. ASSUME UNCHANGED <<slot, blocks, challenges, settled>> PROVE UNCHANGED Promise!vars
  BY <1>6 DEF Target, Promise!vars
<1>7. \/ AdvanceClock
      \/ \E k \in Keys, o \in Wallets : CommitChallenge(k, o)
      \/ \E b \in Boards, k \in Keys : ResolveChallenge(b, k)
      \/ \E k \in Keys : CloseExpiredChallenge(k)
      \/ UNCHANGED <<slot, blocks, challenges, settled>>
  <2>1. LadderStep => UNCHANGED clockVars
    BY DEF LadderStep, InitLeaderboard, RegisterSessionKey, RevokeSessionKey, RecordBattle,
           SetProfile
  <2>2. QED
    BY <1>1, <2>1 DEF Next, PvpStep, PublishSnapshot, UnpublishSnapshot, vars, pvpVars,
                      leaderboardVars, clockVars
<1>8. QED
  BY <1>2, <1>3, <1>4, <1>5, <1>6, <1>7

\* A challenge keeps the promise of CommitReveal: it is fought at most once, from the first
\* block at or after its target on the whole chain, or expires after its window.
THEOREM PvpImplements == Spec => ImplementsCommitReveal
<1>1. Init /\ [][Next]_vars /\ []PvpInv => Promise!Init /\ [][Promise!Next]_(Promise!vars)
  BY InitKeeps, StepKeeps, PTL
<1>2. QED
  BY <1>1, PvpInvariant, PTL DEF Spec, ImplementsCommitReveal, Promise!Spec
-----------------------------------------------------------------------------
(* An open challenge is refused for a withdrawn ghost only *)

\* As long as both ghosts are published, all that a resolve requires holds on every
\* board there is, from the first block at or after the target to the end of the
\* window.
ResolveNeverRefused ==
  \A k \in Keys, b \in Boards :
    LET c == challenges[k] IN
      /\ c # NoChallenge /\ boards[b].capacity # 0
      /\ snapshots[k[1]] # NoSnapshot /\ snapshots[c.opponent] # NoSnapshot
      /\ InRevealWindow(c.target)
      /\ \E s \in blocks : s >= c.target
      => \E s \in blocks : CanResolve(b, k, s)

\* The first block, older than every target.
GenesisOK == 0 \in blocks

LEMMA GhostsResolve == PvpInv /\ GenesisOK => ResolveNeverRefused
<1>1. SUFFICES ASSUME PvpInv, 0 \in blocks, NEW k \in Keys, NEW b \in Boards,
                      challenges[k] # NoChallenge, boards[b].capacity # 0,
                      snapshots[k[1]] # NoSnapshot,
                      snapshots[challenges[k].opponent] # NoSnapshot,
                      InRevealWindow(challenges[k].target),
                      NEW s \in blocks, s >= challenges[k].target
               PROVE  \E u \in blocks : CanResolve(b, k, u)
  BY DEF ResolveNeverRefused, GenesisOK
<1>2. ClockTypeOK /\ challenges[k] \in Challenge /\ challenges[k].opponent # k[1]
  BY <1>1 DEF PvpInv, LadderInv, LeaderboardTypeOK, TypeOK, ChallengesOK
<1>3. PICK t \in Nat : t = challenges[k].target
  BY <1>2, ChallengesApart
<1>4. 0 < t
  BY <1>2, <1>3, ChallengesApart DEF Idle
<1>5. Window \in Nat /\ Window <= Retention /\ slot > t /\ slot <= t + Window /\ s >= t
  BY <1>1, <1>3, PvpAssumption, PvpWindowAssumption DEF InRevealWindow
<1>6. PICK u \in blocks : SlothashAtOrAfter(u, Retained(blocks), t)
  BY <1>1, <1>2, <1>4, <1>5, TimelyLookup
<1>7. CanResolve(b, k, u)
  BY <1>1, <1>2, <1>3, <1>6 DEF CanResolve
<1>8. QED
  BY <1>7

\* The first block stays.
LEMMA GenesisKept == GenesisOK /\ [Next]_vars => GenesisOK'
<1>1. SUFFICES ASSUME 0 \in blocks, [Next]_vars PROVE 0 \in blocks'
  BY DEF GenesisOK
<1>2. CASE PvpStep
  BY <1>1, <1>2 DEF PvpStep, PublishSnapshot, UnpublishSnapshot, CommitChallenge,
                    ResolveChallenge, CloseExpiredChallenge, leaderboardVars, clockVars
<1>3. CASE LadderStep
  BY <1>1, <1>3 DEF LadderStep, InitLeaderboard, RegisterSessionKey, RevokeSessionKey,
                    RecordBattle, SetProfile, clockVars
<1>4. CASE AdvanceClock \/ UNCHANGED vars
  BY <1>1, <1>4 DEF AdvanceClock, NextBank, NewBank, vars, leaderboardVars, clockVars
<1>5. QED
  BY <1>1, <1>2, <1>3, <1>4 DEF Next

\* Nobody but the owners of the two ghosts can keep a fight from being resolved in its
\* window: whatever else is published, fought, closed and reported, the lookup
\* answers and every board takes the result. PeekedFightForcible, which run
\* find_loss_dodge finds violated, leaves the condition on the ghosts out.
THEOREM FightsResolve == Spec => []ResolveNeverRefused
<1>1. Init => GenesisOK
  BY DEF Init, LeaderboardInit, ClockInit, GenesisOK
<1>2. QED
  BY <1>1, GenesisKept, GhostsResolve, PvpInvariant, PTL DEF Spec
=============================================================================
