---------------------------- MODULE CombatProofs ----------------------------
(***************************************************************************)
(* Rolls and fights, for every generator and every pair of builds.  The    *)
(* battle simulation: a round keeps hit points and mana within what the    *)
(* build has, so nothing runs below zero or away, and it treats both       *)
(* corners alike; by induction over the rounds, so does a whole fight.  A  *)
(* round also keeps a better build ahead, which therefore wins every fight *)
(* the plain one wins.                                                     *)
(* The rolls: whatever is drawn, a reveal stays within the tables, and so  *)
(* the fighters it gives are builds the simulation is proved for.          *)
(***************************************************************************)
EXTENDS MCCombat, SequenceTheorems, WellFoundedInduction, TLAPS

\* What a side can be at the end of any step of a fight.
CornerOf(c) == [hp : 0..EffMaxHp(c), mana : 0..MaxMana(c), fire : BOOLEAN]

CornersOf(a, b) == CornerOf(a) \X CornerOf(b)

LEMMA BonusType ==
  ASSUME NEW c \in Combatant, NEW skill, NEW n \in Nat
  PROVE  Bonus(c, skill, n) \in {0, n}
BY DEF Bonus

LEMMA EffectiveTypes ==
  ASSUME NEW c \in Combatant
  PROVE  /\ EffAttack(c) \in Int
         /\ EffMaxHp(c) \in Nat \ {0}
         /\ MaxMana(c) \in Nat \ {0}
         /\ EffInitiative(c) \in Int
<1>1. c.hp \in Int /\ c.attack \in Int /\ c.speed \in Int
  BY DEF Combatant
<1>2. /\ Bonus(c, "glass_cannon", 3) \in {0, 3}
      /\ Bonus(c, "jewelry_focus", 2) \in {0, 2}
      /\ Bonus(c, "quickstep", 2) \in {0, 2}
  BY BonusType
<1>3. QED
  BY <1>1, <1>2 DEF EffAttack, EffMaxHp, MaxMana, EffInitiative, AtLeast

-----------------------------------------------------------------------------
(* Bounds *)

LEMMA DamageType ==
  ASSUME NEW c \in Combatant, NEW d \in Combatant, NEW x \in CornerOf(c)
  PROVE  Damage(c, d, x) \in Nat \ {0} /\ ManaCost(x) \in 0..x.mana
<1>1. EffAttack(c) \in Int /\ d.armor \in Int /\ MaxMana(c) \in Nat
  BY EffectiveTypes DEF Combatant
<1>2. x.mana \in Nat /\ x.fire \in BOOLEAN
  BY <1>1 DEF CornerOf
<1>3. ManaCost(x) \in 0..x.mana
  BY <1>2 DEF ManaCost, CanFire, AtMost
<1>4. Bonus(d, "heavy_guard", 1) \in {0, 1}
  BY BonusType
<1>5. Damage(c, d, x) \in Nat \ {0}
  BY <1>1, <1>3, <1>4 DEF Damage, AtLeast
<1>6. QED
  BY <1>3, <1>5

LEMMA StrikeInRange ==
  ASSUME NEW c \in Combatant, NEW d \in Combatant, NEW x \in CornerOf(c), NEW y \in CornerOf(d)
  PROVE  Strike(c, d, x, y) \in CornersOf(c, d)
<1>1. /\ EffMaxHp(c) \in Nat /\ MaxMana(c) \in Nat
      /\ EffMaxHp(d) \in Nat /\ MaxMana(d) \in Nat
  BY EffectiveTypes
<1>2. Damage(c, d, x) \in Nat /\ ManaCost(x) \in 0..x.mana
  BY DamageType
<1>3. Bonus(d, "stone_oath", 1) \in {0, 1}
  BY BonusType
<1>4. x.hp \in 0..EffMaxHp(c) /\ x.mana \in 0..MaxMana(c) /\ y.hp \in 0..EffMaxHp(d)
  BY DEF CornerOf
<1>5. AtLeast(0, x.hp - Bonus(d, "stone_oath", 1)) \in 0..EffMaxHp(c)
  BY <1>1, <1>3, <1>4 DEF AtLeast
<1>6. x.mana - ManaCost(x) \in 0..MaxMana(c)
  BY <1>1, <1>2, <1>4
<1>7. AtLeast(0, y.hp - Damage(c, d, x)) \in 0..EffMaxHp(d)
  BY <1>1, <1>2, <1>4 DEF AtLeast
<1>8. QED
  BY <1>5, <1>6, <1>7 DEF Strike, CornersOf, CornerOf

LEMMA RecoverInRange ==
  ASSUME NEW c \in Combatant, NEW x \in CornerOf(c)
  PROVE  Recover(c, x) \in CornerOf(c)
<1>1. EffMaxHp(c) \in Nat /\ MaxMana(c) \in Nat
  BY EffectiveTypes
<1>2. x.hp \in 0..EffMaxHp(c) /\ x.mana \in 0..MaxMana(c)
  BY DEF CornerOf
<1>3. /\ AtMost(EffMaxHp(c), x.hp + 1) \in 0..EffMaxHp(c)
      /\ AtMost(MaxMana(c), x.mana + 1) \in 0..MaxMana(c)
  BY <1>1, <1>2 DEF AtMost
<1>4. QED
  BY <1>3 DEF Recover, CornerOf

LEMMA StrikesInRange ==
  ASSUME NEW a \in Combatant, NEW b \in Combatant, NEW corners \in CornersOf(a, b)
  PROVE  /\ AStrikes(a, b, corners) \in CornersOf(a, b)
         /\ BStrikes(a, b, corners) \in CornersOf(a, b)
<1>1. corners[1] \in CornerOf(a) /\ corners[2] \in CornerOf(b)
  BY DEF CornersOf
<1>2. /\ Strike(a, b, corners[1], corners[2]) \in CornersOf(a, b)
      /\ Strike(b, a, corners[2], corners[1]) \in CornersOf(b, a)
  BY <1>1, StrikeInRange
<1>3. QED
  BY <1>2 DEF AStrikes, BStrikes, CornersOf

\* In a fight of any two builds, also with negative or huge stats, hit points
\* and mana start and stay between zero and what the build has: no reflected
\* damage, heal or refill of resolve_onchain leaves the range.
THEOREM RoundInRange ==
  ASSUME NEW a \in Combatant, NEW b \in Combatant, NEW seed \in Int, NEW round \in 1..RoundCap
  PROVE  /\ <<Corner(a), Corner(b)>> \in CornersOf(a, b)
         /\ \A corners \in CornersOf(a, b) :
              PlayRound(a, b, seed, round, corners) \in CornersOf(a, b)
<1>1. Corner(a) \in CornerOf(a) /\ Corner(b) \in CornerOf(b)
  BY EffectiveTypes DEF Corner, CornerOf
<1>2. ASSUME NEW corners \in CornersOf(a, b)
      PROVE  PlayRound(a, b, seed, round, corners) \in CornersOf(a, b)
  <2> DEFINE aFirst == AGoesFirst(a, b, seed, round)
             half == IF aFirst THEN AStrikes(a, b, corners) ELSE BStrikes(a, b, corners)
             struck == IF Over(half) THEN half
                       ELSE IF aFirst THEN BStrikes(a, b, half) ELSE AStrikes(a, b, half)
  <2>1. half \in CornersOf(a, b)
    BY StrikesInRange
  <2>2. struck \in CornersOf(a, b)
    <3> HIDE DEF half
    <3>1. QED
      BY <2>1, StrikesInRange
  <2>3. PlayRound(a, b, seed, round, corners) =
          IF Over(struck) THEN struck ELSE <<Recover(a, struck[1]), Recover(b, struck[2])>>
    BY DEF PlayRound
  <2>4. Recover(a, struck[1]) \in CornerOf(a) /\ Recover(b, struck[2]) \in CornerOf(b)
    <3> HIDE DEF struck
    <3>1. QED
      BY <2>2, RecoverInRange DEF CornersOf
  <2>5. QED
    <3> HIDE DEF struck
    <3>1. QED
      BY <2>2, <2>3, <2>4 DEF CornersOf
<1>3. QED
  BY <1>1, <1>2 DEF CornersOf

-----------------------------------------------------------------------------
(* Symmetry *)

Swap(corners) == <<corners[2], corners[1]>>

\* With the other low bit of the hash, whoever went first goes second.
LEMMA MirroredOrder ==
  ASSUME NEW a \in Combatant, NEW b \in Combatant, NEW seed \in {0, 1}, NEW round \in 0..RoundCap
  PROVE  /\ AGoesFirst(b, a, 1 - seed, round) <=> ~AGoesFirst(a, b, seed, round)
         /\ TieBreakEven(1 - seed, 0) <=> ~TieBreakEven(seed, 0)
<1>1. EffInitiative(a) \in Int /\ EffInitiative(b) \in Int
  BY EffectiveTypes
<1>2. RoundParity(round) \in {0, 1}
  BY DEF RoundParity, RoundCap
<1>3. \A suffix \in {0, 1} : TieBreakEven(1 - seed, suffix) <=> ~TieBreakEven(seed, suffix)
  BY DEF TieBreakEven
<1>4. QED
  BY <1>1, <1>2, <1>3 DEF AGoesFirst

LEMMA MirroredStrikes ==
  ASSUME NEW a, NEW b, NEW x, NEW y
  PROVE  /\ AStrikes(b, a, <<y, x>>) = Swap(BStrikes(a, b, <<x, y>>))
         /\ BStrikes(b, a, <<y, x>>) = Swap(AStrikes(a, b, <<x, y>>))
BY DEF AStrikes, BStrikes, Swap, Strike

LEMMA SwapFacts ==
  ASSUME NEW x, NEW y
  PROVE  Swap(<<x, y>>) = <<y, x>> /\ (Over(<<y, x>>) <=> Over(<<x, y>>))
BY DEF Swap, Over

LEMMA StrikesArePairs ==
  ASSUME NEW a, NEW b, NEW corners
  PROVE  /\ \E x, y : AStrikes(a, b, corners) = <<x, y>>
         /\ \E x, y : BStrikes(a, b, corners) = <<x, y>>
BY DEF AStrikes, BStrikes, Strike

\* The round of the swapped corners, with the other low bit, is the round
\* swapped: resolve_onchain, which spells out both orders, favours neither side.
THEOREM MirroredRound ==
  ASSUME NEW a \in Combatant, NEW b \in Combatant, NEW seed \in {0, 1},
         NEW round \in 1..RoundCap, NEW x, NEW y
  PROVE  PlayRound(b, a, 1 - seed, round, <<y, x>>) = Swap(PlayRound(a, b, seed, round, <<x, y>>))
<1> DEFINE aFirst == AGoesFirst(a, b, seed, round)
           half == IF aFirst THEN AStrikes(a, b, <<x, y>>) ELSE BStrikes(a, b, <<x, y>>)
           struck == IF Over(half) THEN half
                     ELSE IF aFirst THEN BStrikes(a, b, half) ELSE AStrikes(a, b, half)
           bFirst == AGoesFirst(b, a, 1 - seed, round)
           mirrorHalf == IF bFirst THEN AStrikes(b, a, <<y, x>>) ELSE BStrikes(b, a, <<y, x>>)
           mirrorStruck == IF Over(mirrorHalf) THEN mirrorHalf
                           ELSE IF bFirst THEN BStrikes(b, a, mirrorHalf)
                                ELSE AStrikes(b, a, mirrorHalf)
<1>1. bFirst <=> ~aFirst
  BY MirroredOrder DEF RoundCap
<1>2. mirrorHalf = Swap(half)
  BY <1>1, MirroredStrikes
<1>3. PICK p, q : half = <<p, q>>
  BY StrikesArePairs
<1>4. mirrorHalf = <<q, p>> /\ (Over(mirrorHalf) <=> Over(half))
  BY <1>2, <1>3, SwapFacts
<1>5. mirrorStruck = Swap(struck)
  <2> HIDE DEF half, mirrorHalf, aFirst, bFirst
  <2>1. CASE Over(half)
    BY <1>2, <1>4, <2>1
  <2>2. CASE ~Over(half)
    BY <1>1, <1>3, <1>4, <2>2, MirroredStrikes
  <2>3. QED
    BY <2>1, <2>2
<1>6. PICK u, v : struck = <<u, v>>
  <2> HIDE DEF half, aFirst
  <2>1. QED
    BY <1>3, StrikesArePairs
<1>7. mirrorStruck = <<v, u>> /\ (Over(mirrorStruck) <=> Over(struck))
  <2> HIDE DEF struck, mirrorStruck
  <2>1. QED
    BY <1>5, <1>6, SwapFacts
<1>8. PlayRound(a, b, seed, round, <<x, y>>) =
        IF Over(struck) THEN struck ELSE <<Recover(a, struck[1]), Recover(b, struck[2])>>
  BY DEF PlayRound
<1>9. PlayRound(b, a, 1 - seed, round, <<y, x>>) =
        IF Over(mirrorStruck) THEN mirrorStruck
        ELSE <<Recover(b, mirrorStruck[1]), Recover(a, mirrorStruck[2])>>
  BY DEF PlayRound
<1>10. QED
  <2> HIDE DEF struck, mirrorStruck
  <2>1. QED
    BY <1>6, <1>7, <1>8, <1>9 DEF Swap

\* And so is the decision: exactly one side wins, and it is the same build in
\* both corners.
THEOREM MirroredResult ==
  ASSUME NEW a \in Combatant, NEW b \in Combatant, NEW seed \in {0, 1},
         NEW x \in CornerOf(a), NEW y \in CornerOf(b)
  PROVE  AWins(b, a, 1 - seed, <<y, x>>) <=> ~AWins(a, b, seed, <<x, y>>)
<1>1. x.hp \in Int /\ y.hp \in Int /\ EffAttack(a) \in Int /\ EffAttack(b) \in Int
  BY EffectiveTypes DEF CornerOf
<1>2. TieBreakEven(1 - seed, 0) <=> ~TieBreakEven(seed, 0)
  BY DEF TieBreakEven
<1>3. QED
  BY <1>1, <1>2 DEF AWins

-----------------------------------------------------------------------------
(* Recursions over 0..m *)

\* What holds at 0 and is kept by every step up to m holds up to m.
LEMMA Climb ==
  ASSUME NEW m \in Nat, NEW P, 0 \in P, \A n \in 1..m : n - 1 \in P => n \in P
  PROVE  0..m \subseteq P
<1> DEFINE Bad == {n \in 0..m : n \notin P}
           R == OpToRel(<, Nat)
<1>1. \A i, j \in Nat : <<i, j>> \in R <=> i < j
  BY DEF OpToRel
<1>2. ASSUME Bad # {} PROVE FALSE
  <2>1. Bad \subseteq Nat /\ Bad # {}
    BY <1>2
  <2>2. PICK n \in Bad : \A k \in Bad : ~(<<k, n>> \in R)
    <3>1. IsWellFoundedOn(R, Nat)
      BY NatLessThanWellFounded
    <3> HIDE DEF Bad, R
    <3>2. QED
      BY <2>1, <3>1, WFMin
  <2>3. n \in 0..m /\ n \notin P
    BY <2>2
  <2>4. n \in 1..m /\ n - 1 \in 0..m /\ n - 1 \notin P
    BY <2>3
  <2>5. n - 1 \in Bad /\ <<n - 1, n>> \in R
    <3> HIDE DEF R
    <3>1. n - 1 \in Nat /\ n \in Nat /\ n - 1 < n
      BY <2>4
    <3>2. QED
      BY <1>1, <2>4, <3>1
  <2> HIDE DEF Bad, R
  <2>6. QED
    BY <2>2, <2>5
<1>3. QED
  BY <1>2

\* A recursion by steps has a solution.
Iterates(f, start, step, m) ==
  f[0] = start /\ \A n \in 1..m : f[n] = step[<<n, f[n - 1]>>]

LEMMA IterationExists ==
  ASSUME NEW X, NEW start \in X, NEW m \in Nat, NEW step \in [(1..m) \X X -> X]
  PROVE  \E f \in [0..m -> X] : Iterates(f, start, step, m)
<1> DEFINE P == {n \in 0..m : \E f \in [0..n -> X] : Iterates(f, start, step, n)}
<1>1. 0 \in P
  <2>1. Iterates([i \in 0..0 |-> start], start, step, 0)
    BY DEF Iterates
  <2>2. QED
    BY <2>1
<1>2. ASSUME NEW n \in 1..m, n - 1 \in P
      PROVE  n \in P
  <2>1. PICK f \in [0..(n - 1) -> X] : Iterates(f, start, step, n - 1)
    BY <1>2
  <2> DEFINE g == [i \in 0..n |-> IF i = n THEN step[<<n, f[n - 1]>>] ELSE f[i]]
  <2>2. f[n - 1] \in X
    OBVIOUS
  <2>3. step[<<n, f[n - 1]>>] \in X
    BY <2>2
  <2>4. g \in [0..n -> X]
    BY <2>3
  <2>5. g[0] = start
    BY <2>1 DEF Iterates
  <2>6. ASSUME NEW i \in 1..n PROVE g[i] = step[<<i, g[i - 1]>>]
    <3>1. i \in 0..n /\ i - 1 \in 0..(n - 1) /\ g[i - 1] = f[i - 1]
      OBVIOUS
    <3>2. CASE i = n
      BY <3>1, <3>2
    <3>3. CASE i # n
      <4>1. i \in 1..(n - 1) /\ g[i] = f[i]
        BY <3>3
      <4>2. QED
        BY <2>1, <3>1, <4>1 DEF Iterates
    <3>4. QED
      BY <3>2, <3>3
  <2> HIDE DEF g
  <2>7. Iterates(g, start, step, n)
    BY <2>5, <2>6 DEF Iterates
  <2>8. QED
    BY <2>4, <2>7
<1>3. m \in P
  <2>1. P \subseteq 0..m
    OBVIOUS
  <2> HIDE DEF P
  <2>2. QED
    BY <1>1, <1>2, Climb
<1>4. QED
  BY <1>3

-----------------------------------------------------------------------------
(* Whole fights *)

\* The state of a fight between rounds, and a round.
FightState(a, b) == [corners : CornersOf(a, b), rounds : 0..RoundCap]

Start(a, b) == [corners |-> <<Corner(a), Corner(b)>>, rounds |-> 0]

NextRound(a, b, seed, n, last) ==
  IF Over(last.corners)
  THEN last
  ELSE [corners |-> PlayRound(a, b, seed, n, last.corners), rounds |-> n]

\* The recursion of Fought.
Rounds(f, a, b, seed) ==
  f = [n \in 0..RoundCap |-> IF n = 0 THEN Start(a, b) ELSE NextRound(a, b, seed, n, f[n - 1])]

LEMMA RoundTypes ==
  ASSUME NEW a \in Combatant, NEW b \in Combatant, NEW seed \in Int
  PROVE  /\ Start(a, b) \in FightState(a, b)
         /\ \A n \in 1..RoundCap : \A last \in FightState(a, b) :
              NextRound(a, b, seed, n, last) \in FightState(a, b)
<1>1. <<Corner(a), Corner(b)>> \in CornersOf(a, b)
  <2>1. 1 \in 1..RoundCap
    BY DEF RoundCap
  <2>2. QED
    BY <2>1, RoundInRange
<1>2. Start(a, b) \in FightState(a, b)
  BY <1>1 DEF Start, FightState, RoundCap
<1>3. ASSUME NEW n \in 1..RoundCap, NEW last \in FightState(a, b)
      PROVE  NextRound(a, b, seed, n, last) \in FightState(a, b)
  <2>1. last.corners \in CornersOf(a, b) /\ n \in 0..RoundCap
    BY DEF FightState, RoundCap
  <2>2. PlayRound(a, b, seed, n, last.corners) \in CornersOf(a, b)
    BY <2>1, RoundInRange
  <2>3. QED
    BY <2>1, <2>2 DEF NextRound, FightState
<1>4. QED
  BY <1>2, <1>3

\* Fought is what its recursion says.
LEMMA FoughtRounds ==
  ASSUME NEW a \in Combatant, NEW b \in Combatant, NEW seed \in Int
  PROVE  \E f \in [0..RoundCap -> FightState(a, b)] :
           Rounds(f, a, b, seed) /\ Fought(a, b, seed) = f[RoundCap]
<1> DEFINE X == FightState(a, b)
           start == Start(a, b)
           step == [p \in (1..RoundCap) \X X |-> NextRound(a, b, seed, p[1], p[2])]
<1>1. start \in X /\ \A n \in 1..RoundCap : \A last \in X : NextRound(a, b, seed, n, last) \in X
  BY RoundTypes
<1>2. step \in [(1..RoundCap) \X X -> X]
  BY <1>1
<1>3. ASSUME NEW n \in 1..RoundCap, NEW last \in X
      PROVE  step[<<n, last>>] = NextRound(a, b, seed, n, last)
  OBVIOUS
<1> HIDE DEF X, start, step
<1>4. PICK f \in [0..RoundCap -> X] : Iterates(f, start, step, RoundCap)
  <2>1. RoundCap \in Nat
    BY DEF RoundCap
  <2>2. QED
    BY <1>1, <1>2, <2>1, IterationExists
<1>5. ASSUME NEW n \in 0..RoundCap
      PROVE  f[n] = IF n = 0 THEN Start(a, b) ELSE NextRound(a, b, seed, n, f[n - 1])
  <2>1. CASE n = 0
    BY <1>4, <2>1 DEF Iterates, start
  <2>2. CASE n # 0
    <3>1. n \in 1..RoundCap /\ n - 1 \in 0..RoundCap
      BY <2>2 DEF RoundCap
    <3>2. f[n - 1] \in X
      BY <1>4, <3>1
    <3>3. f[n] = step[<<n, f[n - 1]>>]
      BY <1>4, <3>1 DEF Iterates
    <3>4. QED
      BY <1>3, <2>2, <3>1, <3>2, <3>3
  <2>3. QED
    BY <2>1, <2>2
<1>6. Rounds(f, a, b, seed)
  BY <1>4, <1>5 DEF Rounds
<1> DEFINE g == CHOOSE g : Rounds(g, a, b, seed)
<1>7. Rounds(g, a, b, seed)
  BY <1>6
<1>8. Fought(a, b, seed) = g[RoundCap]
  BY DEF Fought, Rounds, Start, NextRound
<1> HIDE DEF g
<1>9. g \in [0..RoundCap -> X]
  <2> DEFINE P == {n \in 0..RoundCap : g[n] \in X}
  <2>1. 0 \in P
    BY <1>1, <1>7 DEF Rounds, RoundCap, start
  <2>2. ASSUME NEW n \in 1..RoundCap, n - 1 \in P
        PROVE  n \in P
    <3>1. n \in 0..RoundCap /\ n # 0 /\ g[n - 1] \in X
      BY <2>2 DEF RoundCap
    <3>2. g[n] = NextRound(a, b, seed, n, g[n - 1])
      BY <1>7, <3>1 DEF Rounds
    <3>3. QED
      BY <1>1, <3>1, <3>2
  <2>3. RoundCap \in Nat
    BY DEF RoundCap
  <2>4. 0..RoundCap \subseteq P
    <3> HIDE DEF P
    <3>1. QED
      BY <2>1, <2>2, <2>3, Climb
  <2>5. QED
    BY <1>7, <2>4 DEF Rounds
<1>10. QED
  BY <1>7, <1>8, <1>9 DEF X

\* The challenger's corner is worth nothing: for any two builds, with the sides
\* swapped and the other low bit of the hash the same build wins in as many
\* rounds.
THEOREM MirroredFight ==
  ASSUME NEW a \in Combatant, NEW b \in Combatant, NEW seed \in {0, 1}
  PROVE  /\ ResolveOnchain(b, a, 1 - seed).aWins # ResolveOnchain(a, b, seed).aWins
         /\ ResolveOnchain(b, a, 1 - seed).rounds = ResolveOnchain(a, b, seed).rounds
<1>1. seed \in Int /\ 1 - seed \in Int
  OBVIOUS
<1>2. PICK f \in [0..RoundCap -> FightState(a, b)] :
        Rounds(f, a, b, seed) /\ Fought(a, b, seed) = f[RoundCap]
  BY <1>1, FoughtRounds
<1>3. PICK g \in [0..RoundCap -> FightState(b, a)] :
        Rounds(g, b, a, 1 - seed) /\ Fought(b, a, 1 - seed) = g[RoundCap]
  BY <1>1, FoughtRounds
<1> DEFINE Mirrored(n) == g[n] = [corners |-> Swap(f[n].corners), rounds |-> f[n].rounds]
           P == {n \in 0..RoundCap : Mirrored(n)}
<1>4. 0 \in P
  <2>1. f[0] = Start(a, b) /\ g[0] = Start(b, a)
    BY <1>2, <1>3 DEF Rounds, RoundCap
  <2>2. QED
    BY <2>1 DEF Start, Swap, RoundCap
<1>5. ASSUME NEW n \in 1..RoundCap, n - 1 \in P
      PROVE  n \in P
  <2>1. n \in 0..RoundCap /\ n - 1 \in 0..RoundCap /\ n # 0 /\ Mirrored(n - 1)
    BY <1>5 DEF RoundCap
  <2>2. f[n] = NextRound(a, b, seed, n, f[n - 1]) /\ g[n] = NextRound(b, a, 1 - seed, n, g[n - 1])
    BY <1>2, <1>3, <2>1 DEF Rounds
  <2> DEFINE last == f[n - 1]
             x == last.corners[1]
             y == last.corners[2]
  <2>3. last \in FightState(a, b)
    BY <1>2, <2>1
  <2>4. last.corners = <<x, y>> /\ last = [corners |-> last.corners, rounds |-> last.rounds]
    BY <2>3 DEF FightState, CornersOf
  <2>5. g[n - 1] = [corners |-> <<y, x>>, rounds |-> last.rounds]
    BY <2>1, <2>4 DEF Swap
  <2> HIDE DEF last, x, y, Mirrored, P
  <2>6. f[n] = NextRound(a, b, seed, n, last)
    BY <2>2 DEF last
  <2>7. Over(<<y, x>>) <=> Over(<<x, y>>)
    BY SwapFacts
  <2>8. PlayRound(b, a, 1 - seed, n, <<y, x>>) = Swap(PlayRound(a, b, seed, n, <<x, y>>))
    BY MirroredRound
  <2>9. Mirrored(n)
    <3>1. CASE Over(<<x, y>>)
      <4>1. f[n] = last /\ g[n] = g[n - 1]
        BY <2>2, <2>4, <2>5, <2>6, <2>7, <3>1 DEF NextRound
      <4>2. QED
        BY <2>4, <2>5, <4>1 DEF Mirrored, Swap
    <3>2. CASE ~Over(<<x, y>>)
      <4>1. f[n] = [corners |-> PlayRound(a, b, seed, n, <<x, y>>), rounds |-> n]
        BY <2>4, <2>6, <3>2 DEF NextRound
      <4>2. g[n] = [corners |-> PlayRound(b, a, 1 - seed, n, <<y, x>>), rounds |-> n]
        BY <2>2, <2>5, <2>7, <3>2 DEF NextRound
      <4>3. QED
        BY <2>8, <4>1, <4>2 DEF Mirrored
    <3>3. QED
      BY <3>1, <3>2
  <2>10. QED
    BY <2>1, <2>9 DEF P
<1>6. RoundCap \in P
  <2>1. RoundCap \in Nat
    BY DEF RoundCap
  <2> HIDE DEF P
  <2>2. 0..RoundCap \subseteq P
    BY <1>4, <1>5, <2>1, Climb
  <2>3. QED
    BY <2>1, <2>2
<1> DEFINE end == f[RoundCap]
<1>7. end \in FightState(a, b)
  BY <1>2 DEF RoundCap
<1>8. g[RoundCap] = [corners |-> Swap(end.corners), rounds |-> end.rounds]
  BY <1>6
<1>9. Fought(a, b, seed) = end
  BY <1>2
<1> HIDE DEF end, P, Mirrored
<1>10. PICK x \in CornerOf(a), y \in CornerOf(b) : end.corners = <<x, y>>
  BY <1>7 DEF FightState, CornersOf
<1>11. Fought(b, a, 1 - seed) = [corners |-> <<y, x>>, rounds |-> end.rounds]
  BY <1>3, <1>8, <1>10 DEF Swap
<1>12. AWins(b, a, 1 - seed, <<y, x>>) <=> ~AWins(a, b, seed, <<x, y>>)
  BY MirroredResult
<1>13. AWins(a, b, seed, <<x, y>>) \in BOOLEAN /\ AWins(b, a, 1 - seed, <<y, x>>) \in BOOLEAN
  <2>1. /\ (x.hp > y.hp) \in BOOLEAN /\ (y.hp > x.hp) \in BOOLEAN
        /\ (EffAttack(a) > EffAttack(b)) \in BOOLEAN /\ (EffAttack(b) > EffAttack(a)) \in BOOLEAN
    OBVIOUS
  <2>2. TieBreakEven(seed, 0) \in BOOLEAN /\ TieBreakEven(1 - seed, 0) \in BOOLEAN
    BY DEF TieBreakEven
  <2>3. QED
    BY <2>1, <2>2, Zenon DEF AWins
<1>14. /\ ResolveOnchain(a, b, seed) = [aWins |-> AWins(a, b, seed, <<x, y>>), rounds |-> end.rounds]
       /\ ResolveOnchain(b, a, 1 - seed) =
            [aWins |-> AWins(b, a, 1 - seed, <<y, x>>), rounds |-> end.rounds]
  BY <1>9, <1>10, <1>11 DEF ResolveOnchain
<1>15. QED
  BY <1>12, <1>13, <1>14

-----------------------------------------------------------------------------
(* Better builds *)

\* A build at least as good in every stat, with every skill of the other; the
\* glass cannon trades hit points for attack, so both have it or neither.
Dominates(i, c) ==
  /\ i.hp >= c.hp /\ i.attack >= c.attack /\ i.armor >= c.armor /\ i.speed >= c.speed
  /\ c.skills \subseteq i.skills
  /\ "glass_cannon" \in i.skills => "glass_cannon" \in c.skills

LEMMA BonusGrows ==
  ASSUME NEW i \in Combatant, NEW c \in Combatant, Dominates(i, c), NEW skill, NEW n \in Nat
  PROVE  Bonus(i, skill, n) >= Bonus(c, skill, n)
BY DEF Bonus, Dominates

LEMMA BetterEffects ==
  ASSUME NEW i \in Combatant, NEW c \in Combatant, Dominates(i, c)
  PROVE  /\ EffAttack(i) >= EffAttack(c)
         /\ EffMaxHp(i) >= EffMaxHp(c)
         /\ MaxMana(i) >= MaxMana(c)
         /\ EffInitiative(i) >= EffInitiative(c)
<1>1. /\ i.hp \in Int /\ i.attack \in Int /\ i.speed \in Int
      /\ c.hp \in Int /\ c.attack \in Int /\ c.speed \in Int
  BY DEF Combatant
<1>2. /\ i.hp >= c.hp /\ i.attack >= c.attack /\ i.speed >= c.speed
      /\ Bonus(i, "glass_cannon", 3) = Bonus(c, "glass_cannon", 3)
  BY DEF Dominates, Bonus
<1>3. /\ Bonus(c, "glass_cannon", 3) \in {0, 3}
      /\ Bonus(i, "jewelry_focus", 2) \in {0, 2} /\ Bonus(c, "jewelry_focus", 2) \in {0, 2}
      /\ Bonus(i, "quickstep", 2) \in {0, 2} /\ Bonus(c, "quickstep", 2) \in {0, 2}
      /\ Bonus(i, "jewelry_focus", 2) >= Bonus(c, "jewelry_focus", 2)
      /\ Bonus(i, "quickstep", 2) >= Bonus(c, "quickstep", 2)
  BY BonusType, BonusGrows
<1>4. QED
  BY <1>1, <1>2, <1>3 DEF EffAttack, EffMaxHp, MaxMana, EffInitiative, AtLeast

\* Whoever goes first with a build goes first with a better one.
LEMMA BetterGoesFirst ==
  ASSUME NEW i \in Combatant, NEW a \in Combatant, NEW b \in Combatant, Dominates(i, a),
         NEW seed, NEW round, AGoesFirst(a, b, seed, round)
  PROVE  AGoesFirst(i, b, seed, round)
<1>1. /\ EffInitiative(i) \in Int /\ EffInitiative(a) \in Int /\ EffInitiative(b) \in Int
      /\ EffInitiative(i) >= EffInitiative(a)
  BY EffectiveTypes, BetterEffects
<1>2. QED
  BY <1>1 DEF AGoesFirst

\* What a strike takes, on numbers: the base damage, the guard of the defender,
\* the mana and the opener of the attacker.
Blow(base, guard, mana, fire) ==
  LET fires == fire /\ mana >= 2
      tired == IF mana = 0 THEN 1 ELSE 0
  IN  AtLeast(1, (AtLeast(1, base - tired) + (IF fires THEN 1 ELSE 0)) - guard)

ManaLeft(mana, fire) == mana - (IF fire /\ mana >= 2 THEN 2 ELSE IF mana >= 1 THEN 1 ELSE 0)

BaseDamage(c, d) == AtLeast(1, EffAttack(c) - d.armor)

Guard(d) == Bonus(d, "heavy_guard", 1)

LEMMA BlowIs ==
  ASSUME NEW c \in Combatant, NEW d \in Combatant, NEW x \in CornerOf(c)
  PROVE  /\ Damage(c, d, x) = Blow(BaseDamage(c, d), Guard(d), x.mana, x.fire)
         /\ x.mana - ManaCost(x) = ManaLeft(x.mana, x.fire)
<1>1. MaxMana(c) \in Nat /\ x.mana \in Nat /\ x.fire \in BOOLEAN
  BY EffectiveTypes DEF CornerOf
<1>2. ManaCost(x) = IF x.fire /\ x.mana >= 2 THEN 2 ELSE IF x.mana >= 1 THEN 1 ELSE 0
  BY <1>1 DEF ManaCost, CanFire, AtMost
<1>3. ManaCost(x) = 0 <=> x.mana = 0
  BY <1>1, <1>2
<1>4. x.mana - ManaCost(x) = ManaLeft(x.mana, x.fire)
  BY <1>2 DEF ManaLeft
<1> DEFINE base == AtLeast(1, EffAttack(c) - d.armor)
           g == Bonus(d, "heavy_guard", 1)
           bonus == IF x.fire /\ x.mana >= 2 THEN 1 ELSE 0
           tired == IF x.mana = 0 THEN 1 ELSE 0
<1>5. Blow(base, g, x.mana, x.fire) = AtLeast(1, (AtLeast(1, base - tired) + bonus) - g)
  BY Zenon DEF Blow
<1>6. /\ (IF ManaCost(x) = 0 THEN 1 ELSE 0) = tired
      /\ (IF CanFire(x) THEN 1 ELSE 0) = bonus
  BY <1>3 DEF CanFire
<1>7. Damage(c, d, x) = AtLeast(1, (AtLeast(1, base - tired) + bonus) - g)
  <2>1. Damage(c, d, x) = AtLeast(1, (AtLeast(1, base - (IF ManaCost(x) = 0 THEN 1 ELSE 0))
                                       + (IF CanFire(x) THEN 1 ELSE 0)) - g)
    BY DEF Damage
  <2> HIDE DEF base, g, bonus, tired
  <2>2. QED
    BY <1>6, <2>1
<1>8. QED
  BY <1>4, <1>5, <1>7 DEF BaseDamage, Guard

\* The three kinds of blow: with the opener, tired, and plain.
LEMMA BlowCases ==
  ASSUME NEW base \in Nat \ {0}, NEW g \in {0, 1}, NEW m \in Nat, NEW f
  PROVE  \/ /\ f /\ m >= 2 /\ ManaLeft(m, f) = m - 2
            /\ Blow(base, g, m, f) = base + 1 - g
         \/ /\ m = 0 /\ ManaLeft(m, f) = 0
            /\ Blow(base, g, m, f) = AtLeast(1, base - 1 - g)
         \/ /\ ~f \/ m = 1
            /\ m >= 1 /\ ManaLeft(m, f) = m - 1
            /\ Blow(base, g, m, f) = AtLeast(1, base - g)
<1>1. CASE f /\ m >= 2
  BY <1>1 DEF Blow, ManaLeft, AtLeast
<1>2. CASE m = 0
  BY <1>2 DEF Blow, ManaLeft, AtLeast
<1>3. CASE m >= 1 /\ (~f \/ m = 1)
  <2>1. ~(f /\ m >= 2) /\ m # 0
    BY <1>3
  <2>2. QED
    BY <1>3, <2>1 DEF Blow, ManaLeft, AtLeast
<1>4. QED
  BY <1>1, <1>2, <1>3

\* A defender with more armor and guard is hit no harder.
LEMMA BlowShrinks ==
  ASSUME NEW base \in Nat \ {0}, NEW less \in Nat \ {0}, less <= base,
         NEW g \in {0, 1}, NEW more \in {0, 1}, g <= more, NEW mana \in Nat, NEW fire \in BOOLEAN
  PROVE  Blow(less, more, mana, fire) <= Blow(base, g, mana, fire)
BY DEF Blow, AtLeast

\* Mana that is short by one, after an opener that hit, or cannot matter.
ManaOK(m, n, ahead, base) == m >= n \/ (m = n - 1 /\ (ahead \/ base = 1))

\* Two attackers on defenders with the same guard: mana m and n, openers f and e,
\* hit points v and y of the defenders. The first stands no worse, but for mana
\* short by one that the defender has paid for, or that cannot matter.
FairerBlow(base, lower, g, m, n, f, e, v, y) ==
  /\ base \in Nat \ {0} /\ lower \in Nat \ {0} /\ lower <= base /\ g \in {0, 1}
  /\ {m, n, v, y} \subseteq Nat /\ (e => f) /\ v <= y
  /\ m >= n \/ (m = n - 1 /\ ~f /\ (v < y \/ base = 1))

\* The better attacker's blow, and what is left of the mana.
LEMMA BetterBlow ==
  ASSUME NEW base, NEW lower, NEW g, NEW m, NEW n, NEW f, NEW e, NEW v, NEW y,
         FairerBlow(base, lower, g, m, n, f, e, v, y)
  PROVE  LET du == Blow(base, g, m, f)
             dx == Blow(lower, g, n, e)
         IN  /\ du \in Nat \ {0} /\ dx \in Nat \ {0}
             /\ v - du <= y - dx
             /\ ManaLeft(m, f) \in Nat /\ ManaLeft(n, e) \in Nat
             /\ ManaOK(ManaLeft(m, f), ManaLeft(n, e), v - du < y - dx, base)
<1> DEFINE du == Blow(base, g, m, f)
           dx == Blow(lower, g, n, e)
           mu == ManaLeft(m, f)
           nx == ManaLeft(n, e)
<1>1. /\ base \in Nat \ {0} /\ lower \in Nat \ {0} /\ lower <= base /\ g \in {0, 1}
      /\ m \in Nat /\ n \in Nat /\ v \in Nat /\ y \in Nat /\ (e => f) /\ v <= y
      /\ m >= n \/ (m = n - 1 /\ ~f /\ (v < y \/ base = 1))
  BY DEF FairerBlow
<1>2. \/ f /\ m >= 2 /\ mu = m - 2 /\ du = base + 1 - g
      \/ m = 0 /\ mu = 0 /\ du = AtLeast(1, base - 1 - g)
      \/ (~f \/ m = 1) /\ m >= 1 /\ mu = m - 1 /\ du = AtLeast(1, base - g)
  BY <1>1, BlowCases
<1>3. \/ e /\ n >= 2 /\ nx = n - 2 /\ dx = lower + 1 - g
      \/ n = 0 /\ nx = 0 /\ dx = AtLeast(1, lower - 1 - g)
      \/ (~e \/ n = 1) /\ n >= 1 /\ nx = n - 1 /\ dx = AtLeast(1, lower - g)
  BY <1>1, BlowCases
<1> HIDE DEF du, dx, mu, nx
<1>4. du \in Nat \ {0} /\ dx \in Nat \ {0} /\ mu \in Nat /\ nx \in Nat
  BY <1>1, <1>2, <1>3 DEF AtLeast
<1>5. v - du <= y - dx /\ (mu >= nx \/ (mu = nx - 1 /\ (v - du < y - dx \/ base = 1)))
  <2>1. CASE f /\ m >= 2 /\ mu = m - 2 /\ du = base + 1 - g
    BY <1>1, <1>3, <2>1 DEF AtLeast
  <2>2. CASE m = 0 /\ mu = 0 /\ du = AtLeast(1, base - 1 - g)
    BY <1>1, <1>3, <2>2 DEF AtLeast
  <2>3. CASE (~f \/ m = 1) /\ m >= 1 /\ mu = m - 1 /\ du = AtLeast(1, base - g)
    BY <1>1, <1>3, <2>3 DEF AtLeast
  <2>4. QED
    BY <1>2, <2>1, <2>2, <2>3
<1>6. QED
  BY <1>4, <1>5 DEF ManaOK, du, dx, mu, nx

\* Hit points after the strikes of a round: x strikes dx and reflects ox, y
\* strikes dy and reflects oy; first says whether x strikes first.
HpAfter(first, x, y, dx, dy, ox, oy) ==
  LET half == IF first THEN <<AtLeast(0, x - oy), AtLeast(0, y - dx)>>
                       ELSE <<AtLeast(0, x - dy), AtLeast(0, y - ox)>>
  IN  IF half[1] = 0 \/ half[2] = 0 THEN half
      ELSE IF first THEN <<AtLeast(0, half[1] - dy), AtLeast(0, half[2] - ox)>>
                    ELSE <<AtLeast(0, half[1] - oy), AtLeast(0, half[2] - dx)>>

\* A fight with corners u, v is decided no worse for the first of them than one
\* with corners x, y, whatever comes after.
NoWorse(u, v, x, y) ==
  \/ v = 0 /\ u > 0
  \/ x = 0 /\ y > 0
  \/ u = 0 /\ v = 0 /\ x = 0 /\ y = 0

\* Hit points, strikes and reflections of a round of each fight, x against y and
\* u against v: u and v stand no worse, and are struck no worse.
FairerRound(x, y, u, v, dx, dy, du, dv, ox, ou, ob) ==
  /\ {x, y, u, v, dx, dy, du, dv} \subseteq Nat \ {0}
  /\ {ox, ou, ob} \subseteq {0, 1}
  /\ u >= x /\ v <= y /\ v - du <= y - dx /\ dv <= dy /\ ox <= ou

LEMMA HpRound ==
  ASSUME NEW x, NEW y, NEW u, NEW v, NEW dx, NEW dy, NEW du, NEW dv, NEW ox, NEW ou, NEW ob,
         FairerRound(x, y, u, v, dx, dy, du, dv, ox, ou, ob),
         NEW before, NEW first, before => first,
         NEW x2, NEW y2, NEW u2, NEW v2,
         <<x2, y2>> = HpAfter(before, x, y, dx, dy, ox, ob),
         <<u2, v2>> = HpAfter(first, u, v, du, dv, ou, ob)
  PROVE  \/ NoWorse(u2, v2, x2, y2)
         \/ /\ x2 > 0 /\ y2 > 0 /\ u2 > 0 /\ v2 > 0
            /\ x2 = x - dy - ob /\ y2 = y - dx - ox /\ u2 = u - dv - ob /\ v2 = v - du - ou
<1>1. /\ x \in Nat \ {0} /\ y \in Nat \ {0} /\ u \in Nat \ {0} /\ v \in Nat \ {0}
      /\ dx \in Nat \ {0} /\ dy \in Nat \ {0} /\ du \in Nat \ {0} /\ dv \in Nat \ {0}
      /\ ox \in {0, 1} /\ ou \in {0, 1} /\ ob \in {0, 1}
      /\ u >= x /\ v <= y /\ v - du <= y - dx /\ dv <= dy /\ ox <= ou
  BY DEF FairerRound
<1>2. /\ x2 = IF before
               THEN IF x - ob <= 0 \/ y - dx <= 0 THEN AtLeast(0, x - ob) ELSE AtLeast(0, x - ob - dy)
               ELSE IF x - dy <= 0 \/ y - ox <= 0 THEN AtLeast(0, x - dy) ELSE AtLeast(0, x - dy - ob)
      /\ y2 = IF before
               THEN IF x - ob <= 0 \/ y - dx <= 0 THEN AtLeast(0, y - dx) ELSE AtLeast(0, y - dx - ox)
               ELSE IF x - dy <= 0 \/ y - ox <= 0 THEN AtLeast(0, y - ox) ELSE AtLeast(0, y - ox - dx)
  BY <1>1 DEF HpAfter, AtLeast
<1>3. /\ u2 = IF first
               THEN IF u - ob <= 0 \/ v - du <= 0 THEN AtLeast(0, u - ob) ELSE AtLeast(0, u - ob - dv)
               ELSE IF u - dv <= 0 \/ v - ou <= 0 THEN AtLeast(0, u - dv) ELSE AtLeast(0, u - dv - ob)
      /\ v2 = IF first
               THEN IF u - ob <= 0 \/ v - du <= 0 THEN AtLeast(0, v - du) ELSE AtLeast(0, v - du - ou)
               ELSE IF u - dv <= 0 \/ v - ou <= 0 THEN AtLeast(0, v - ou) ELSE AtLeast(0, v - ou - du)
  BY <1>1 DEF HpAfter, AtLeast
<1>4. CASE before /\ first
  BY <1>1, <1>2, <1>3, <1>4 DEF AtLeast, NoWorse
<1>5. CASE ~before /\ first
  BY <1>1, <1>2, <1>3, <1>5 DEF AtLeast, NoWorse
<1>6. CASE ~before /\ ~first
  BY <1>1, <1>2, <1>3, <1>6 DEF AtLeast, NoWorse
<1>7. QED
  BY <1>4, <1>5, <1>6

\* The corners after the strikes of a round, before both recover.
Struck(a, b, first, corners) ==
  LET half == IF first THEN AStrikes(a, b, corners) ELSE BStrikes(a, b, corners)
  IN  IF Over(half) THEN half
      ELSE IF first THEN BStrikes(a, b, half) ELSE AStrikes(a, b, half)

Oath(d) == Bonus(d, "stone_oath", 1)

\* The hit points after the strikes are those of HpAfter, and while both stand
\* each has struck once.
LEMMA StruckIs ==
  ASSUME NEW a \in Combatant, NEW b \in Combatant, NEW first,
         NEW x \in CornerOf(a), NEW y \in CornerOf(b)
  PROVE  \E s \in CornerOf(a), t \in CornerOf(b) :
           /\ Struck(a, b, first, <<x, y>>) = <<s, t>>
           /\ <<s.hp, t.hp>> = HpAfter(first, x.hp, y.hp, Damage(a, b, x), Damage(b, a, y),
                                       Oath(a), Oath(b))
           /\ s.hp # 0 /\ t.hp # 0 =>
                /\ s.mana = x.mana - ManaCost(x) /\ ~s.fire
                /\ t.mana = y.mana - ManaCost(y) /\ ~t.fire
<1> DEFINE dx == Damage(a, b, x)
           dy == Damage(b, a, y)
           Hit(z, n) == [z EXCEPT !.hp = AtLeast(0, @ - n)]
           Spent(z, n) == [hp |-> AtLeast(0, z.hp - n), mana |-> z.mana - ManaCost(z), fire |-> FALSE]
<1>1. /\ AStrikes(a, b, <<x, y>>) = <<Spent(x, Oath(b)), Hit(y, dx)>>
      /\ BStrikes(a, b, <<x, y>>) = <<Hit(x, dy), Spent(y, Oath(a))>>
  BY DEF AStrikes, BStrikes, Strike, Oath
<1>2. /\ \A n : Hit(x, n).mana = x.mana /\ Hit(x, n).fire = x.fire
                /\ Hit(x, n).hp = AtLeast(0, x.hp - n)
      /\ \A n : Hit(y, n).mana = y.mana /\ Hit(y, n).fire = y.fire
                /\ Hit(y, n).hp = AtLeast(0, y.hp - n)
  BY DEF CornerOf
<1>3. \A n : /\ ManaCost(Hit(x, n)) = ManaCost(x) /\ Damage(a, b, Hit(x, n)) = dx
             /\ ManaCost(Hit(y, n)) = ManaCost(y) /\ Damage(b, a, Hit(y, n)) = dy
  <2> HIDE DEF Hit
  <2>1. QED
    BY <1>2 DEF ManaCost, CanFire, Damage
<1>4. Struck(a, b, first, <<x, y>>) \in CornersOf(a, b)
  <2> DEFINE half == IF first THEN AStrikes(a, b, <<x, y>>) ELSE BStrikes(a, b, <<x, y>>)
  <2>1. half \in CornersOf(a, b)
    BY StrikesInRange DEF CornersOf
  <2> HIDE DEF half
  <2>2. AStrikes(a, b, half) \in CornersOf(a, b) /\ BStrikes(a, b, half) \in CornersOf(a, b)
    BY <2>1, StrikesInRange
  <2>3. Struck(a, b, first, <<x, y>>) =
          IF Over(half) THEN half ELSE IF first THEN BStrikes(a, b, half) ELSE AStrikes(a, b, half)
    BY DEF Struck, half
  <2>4. QED
    BY <2>1, <2>2, <2>3
<1>5. CASE first
  <2> DEFINE p == Spent(x, Oath(b))
             q == Hit(y, dx)
  <2>1. p.hp = AtLeast(0, x.hp - Oath(b)) /\ p.mana = x.mana - ManaCost(x) /\ p.fire = FALSE
    OBVIOUS
  <2>2. q.hp = AtLeast(0, y.hp - dx) /\ ManaCost(q) = ManaCost(y) /\ Damage(b, a, q) = dy
        /\ q.mana = y.mana
    BY <1>2, <1>3
  <2>3. Struck(a, b, first, <<x, y>>) = IF p.hp = 0 \/ q.hp = 0 THEN <<p, q>> ELSE BStrikes(a, b, <<p, q>>)
    <3>1. AStrikes(a, b, <<x, y>>) = <<p, q>>
      BY <1>1
    <3> HIDE DEF p, q
    <3>2. Over(<<p, q>>) <=> p.hp = 0 \/ q.hp = 0
      BY DEF Over
    <3>3. QED
      BY <1>5, <3>1, <3>2 DEF Struck
  <2> HIDE DEF p, q, dx, dy, Hit, Spent
  <2>4. BStrikes(a, b, <<p, q>>) =
          << [p EXCEPT !.hp = AtLeast(0, @ - dy)],
             [hp |-> AtLeast(0, q.hp - Oath(a)), mana |-> q.mana - ManaCost(q), fire |-> FALSE] >>
    BY <2>2 DEF BStrikes, Strike, Oath
  <2>5. PICK s \in CornerOf(a), t \in CornerOf(b) : Struck(a, b, first, <<x, y>>) = <<s, t>>
    BY <1>4 DEF CornersOf
  <2>6. HpAfter(first, x.hp, y.hp, dx, dy, Oath(a), Oath(b)) =
          IF p.hp = 0 \/ q.hp = 0 THEN <<p.hp, q.hp>>
          ELSE <<AtLeast(0, p.hp - dy), AtLeast(0, q.hp - Oath(a))>>
    BY <1>5, <2>1, <2>2 DEF HpAfter
  <2>7. CASE p.hp = 0 \/ q.hp = 0
    BY <2>3, <2>5, <2>6, <2>7 DEF dx, dy
  <2>8. CASE ~(p.hp = 0 \/ q.hp = 0)
    <3>1. p = [hp |-> p.hp, mana |-> p.mana, fire |-> p.fire]
      BY DEF p, Spent
    <3>2. /\ s.hp = AtLeast(0, p.hp - dy) /\ s.mana = p.mana /\ s.fire = p.fire
          /\ t = [hp |-> AtLeast(0, q.hp - Oath(a)), mana |-> q.mana - ManaCost(q), fire |-> FALSE]
      BY <2>3, <2>4, <2>5, <2>8, <3>1
    <3>3. QED
      BY <2>1, <2>2, <2>5, <2>6, <2>8, <3>2 DEF dx, dy
  <2>9. QED
    BY <2>7, <2>8
<1>6. CASE ~first
  <2> DEFINE p == Hit(x, dy)
             q == Spent(y, Oath(a))
  <2>1. q.hp = AtLeast(0, y.hp - Oath(a)) /\ q.mana = y.mana - ManaCost(y) /\ q.fire = FALSE
    OBVIOUS
  <2>2. p.hp = AtLeast(0, x.hp - dy) /\ ManaCost(p) = ManaCost(x) /\ Damage(a, b, p) = dx
        /\ p.mana = x.mana
    BY <1>2, <1>3
  <2>3. Struck(a, b, first, <<x, y>>) = IF p.hp = 0 \/ q.hp = 0 THEN <<p, q>> ELSE AStrikes(a, b, <<p, q>>)
    <3>1. BStrikes(a, b, <<x, y>>) = <<p, q>>
      BY <1>1
    <3> HIDE DEF p, q
    <3>2. Over(<<p, q>>) <=> p.hp = 0 \/ q.hp = 0
      BY DEF Over
    <3>3. QED
      BY <1>6, <3>1, <3>2 DEF Struck
  <2> HIDE DEF p, q, dx, dy, Hit, Spent
  <2>4. AStrikes(a, b, <<p, q>>) =
          << [hp |-> AtLeast(0, p.hp - Oath(b)), mana |-> p.mana - ManaCost(p), fire |-> FALSE],
             [q EXCEPT !.hp = AtLeast(0, @ - dx)] >>
    BY <2>2 DEF AStrikes, Strike, Oath
  <2>5. PICK s \in CornerOf(a), t \in CornerOf(b) : Struck(a, b, first, <<x, y>>) = <<s, t>>
    BY <1>4 DEF CornersOf
  <2>6. HpAfter(first, x.hp, y.hp, dx, dy, Oath(a), Oath(b)) =
          IF p.hp = 0 \/ q.hp = 0 THEN <<p.hp, q.hp>>
          ELSE <<AtLeast(0, p.hp - Oath(b)), AtLeast(0, q.hp - dx)>>
    BY <1>6, <2>1, <2>2 DEF HpAfter
  <2>7. CASE p.hp = 0 \/ q.hp = 0
    BY <2>3, <2>5, <2>6, <2>7 DEF dx, dy
  <2>8. CASE ~(p.hp = 0 \/ q.hp = 0)
    <3>1. q = [hp |-> q.hp, mana |-> q.mana, fire |-> q.fire]
      BY DEF q, Spent
    <3>2. /\ t.hp = AtLeast(0, q.hp - dx) /\ t.mana = q.mana /\ t.fire = q.fire
          /\ s = [hp |-> AtLeast(0, p.hp - Oath(b)), mana |-> p.mana - ManaCost(p), fire |-> FALSE]
      BY <2>3, <2>4, <2>5, <2>8, <3>1
    <3>3. QED
      BY <2>1, <2>2, <2>5, <2>6, <2>8, <3>2 DEF dx, dy
  <2>9. QED
    BY <2>7, <2>8
<1>7. QED
  BY <1>5, <1>6

LEMMA RoundIs ==
  ASSUME NEW a, NEW b, NEW seed, NEW round, NEW corners, NEW s, NEW t,
         Struck(a, b, AGoesFirst(a, b, seed, round), corners) = <<s, t>>
  PROVE  PlayRound(a, b, seed, round, corners) =
           IF s.hp = 0 \/ t.hp = 0 THEN <<s, t>> ELSE <<Recover(a, s), Recover(b, t)>>
<1>1. PlayRound(a, b, seed, round, corners) =
        LET struck == Struck(a, b, AGoesFirst(a, b, seed, round), corners)
        IN  IF Over(struck) THEN struck ELSE <<Recover(a, struck[1]), Recover(b, struck[2])>>
  BY DEF PlayRound, Struck
<1>2. QED
  BY <1>1 DEF Over

\* Between rounds, both fights going on: i at u against b at v stands no worse
\* than a at x against b at y. The mana of i may be short by one for an opener a
\* lacks, but then b is worse off by a point, or the base damage of i is at its
\* minimum, which tiredness does not lower.
Leads(i, a, b, u, v, x, y) ==
  /\ x.hp > 0 /\ v.hp > 0 /\ u.hp >= x.hp /\ v.hp <= y.hp
  /\ v.mana = y.mana /\ v.fire = y.fire
  /\ x.fire => u.fire
  /\ u.mana >= x.mana \/ (u.mana = x.mana - 1 /\ ~u.fire /\ (v.hp < y.hp \/ BaseDamage(i, b) = 1))

LEMMA OrderIsBoolean ==
  ASSUME NEW a \in Combatant, NEW b \in Combatant, NEW seed, NEW round
  PROVE  AGoesFirst(a, b, seed, round) \in BOOLEAN
<1>1. (EffInitiative(a) > EffInitiative(b)) \in BOOLEAN
  BY EffectiveTypes
<1>2. TieBreakEven(seed, RoundParity(round)) \in BOOLEAN
  BY DEF TieBreakEven
<1>3. QED
  BY <1>1, <1>2, Zenon DEF AGoesFirst

LEMMA BaseDamages ==
  ASSUME NEW i \in Combatant, NEW a \in Combatant, NEW b \in Combatant, Dominates(i, a)
  PROVE  /\ BaseDamage(i, b) \in Nat \ {0} /\ BaseDamage(a, b) \in Nat \ {0}
         /\ BaseDamage(b, i) \in Nat \ {0} /\ BaseDamage(b, a) \in Nat \ {0}
         /\ BaseDamage(a, b) <= BaseDamage(i, b)
         /\ BaseDamage(b, i) <= BaseDamage(b, a)
<1>1. /\ EffAttack(i) \in Int /\ EffAttack(a) \in Int /\ EffAttack(b) \in Int
      /\ EffAttack(i) >= EffAttack(a)
      /\ i.armor \in Int /\ a.armor \in Int /\ b.armor \in Int /\ i.armor >= a.armor
  BY EffectiveTypes, BetterEffects DEF Combatant, Dominates
<1>2. QED
  BY <1>1 DEF BaseDamage, AtLeast

\* The recovery of the better side, and of the common opponent, who has been hit.
LEMMA RecoverFacts ==
  ASSUME NEW c \in Combatant, NEW s \in CornerOf(c)
  PROVE  LET r == Recover(c, s)
             moss == "moss_skin" \in c.skills
             jewelry == "jewelry_focus" \in c.skills
         IN  /\ r \in CornerOf(c) /\ r.fire = s.fire
             /\ r.hp = IF moss THEN AtMost(EffMaxHp(c), s.hp + 1) ELSE s.hp
             /\ r.mana = IF jewelry THEN AtMost(MaxMana(c), s.mana + 1) ELSE s.mana
<1>1. Recover(c, s) \in CornerOf(c)
  BY RecoverInRange
<1> DEFINE h == IF "moss_skin" \in c.skills THEN AtMost(EffMaxHp(c), s.hp + 1) ELSE s.hp
           m == IF "jewelry_focus" \in c.skills THEN AtMost(MaxMana(c), s.mana + 1) ELSE s.mana
<1>2. Recover(c, s) = [s EXCEPT !.hp = h, !.mana = m]
  BY DEF Recover
<1> HIDE DEF h, m
<1>3. Recover(c, s).hp = h /\ Recover(c, s).mana = m /\ Recover(c, s).fire = s.fire
  BY <1>2 DEF CornerOf
<1>4. QED
  BY <1>1, <1>3 DEF h, m

LEMMA LeadRecovers ==
  ASSUME NEW i \in Combatant, NEW a \in Combatant, NEW b \in Combatant, Dominates(i, a),
         NEW u \in CornerOf(i), NEW v \in CornerOf(b), NEW x \in CornerOf(a), NEW y \in CornerOf(b),
         x.hp > 0, v.hp > 0, u.hp >= x.hp, v.hp <= y.hp, y.hp < EffMaxHp(b),
         v.mana = y.mana, ~u.fire, ~v.fire, ~x.fire, ~y.fire,
         ManaOK(u.mana, x.mana, v.hp < y.hp, BaseDamage(i, b))
  PROVE  Leads(i, a, b, Recover(i, u), Recover(b, v), Recover(a, x), Recover(b, y))
<1>1. /\ u.hp \in 0..EffMaxHp(i) /\ u.mana \in 0..MaxMana(i)
      /\ x.hp \in 0..EffMaxHp(a) /\ x.mana \in 0..MaxMana(a)
      /\ v.hp \in 0..EffMaxHp(b) /\ v.mana \in 0..MaxMana(b)
      /\ y.hp \in 0..EffMaxHp(b) /\ y.mana \in 0..MaxMana(b)
  BY DEF CornerOf
<1>2. /\ EffMaxHp(i) \in Nat /\ EffMaxHp(a) \in Nat /\ EffMaxHp(b) \in Nat
      /\ MaxMana(i) \in Nat /\ MaxMana(a) \in Nat /\ MaxMana(b) \in Nat
      /\ EffMaxHp(a) <= EffMaxHp(i) /\ MaxMana(a) <= MaxMana(i)
  BY EffectiveTypes, BetterEffects
<1>3. PICK ru \in CornerOf(i) :
        /\ ru = Recover(i, u) /\ ru.fire = u.fire
        /\ ru.hp = IF "moss_skin" \in i.skills THEN AtMost(EffMaxHp(i), u.hp + 1) ELSE u.hp
        /\ ru.mana = IF "jewelry_focus" \in i.skills THEN AtMost(MaxMana(i), u.mana + 1) ELSE u.mana
  BY RecoverFacts
<1>4. PICK rx \in CornerOf(a) :
        /\ rx = Recover(a, x) /\ rx.fire = x.fire
        /\ rx.hp = IF "moss_skin" \in a.skills THEN AtMost(EffMaxHp(a), x.hp + 1) ELSE x.hp
        /\ rx.mana = IF "jewelry_focus" \in a.skills THEN AtMost(MaxMana(a), x.mana + 1) ELSE x.mana
  BY RecoverFacts
<1>5. PICK rv \in CornerOf(b) :
        /\ rv = Recover(b, v) /\ rv.fire = v.fire
        /\ rv.hp = IF "moss_skin" \in b.skills THEN AtMost(EffMaxHp(b), v.hp + 1) ELSE v.hp
        /\ rv.mana = IF "jewelry_focus" \in b.skills THEN AtMost(MaxMana(b), v.mana + 1) ELSE v.mana
  BY RecoverFacts
<1>6. PICK ry \in CornerOf(b) :
        /\ ry = Recover(b, y) /\ ry.fire = y.fire
        /\ ry.hp = IF "moss_skin" \in b.skills THEN AtMost(EffMaxHp(b), y.hp + 1) ELSE y.hp
        /\ ry.mana = IF "jewelry_focus" \in b.skills THEN AtMost(MaxMana(b), y.mana + 1) ELSE y.mana
  BY RecoverFacts
<1>7. /\ "moss_skin" \in a.skills => "moss_skin" \in i.skills
      /\ "jewelry_focus" \in a.skills => "jewelry_focus" \in i.skills
  BY DEF Dominates
<1>8. rx.hp > 0 /\ ru.hp >= rx.hp
  BY <1>1, <1>2, <1>3, <1>4, <1>7 DEF AtMost
<1>9. rv.hp > 0 /\ rv.hp <= ry.hp /\ (v.hp < y.hp => rv.hp < ry.hp)
  BY <1>1, <1>2, <1>5, <1>6 DEF AtMost
<1>10. rv.mana = ry.mana
  BY <1>5, <1>6
<1>11. u.mana >= x.mana => ru.mana >= rx.mana
  BY <1>1, <1>2, <1>3, <1>4, <1>7 DEF AtMost
<1>12. u.mana = x.mana - 1 => ru.mana >= rx.mana \/ ru.mana = rx.mana - 1
  BY <1>1, <1>2, <1>3, <1>4, <1>7 DEF AtMost
<1>13. ru.mana >= rx.mana
       \/ (ru.mana = rx.mana - 1 /\ ~ru.fire /\ (rv.hp < ry.hp \/ BaseDamage(i, b) = 1))
  BY <1>3, <1>9, <1>11, <1>12 DEF ManaOK
<1>14. Leads(i, a, b, ru, rv, rx, ry)
  <2>1. v.fire = FALSE /\ y.fire = FALSE
    BY DEF CornerOf
  <2>2. rv.fire = ry.fire /\ ~rx.fire
    BY <1>4, <1>5, <1>6, <2>1
  <2>3. ru.hp >= rx.hp /\ rx.hp > 0 /\ rv.hp > 0 /\ rv.hp <= ry.hp
    BY <1>8, <1>9
  <2>4. QED
    BY <1>10, <1>13, <2>2, <2>3 DEF Leads
<1>15. QED
  BY <1>3, <1>4, <1>5, <1>6, <1>14

\* A round with a better build: it still leads, or the fights are decided, its own
\* no worse.
LEMMA RoundKeepsLead ==
  ASSUME NEW i \in Combatant, NEW a \in Combatant, NEW b \in Combatant, Dominates(i, a),
         NEW seed, NEW round,
         NEW u \in CornerOf(i), NEW v \in CornerOf(b), NEW x \in CornerOf(a), NEW y \in CornerOf(b),
         Leads(i, a, b, u, v, x, y)
  PROVE  \E p \in CornerOf(i), q \in CornerOf(b), s \in CornerOf(a), t \in CornerOf(b) :
           /\ PlayRound(i, b, seed, round, <<u, v>>) = <<p, q>>
           /\ PlayRound(a, b, seed, round, <<x, y>>) = <<s, t>>
           /\ Leads(i, a, b, p, q, s, t) \/ NoWorse(p.hp, q.hp, s.hp, t.hp)
<1> DEFINE du == Damage(i, b, u)
           dv == Damage(b, i, v)
           dx == Damage(a, b, x)
           dy == Damage(b, a, y)
           first == AGoesFirst(i, b, seed, round)
           before == AGoesFirst(a, b, seed, round)
<1>1. /\ x.hp \in Nat \ {0} /\ y.hp \in Nat \ {0} /\ u.hp \in Nat \ {0} /\ v.hp \in Nat \ {0}
      /\ u.mana \in Nat /\ v.mana \in Nat /\ x.mana \in Nat /\ y.mana \in Nat
      /\ u.fire \in BOOLEAN /\ v.fire \in BOOLEAN /\ x.fire \in BOOLEAN /\ y.fire \in BOOLEAN
      /\ y.hp <= EffMaxHp(b) /\ EffMaxHp(b) \in Nat
  <2>1. /\ EffMaxHp(a) \in Nat /\ EffMaxHp(b) \in Nat /\ EffMaxHp(i) \in Nat
        /\ MaxMana(a) \in Nat /\ MaxMana(b) \in Nat /\ MaxMana(i) \in Nat
    BY EffectiveTypes
  <2>2. x.hp > 0 /\ v.hp > 0 /\ u.hp >= x.hp /\ v.hp <= y.hp
    BY DEF Leads
  <2>3. /\ x.hp \in 0..EffMaxHp(a) /\ y.hp \in 0..EffMaxHp(b)
        /\ u.hp \in 0..EffMaxHp(i) /\ v.hp \in 0..EffMaxHp(b)
        /\ u.mana \in 0..MaxMana(i) /\ v.mana \in 0..MaxMana(b)
        /\ x.mana \in 0..MaxMana(a) /\ y.mana \in 0..MaxMana(b)
        /\ u.fire \in BOOLEAN /\ v.fire \in BOOLEAN /\ x.fire \in BOOLEAN /\ y.fire \in BOOLEAN
    BY DEF CornerOf
  <2>4. QED
    BY <2>1, <2>2, <2>3
<1>2. /\ BaseDamage(i, b) \in Nat \ {0} /\ BaseDamage(a, b) \in Nat \ {0}
      /\ BaseDamage(b, i) \in Nat \ {0} /\ BaseDamage(b, a) \in Nat \ {0}
      /\ BaseDamage(a, b) <= BaseDamage(i, b) /\ BaseDamage(b, i) <= BaseDamage(b, a)
  BY BaseDamages
<1>3. /\ Guard(a) \in {0, 1} /\ Guard(b) \in {0, 1} /\ Guard(i) \in {0, 1} /\ Guard(a) <= Guard(i)
      /\ Oath(a) \in {0, 1} /\ Oath(b) \in {0, 1} /\ Oath(i) \in {0, 1} /\ Oath(a) <= Oath(i)
  BY BonusType, BonusGrows DEF Guard, Oath
<1>4. /\ du = Blow(BaseDamage(i, b), Guard(b), u.mana, u.fire)
      /\ dx = Blow(BaseDamage(a, b), Guard(b), x.mana, x.fire)
      /\ dv = Blow(BaseDamage(b, i), Guard(i), y.mana, y.fire)
      /\ dy = Blow(BaseDamage(b, a), Guard(a), y.mana, y.fire)
      /\ u.mana - ManaCost(u) = ManaLeft(u.mana, u.fire)
      /\ x.mana - ManaCost(x) = ManaLeft(x.mana, x.fire)
      /\ v.mana - ManaCost(v) = ManaLeft(y.mana, y.fire)
      /\ y.mana - ManaCost(y) = ManaLeft(y.mana, y.fire)
  <2>1. v.mana = y.mana /\ v.fire = y.fire
    BY DEF Leads
  <2>2. QED
    BY <2>1, BlowIs
<1>5. dv <= dy
  BY <1>1, <1>2, <1>3, <1>4, BlowShrinks
<1>6. dv \in Nat \ {0} /\ dy \in Nat \ {0}
  BY DamageType
<1>7. /\ du \in Nat \ {0} /\ dx \in Nat \ {0} /\ v.hp - du <= y.hp - dx
      /\ ManaLeft(u.mana, u.fire) \in Nat /\ ManaLeft(x.mana, x.fire) \in Nat
      /\ ManaOK(ManaLeft(u.mana, u.fire), ManaLeft(x.mana, x.fire), v.hp - du < y.hp - dx,
                BaseDamage(i, b))
  <2> DEFINE strong == BaseDamage(i, b)
             weak == BaseDamage(a, b)
             g == Guard(b)
  <2>1. /\ strong \in Nat \ {0} /\ weak \in Nat \ {0} /\ weak <= strong /\ g \in {0, 1}
    BY <1>2, <1>3
  <2>2. /\ u.mana \in Nat /\ x.mana \in Nat /\ u.fire \in BOOLEAN /\ x.fire \in BOOLEAN
        /\ v.hp \in Nat /\ y.hp \in Nat
    BY <1>1
  <2>3. /\ x.fire => u.fire
        /\ v.hp <= y.hp
        /\ u.mana >= x.mana \/ (u.mana = x.mana - 1 /\ ~u.fire /\ (v.hp < y.hp \/ strong = 1))
    BY DEF Leads
  <2>4. du = Blow(strong, g, u.mana, u.fire) /\ dx = Blow(weak, g, x.mana, x.fire)
    BY <1>4
  <2> HIDE DEF strong, weak, g, du, dx
  <2>5. /\ Blow(strong, g, u.mana, u.fire) \in Nat \ {0} /\ Blow(weak, g, x.mana, x.fire) \in Nat \ {0}
        /\ v.hp - Blow(strong, g, u.mana, u.fire) <= y.hp - Blow(weak, g, x.mana, x.fire)
        /\ ManaLeft(u.mana, u.fire) \in Nat /\ ManaLeft(x.mana, x.fire) \in Nat
        /\ ManaOK(ManaLeft(u.mana, u.fire), ManaLeft(x.mana, x.fire),
                  v.hp - Blow(strong, g, u.mana, u.fire) < y.hp - Blow(weak, g, x.mana, x.fire), strong)
    <3>1. FairerBlow(strong, weak, g, u.mana, x.mana, u.fire, x.fire, v.hp, y.hp)
      BY <2>1, <2>2, <2>3 DEF FairerBlow
    <3>2. QED
      BY <3>1, BetterBlow
  <2>6. QED
    BY <2>4, <2>5 DEF strong
<1>8. first \in BOOLEAN /\ before \in BOOLEAN /\ (before => first)
  BY OrderIsBoolean, BetterGoesFirst
<1> HIDE DEF du, dv, dx, dy, first, before
<1>9. PICK s \in CornerOf(a), t \in CornerOf(b) :
        /\ Struck(a, b, before, <<x, y>>) = <<s, t>>
        /\ <<s.hp, t.hp>> = HpAfter(before, x.hp, y.hp, dx, dy, Oath(a), Oath(b))
        /\ s.hp # 0 /\ t.hp # 0 =>
             /\ s.mana = x.mana - ManaCost(x) /\ ~s.fire
             /\ t.mana = y.mana - ManaCost(y) /\ ~t.fire
  <2>1. \E s \in CornerOf(a), t \in CornerOf(b) :
           /\ Struck(a, b, before, <<x, y>>) = <<s, t>>
           /\ <<s.hp, t.hp>> = HpAfter(before, x.hp, y.hp, Damage(a, b, x), Damage(b, a, y),
                                       Oath(a), Oath(b))
           /\ s.hp # 0 /\ t.hp # 0 =>
                /\ s.mana = x.mana - ManaCost(x) /\ ~s.fire
                /\ t.mana = y.mana - ManaCost(y) /\ ~t.fire
    BY <1>8, StruckIs
  <2>2. QED
    BY <2>1, Zenon DEF dx, dy
<1>10. PICK p \in CornerOf(i), q \in CornerOf(b) :
        /\ Struck(i, b, first, <<u, v>>) = <<p, q>>
        /\ <<p.hp, q.hp>> = HpAfter(first, u.hp, v.hp, du, dv, Oath(i), Oath(b))
        /\ p.hp # 0 /\ q.hp # 0 =>
             /\ p.mana = u.mana - ManaCost(u) /\ ~p.fire
             /\ q.mana = v.mana - ManaCost(v) /\ ~q.fire
  <2>1. \E p \in CornerOf(i), q \in CornerOf(b) :
           /\ Struck(i, b, first, <<u, v>>) = <<p, q>>
           /\ <<p.hp, q.hp>> = HpAfter(first, u.hp, v.hp, Damage(i, b, u), Damage(b, i, v),
                                       Oath(i), Oath(b))
           /\ p.hp # 0 /\ q.hp # 0 =>
                /\ p.mana = u.mana - ManaCost(u) /\ ~p.fire
                /\ q.mana = v.mana - ManaCost(v) /\ ~q.fire
    BY <1>8, StruckIs
  <2>2. QED
    BY <2>1, Zenon DEF du, dv
<1>11. /\ PlayRound(a, b, seed, round, <<x, y>>) =
            IF s.hp = 0 \/ t.hp = 0 THEN <<s, t>> ELSE <<Recover(a, s), Recover(b, t)>>
       /\ PlayRound(i, b, seed, round, <<u, v>>) =
            IF p.hp = 0 \/ q.hp = 0 THEN <<p, q>> ELSE <<Recover(i, p), Recover(b, q)>>
  BY <1>9, <1>10, RoundIs DEF first, before
<1>12. /\ Recover(a, s) \in CornerOf(a) /\ Recover(b, t) \in CornerOf(b)
       /\ Recover(i, p) \in CornerOf(i) /\ Recover(b, q) \in CornerOf(b)
  BY RecoverInRange
<1>13. u.hp >= x.hp /\ v.hp <= y.hp
  BY DEF Leads
<1>14. \/ NoWorse(p.hp, q.hp, s.hp, t.hp)
       \/ /\ s.hp > 0 /\ t.hp > 0 /\ p.hp > 0 /\ q.hp > 0
          /\ s.hp = x.hp - dy - Oath(b) /\ t.hp = y.hp - dx - Oath(a)
          /\ p.hp = u.hp - dv - Oath(b) /\ q.hp = v.hp - du - Oath(i)
  <2>1. FairerRound(x.hp, y.hp, u.hp, v.hp, dx, dy, du, dv, Oath(a), Oath(i), Oath(b))
    BY <1>1, <1>3, <1>5, <1>6, <1>7, <1>13 DEF FairerRound
  <2>2. before => first
    BY <1>8
  <2>3. /\ <<s.hp, t.hp>> = HpAfter(before, x.hp, y.hp, dx, dy, Oath(a), Oath(b))
        /\ <<p.hp, q.hp>> = HpAfter(first, u.hp, v.hp, du, dv, Oath(i), Oath(b))
    BY <1>9, <1>10
  <2>4. QED
    BY <2>1, <2>2, <2>3, HpRound
<1>15. CASE NoWorse(p.hp, q.hp, s.hp, t.hp)
  <2>1. CASE q.hp = 0 /\ p.hp > 0
    BY <1>11, <1>12, <2>1 DEF NoWorse
  <2>2. CASE s.hp = 0 /\ t.hp > 0
    BY <1>11, <1>12, <2>2 DEF NoWorse
  <2>3. CASE p.hp = 0 /\ q.hp = 0 /\ s.hp = 0 /\ t.hp = 0
    BY <1>11, <1>15, <2>3
  <2>4. QED
    BY <1>15, <2>1, <2>2, <2>3 DEF NoWorse
<1>16. CASE /\ s.hp > 0 /\ t.hp > 0 /\ p.hp > 0 /\ q.hp > 0
            /\ s.hp = x.hp - dy - Oath(b) /\ t.hp = y.hp - dx - Oath(a)
            /\ p.hp = u.hp - dv - Oath(b) /\ q.hp = v.hp - du - Oath(i)
  <2>1. /\ s.hp # 0 /\ t.hp # 0 /\ p.hp # 0 /\ q.hp # 0
    BY <1>16
  <2>2. /\ s.mana = ManaLeft(x.mana, x.fire) /\ t.mana = ManaLeft(y.mana, y.fire)
        /\ p.mana = ManaLeft(u.mana, u.fire) /\ q.mana = t.mana
        /\ ~s.fire /\ ~t.fire /\ ~p.fire /\ ~q.fire
    BY <1>4, <1>9, <1>10, <2>1
  <2>3. /\ p.hp >= s.hp /\ q.hp <= t.hp /\ t.hp < EffMaxHp(b)
        /\ v.hp - du < y.hp - dx => q.hp < t.hp
    BY <1>1, <1>3, <1>5, <1>6, <1>7, <1>13, <1>16
  <2>4. ManaOK(p.mana, s.mana, q.hp < t.hp, BaseDamage(i, b))
    BY <1>7, <2>2, <2>3 DEF ManaOK
  <2>5. Leads(i, a, b, Recover(i, p), Recover(b, q), Recover(a, s), Recover(b, t))
    BY <1>16, <2>2, <2>3, <2>4, LeadRecovers
  <2>6. QED
    BY <1>11, <1>12, <2>1, <2>5
<1>17. QED
  BY <1>14, <1>15, <1>16

\* Two fights after as many rounds, the first with the better build.
Ahead(i, a, b, improved, plain) ==
  \/ Leads(i, a, b, improved.corners[1], improved.corners[2], plain.corners[1], plain.corners[2])
  \/ NoWorse(improved.corners[1].hp, improved.corners[2].hp,
             plain.corners[1].hp, plain.corners[2].hp)

LEMMA StartsAhead ==
  ASSUME NEW i \in Combatant, NEW a \in Combatant, NEW b \in Combatant, Dominates(i, a)
  PROVE  Ahead(i, a, b, Start(i, b), Start(a, b))
<1>1. /\ EffMaxHp(i) \in Nat /\ EffMaxHp(a) \in Nat \ {0} /\ EffMaxHp(b) \in Nat \ {0}
      /\ EffMaxHp(i) >= EffMaxHp(a) /\ MaxMana(i) >= MaxMana(a)
  BY EffectiveTypes, BetterEffects
<1>2. "fire_opener" \in a.skills => "fire_opener" \in i.skills
  BY DEF Dominates
<1>3. Leads(i, a, b, Corner(i), Corner(b), Corner(a), Corner(b))
  <2>1. \A c : /\ Corner(c).hp = EffMaxHp(c) /\ Corner(c).mana = MaxMana(c)
               /\ Corner(c).fire = ("fire_opener" \in c.skills)
    BY DEF Corner
  <2>2. Corner(a).fire => Corner(i).fire
    BY <1>2, <2>1
  <2>3. QED
    BY <1>1, <2>1, <2>2 DEF Leads
<1>4. QED
  BY <1>3 DEF Ahead, Start

LEMMA StaysAhead ==
  ASSUME NEW i \in Combatant, NEW a \in Combatant, NEW b \in Combatant, Dominates(i, a),
         NEW seed \in Int, NEW n \in 1..RoundCap,
         NEW improved \in FightState(i, b), NEW plain \in FightState(a, b),
         Ahead(i, a, b, improved, plain)
  PROVE  Ahead(i, a, b, NextRound(i, b, seed, n, improved), NextRound(a, b, seed, n, plain))
<1>1. PICK u \in CornerOf(i), v \in CornerOf(b) : improved.corners = <<u, v>>
  BY DEF FightState, CornersOf
<1>2. PICK x \in CornerOf(a), y \in CornerOf(b) : plain.corners = <<x, y>>
  BY DEF FightState, CornersOf
<1>3. (Over(improved.corners) <=> u.hp = 0 \/ v.hp = 0) /\ (Over(plain.corners) <=> x.hp = 0 \/ y.hp = 0)
  BY <1>1, <1>2 DEF Over
<1>4. Leads(i, a, b, u, v, x, y) \/ NoWorse(u.hp, v.hp, x.hp, y.hp)
  BY <1>1, <1>2 DEF Ahead
<1>5. CASE Leads(i, a, b, u, v, x, y)
  <2>1. PICK p \in CornerOf(i), q \in CornerOf(b), s \in CornerOf(a), t \in CornerOf(b) :
          /\ PlayRound(i, b, seed, n, <<u, v>>) = <<p, q>>
          /\ PlayRound(a, b, seed, n, <<x, y>>) = <<s, t>>
          /\ Leads(i, a, b, p, q, s, t) \/ NoWorse(p.hp, q.hp, s.hp, t.hp)
    BY <1>5, RoundKeepsLead
  <2>2. u.hp # 0 /\ v.hp # 0 /\ x.hp # 0 /\ y.hp # 0
    <3>1. /\ u.hp \in Int /\ v.hp \in Int /\ x.hp \in Int /\ y.hp \in Int
      BY EffectiveTypes DEF CornerOf
    <3>2. QED
      BY <1>5, <3>1 DEF Leads
  <2>3. /\ NextRound(i, b, seed, n, improved).corners = <<p, q>>
        /\ NextRound(a, b, seed, n, plain).corners = <<s, t>>
    BY <1>1, <1>2, <1>3, <2>1, <2>2 DEF NextRound
  <2>4. QED
    BY <2>1, <2>3 DEF Ahead
<1>6. CASE NoWorse(u.hp, v.hp, x.hp, y.hp)
  <2>1. /\ NextRound(i, b, seed, n, improved) \in FightState(i, b)
        /\ NextRound(a, b, seed, n, plain) \in FightState(a, b)
    BY RoundTypes
  <2>2. /\ Over(improved.corners) => NextRound(i, b, seed, n, improved) = improved
        /\ Over(plain.corners) => NextRound(a, b, seed, n, plain) = plain
    BY DEF NextRound
  <2>3. QED
    BY <1>1, <1>2, <1>3, <1>6, <2>2 DEF Ahead, NoWorse
<1>7. QED
  BY <1>4, <1>5, <1>6

LEMMA AheadWins ==
  ASSUME NEW i \in Combatant, NEW a \in Combatant, NEW b \in Combatant, Dominates(i, a),
         NEW seed, NEW improved \in FightState(i, b), NEW plain \in FightState(a, b),
         Ahead(i, a, b, improved, plain), AWins(a, b, seed, plain.corners)
  PROVE  AWins(i, b, seed, improved.corners)
<1>1. /\ improved.corners[1].hp \in Nat /\ improved.corners[2].hp \in Nat
      /\ plain.corners[1].hp \in Nat /\ plain.corners[2].hp \in Nat
  BY EffectiveTypes DEF FightState, CornersOf, CornerOf
<1>2. /\ EffAttack(i) \in Int /\ EffAttack(a) \in Int /\ EffAttack(b) \in Int
      /\ EffAttack(i) >= EffAttack(a)
  BY EffectiveTypes, BetterEffects
<1>3. /\ improved.corners[1].hp >= plain.corners[1].hp
      /\ improved.corners[2].hp <= plain.corners[2].hp
      \/ improved.corners[1].hp > improved.corners[2].hp
      \/ plain.corners[1].hp < plain.corners[2].hp
  BY <1>1 DEF Ahead, Leads, NoWorse
<1>4. QED
  BY <1>1, <1>2, <1>3 DEF AWins

\* A better build is never worse, for any builds and any seed: whoever wins a fight
\* wins it with more of any stats, or with more skills. Speed that takes the first
\* strike from the opponent, mana spent earlier, damage thrown back and a fight
\* that ends in another round never turn it.
THEOREM BetterWins ==
  ASSUME NEW i \in Combatant, NEW a \in Combatant, NEW b \in Combatant, Dominates(i, a),
         NEW seed \in Int, ResolveOnchain(a, b, seed).aWins
  PROVE  ResolveOnchain(i, b, seed).aWins
<1>1. PICK f \in [0..RoundCap -> FightState(a, b)] :
        Rounds(f, a, b, seed) /\ Fought(a, b, seed) = f[RoundCap]
  BY FoughtRounds
<1>2. PICK g \in [0..RoundCap -> FightState(i, b)] :
        Rounds(g, i, b, seed) /\ Fought(i, b, seed) = g[RoundCap]
  BY FoughtRounds
<1> DEFINE P == {n \in 0..RoundCap : Ahead(i, a, b, g[n], f[n])}
<1>3. 0 \in P
  <2>1. f[0] = Start(a, b) /\ g[0] = Start(i, b)
    BY <1>1, <1>2 DEF Rounds, RoundCap
  <2>2. QED
    BY <2>1, StartsAhead DEF RoundCap
<1>4. ASSUME NEW n \in 1..RoundCap, n - 1 \in P
      PROVE  n \in P
  <2>1. n \in 0..RoundCap /\ n - 1 \in 0..RoundCap /\ n # 0
    BY DEF RoundCap
  <2>2. f[n] = NextRound(a, b, seed, n, f[n - 1]) /\ g[n] = NextRound(i, b, seed, n, g[n - 1])
    BY <1>1, <1>2, <2>1 DEF Rounds
  <2>3. f[n - 1] \in FightState(a, b) /\ g[n - 1] \in FightState(i, b)
    BY <2>1
  <2>4. Ahead(i, a, b, g[n - 1], f[n - 1])
    BY <1>4
  <2>5. Ahead(i, a, b, g[n], f[n])
    BY <2>2, <2>3, <2>4, StaysAhead
  <2>6. QED
    BY <2>1, <2>5
<1>5. RoundCap \in Nat
  BY DEF RoundCap
<1>6. Ahead(i, a, b, g[RoundCap], f[RoundCap])
  <2>1. 0..RoundCap \subseteq P
    <3> HIDE DEF P
    <3>1. QED
      BY <1>3, <1>4, <1>5, Climb
  <2>2. QED
    BY <1>5, <2>1
<1>7. /\ ResolveOnchain(a, b, seed).aWins = AWins(a, b, seed, f[RoundCap].corners)
      /\ ResolveOnchain(i, b, seed).aWins = AWins(i, b, seed, g[RoundCap].corners)
  BY <1>1, <1>2 DEF ResolveOnchain
<1>8. f[RoundCap] \in FightState(a, b) /\ g[RoundCap] \in FightState(i, b)
  BY <1>5
<1>9. QED
  BY <1>6, <1>7, <1>8, AheadWins

-----------------------------------------------------------------------------
(* 32 bits are enough *)

\* The stats of a published snapshot are 16 bits wide; a fight counts in 32.
Int16 == {n \in Int : -32768 <= n /\ n < 32768}
Int32 == {n \in Int : -2147483648 <= n /\ n < 2147483648}

\* The bounds that the numbers of a fight keep.
UpTo(k) == {n \in Int : -k <= n /\ n <= k}

PublishedBuild == [hp : Int16, attack : Int16, armor : Int16, speed : Int16, skills : SUBSET Skills]

\* Every number the simulation computes from a build before the first round.
BuildValues(c) ==
  {EffAttack(c), c.hp - Bonus(c, "glass_cannon", 3), EffMaxHp(c),
   3 + c.speed, MaxMana(c), EffInitiative(c)}

\* Every number a strike of c at x on d at y computes, in the order of `strike`.
StrikeValues(c, d, x, y) ==
  LET base == AtLeast(1, EffAttack(c) - d.armor)
      tired == IF ManaCost(x) = 0 THEN 1 ELSE 0
      beforeGuard == AtLeast(1, base - tired) + (IF CanFire(x) THEN 1 ELSE 0)
  IN  {x.mana - ManaCost(x), EffAttack(c) - d.armor, base - tired, beforeGuard,
       beforeGuard - Bonus(d, "heavy_guard", 1), Damage(c, d, x),
       y.hp - Damage(c, d, x), x.hp - Bonus(d, "stone_oath", 1)}

RecoverValues(x) == {x.hp + 1, x.mana + 1}

LEMMA BuildFits ==
  ASSUME NEW c \in PublishedBuild
  PROVE  /\ c \in Combatant /\ BuildValues(c) \subseteq UpTo(40000)
         /\ EffAttack(c) \in UpTo(40000) /\ EffMaxHp(c) \in UpTo(40000) /\ MaxMana(c) \in UpTo(40000)
<1>1. /\ c.hp \in Int16 /\ c.attack \in Int16 /\ c.armor \in Int16 /\ c.speed \in Int16
      /\ c \in [hp : Int, attack : Int, armor : Int, speed : Int, skills : SUBSET Skills]
  <2>1. Int16 \subseteq Int
    BY DEF Int16
  <2> HIDE DEF Int16
  <2>2. QED
    BY <2>1 DEF PublishedBuild
<1>2. c \in Combatant
  BY <1>1 DEF Combatant
<1>3. /\ Bonus(c, "glass_cannon", 3) \in {0, 3}
      /\ Bonus(c, "jewelry_focus", 2) \in {0, 2}
      /\ Bonus(c, "quickstep", 2) \in {0, 2}
  BY BonusType, <1>2
<1>4. /\ EffAttack(c) \in UpTo(40000) /\ EffMaxHp(c) \in UpTo(40000) /\ MaxMana(c) \in UpTo(40000)
      /\ EffInitiative(c) \in UpTo(40000)
      /\ c.hp - Bonus(c, "glass_cannon", 3) \in UpTo(40000) /\ 3 + c.speed \in UpTo(40000)
  BY <1>1, <1>3 DEF EffAttack, EffMaxHp, MaxMana, EffInitiative, AtLeast, Int16, UpTo
<1>5. QED
  BY <1>2, <1>4 DEF BuildValues

LEMMA StrikeFits ==
  ASSUME NEW c \in PublishedBuild, NEW d \in PublishedBuild,
         NEW x \in CornerOf(c), NEW y \in CornerOf(d)
  PROVE  StrikeValues(c, d, x, y) \cup RecoverValues(x) \subseteq UpTo(200000)
<1> DEFINE base == AtLeast(1, EffAttack(c) - d.armor)
           tired == IF ManaCost(x) = 0 THEN 1 ELSE 0
           fires == IF CanFire(x) THEN 1 ELSE 0
           beforeGuard == AtLeast(1, base - tired) + fires
           g == Bonus(d, "heavy_guard", 1)
           o == Bonus(d, "stone_oath", 1)
           damage == Damage(c, d, x)
           cost == ManaCost(x)
<1>1. /\ c \in Combatant /\ EffAttack(c) \in UpTo(40000)
      /\ EffMaxHp(c) \in UpTo(40000) /\ MaxMana(c) \in UpTo(40000)
      /\ d \in Combatant /\ EffMaxHp(d) \in UpTo(40000) /\ MaxMana(d) \in UpTo(40000)
  BY BuildFits
<1>2. /\ x.hp \in Nat /\ x.hp <= 40000 /\ x.mana \in Nat /\ x.mana <= 40000
      /\ y.hp \in Nat /\ y.hp <= 40000
  BY <1>1 DEF CornerOf, UpTo
<1>3. d.armor \in Int16
  <2> HIDE DEF Int16
  <2>1. QED
    BY DEF PublishedBuild
<1>4. g \in {0, 1} /\ o \in {0, 1}
  BY <1>1, BonusType
<1>5. tired \in {0, 1} /\ fires \in {0, 1}
  OBVIOUS
<1>6. damage = AtLeast(1, beforeGuard - g)
  BY DEF Damage
<1>7. cost \in 0..x.mana
  BY <1>1, DamageType
<1> HIDE DEF tired, fires, g, o, damage, cost
<1>8. /\ EffAttack(c) - d.armor \in UpTo(80000) /\ base \in UpTo(80000) /\ base >= 1
  BY <1>1, <1>3 DEF AtLeast, UpTo, Int16
<1> HIDE DEF base
<1>9. base - tired \in UpTo(80000) /\ beforeGuard \in UpTo(80001) /\ beforeGuard >= 1
  BY <1>5, <1>8 DEF AtLeast, UpTo
<1> HIDE DEF beforeGuard
<1>10. beforeGuard - g \in UpTo(80001) /\ damage \in UpTo(80001) /\ damage >= 1
  BY <1>4, <1>6, <1>9 DEF AtLeast, UpTo
<1>11. /\ x.mana - cost \in UpTo(200000) /\ y.hp - damage \in UpTo(200000)
       /\ x.hp - o \in UpTo(200000) /\ x.hp + 1 \in UpTo(200000) /\ x.mana + 1 \in UpTo(200000)
  BY <1>2, <1>4, <1>7, <1>10 DEF UpTo
<1>12. StrikeValues(c, d, x, y) =
         {x.mana - cost, EffAttack(c) - d.armor, base - tired, beforeGuard, beforeGuard - g,
          damage, y.hp - damage, x.hp - o}
  BY Zenon DEF StrikeValues, base, tired, beforeGuard, fires, g, o, damage, cost
<1>13. UpTo(80000) \subseteq UpTo(200000) /\ UpTo(80001) \subseteq UpTo(200000)
  BY DEF UpTo
<1>14. QED
  BY <1>8, <1>9, <1>10, <1>11, <1>12, <1>13 DEF RecoverValues

LEMMA SmallFits == UpTo(40000) \subseteq Int32 /\ UpTo(200000) \subseteq Int32
BY DEF UpTo, Int32

\* No fight overflows: published stats have 16 bits, and whatever a fight of two
\* such builds computes, in its ten rounds and before them, has 32. The corners
\* that strikes and recovery are computed from are those of f, round by round, and
\* those between the strikes of a round.
THEOREM FightFits ==
  ASSUME NEW a \in PublishedBuild, NEW b \in PublishedBuild, NEW seed \in Int
  PROVE  /\ BuildValues(a) \cup BuildValues(b) \subseteq Int32
         /\ \E f \in [0..RoundCap -> FightState(a, b)] :
              Rounds(f, a, b, seed) /\ Fought(a, b, seed) = f[RoundCap]
         /\ \A corners \in CornersOf(a, b) :
              /\ AStrikes(a, b, corners) \in CornersOf(a, b)
              /\ BStrikes(a, b, corners) \in CornersOf(a, b)
              /\ StrikeValues(a, b, corners[1], corners[2]) \subseteq Int32
              /\ StrikeValues(b, a, corners[2], corners[1]) \subseteq Int32
              /\ RecoverValues(corners[1]) \cup RecoverValues(corners[2]) \subseteq Int32
<1>1. a \in Combatant /\ b \in Combatant /\ BuildValues(a) \cup BuildValues(b) \subseteq Int32
  BY BuildFits, SmallFits
<1>2. \E f \in [0..RoundCap -> FightState(a, b)] :
        Rounds(f, a, b, seed) /\ Fought(a, b, seed) = f[RoundCap]
  BY <1>1, FoughtRounds
<1>3. ASSUME NEW corners \in CornersOf(a, b)
      PROVE  /\ AStrikes(a, b, corners) \in CornersOf(a, b)
             /\ BStrikes(a, b, corners) \in CornersOf(a, b)
             /\ StrikeValues(a, b, corners[1], corners[2]) \subseteq Int32
             /\ StrikeValues(b, a, corners[2], corners[1]) \subseteq Int32
             /\ RecoverValues(corners[1]) \cup RecoverValues(corners[2]) \subseteq Int32
  <2>1. corners[1] \in CornerOf(a) /\ corners[2] \in CornerOf(b)
    BY DEF CornersOf
  <2>2. AStrikes(a, b, corners) \in CornersOf(a, b) /\ BStrikes(a, b, corners) \in CornersOf(a, b)
    BY <1>1, StrikesInRange
  <2>3. StrikeValues(a, b, corners[1], corners[2]) \cup RecoverValues(corners[1]) \subseteq Int32
    BY <2>1, StrikeFits, SmallFits
  <2>4. StrikeValues(b, a, corners[2], corners[1]) \cup RecoverValues(corners[2]) \subseteq Int32
    BY <2>1, StrikeFits, SmallFits
  <2>5. QED
    BY <2>2, <2>3, <2>4
<1>4. QED
  BY <1>1, <1>2, <1>3

-----------------------------------------------------------------------------
(* Draws *)

LEMMA RollRangeWithin ==
  ASSUME NEW lo \in Int, NEW hi \in Int, hi - lo + 1 \in 1..1000
  PROVE  RollRange(lo, hi) \subseteq lo..hi
<1>1. Residues(hi - lo + 1) \subseteq 0..(hi - lo + 1) - 1
  BY RollsAssumption
<1>2. QED
  BY <1>1 DEF RollRange

\* Running is what its recursion says.
Amounts(w, m) == m \in Nat /\ w \in [1..m -> Int]

Accumulates(R, w, m) ==
  R \in [0..m -> Int] /\ R[0] = 0 /\ \A n \in 1..m : R[n] = R[n - 1] + w[n]

LEMMA RunningIs ==
  ASSUME NEW m, NEW w, Amounts(w, m)
  PROVE  Accumulates(Running(w), w, m) /\ SumOf(w) = Running(w)[m] /\ Len(w) = m
<1>0. m \in Nat /\ w \in [1..m -> Int]
  BY DEF Amounts
<1> DEFINE Sums(f) == f = [n \in 0..m |-> IF n = 0 THEN 0 ELSE f[n - 1] + w[n]]
           step == [p \in (1..m) \X Int |-> p[2] + w[p[1]]]
<1>1. Len(w) = m
  BY <1>0
<1>2. step \in [(1..m) \X Int -> Int]
  BY <1>0
<1>3. \A n \in 1..m : \A last \in Int : step[<<n, last>>] = last + w[n]
  OBVIOUS
<1> HIDE DEF step
<1>4. PICK f \in [0..m -> Int] : Iterates(f, 0, step, m)
  <2> DEFINE X == Int
  <2>1. 0 \in X /\ m \in Nat /\ step \in [(1..m) \X X -> X]
    BY <1>0, <1>2
  <2> HIDE DEF X
  <2>2. \E f \in [0..m -> X] : Iterates(f, 0, step, m)
    BY <2>1, IterationExists
  <2>3. QED
    BY <2>2 DEF X
<1>5. ASSUME NEW n \in 0..m
      PROVE  f[n] = IF n = 0 THEN 0 ELSE f[n - 1] + w[n]
  <2>1. CASE n = 0
    BY <1>4, <2>1 DEF Iterates
  <2>2. CASE n # 0
    <3>1. n \in 1..m /\ f[n - 1] \in Int
      BY <1>0, <1>4, <2>2
    <3>2. QED
      BY <1>3, <1>4, <2>2, <3>1 DEF Iterates
  <2>3. QED
    BY <2>1, <2>2
<1>6. Sums(f)
  BY <1>4, <1>5
<1> DEFINE g == CHOOSE g : Sums(g)
<1>7. Sums(g)
  BY <1>6
<1>8. Running(w) = g
  BY <1>1 DEF Running
<1> HIDE DEF g
<1>9. ASSUME NEW n \in 0..m PROVE g[n] \in Int
  <2> DEFINE P == {k \in 0..m : g[k] \in Int}
  <2>1. 0 \in P
    BY <1>0, <1>7
  <2>2. ASSUME NEW k \in 1..m, k - 1 \in P PROVE k \in P
    BY <1>0, <1>7, <2>2
  <2>3. 0..m \subseteq P
    <3> HIDE DEF P
    <3>1. QED
      BY <1>0, <2>1, <2>2, Climb
  <2>4. QED
    BY <2>3
<1>10. g \in [0..m -> Int] /\ g[0] = 0 /\ \A n \in 1..m : g[n] = g[n - 1] + w[n]
  <2>1. DOMAIN g = 0..m /\ g = [n \in 0..m |-> g[n]]
    BY <1>7
  <2>2. g \in [0..m -> Int]
    BY <1>9, <2>1
  <2>3. g[0] = 0 /\ \A n \in 1..m : g[n] = g[n - 1] + w[n]
    BY <1>0, <1>7
  <2>4. QED
    BY <2>2, <2>3
<1>11. QED
  BY <1>1, <1>8, <1>10 DEF SumOf, Accumulates

\* A weighted pick falls into a bucket.
LEMMA PicksWithin ==
  ASSUME NEW m, NEW w, Amounts(w, m), SumOf(w) \in 1..1000
  PROVE  Picks(w) \subseteq 1..m
<1> DEFINE R == Running(w)
<1>1. R \in [0..m -> Int] /\ R[0] = 0 /\ SumOf(w) = R[m] /\ Len(w) = m /\ m \in Nat
  <2>1. Accumulates(R, w, m) /\ SumOf(w) = R[m] /\ Len(w) = m
    BY RunningIs
  <2>2. QED
    BY <2>1 DEF Amounts, Accumulates
<1> HIDE DEF R
<1>2. ASSUME NEW r \in Residues(SumOf(w))
      PROVE  WeightedPick(r, w) \in 1..m
  <2>1. r \in 0..R[m] - 1
    BY <1>1, RollsAssumption
  <2>2. ASSUME ~\E i \in 1..m : R[i - 1] <= r /\ r < R[i]
        PROVE  FALSE
    <3> DEFINE P == {n \in 0..m : R[n] <= r}
    <3>1. 0 \in P
      BY <1>1, <2>1
    <3>2. ASSUME NEW n \in 1..m, n - 1 \in P PROVE n \in P
      <4>1. R[n] \in Int /\ r \in Int /\ n \in 0..m
        BY <1>1, <2>1
      <4>2. QED
        BY <2>2, <3>2, <4>1
    <3>3. m \in P
      <4>1. 0..m \subseteq P
        <5> HIDE DEF P
        <5>1. QED
          BY <1>1, <3>1, <3>2, Climb
      <4>2. QED
        BY <1>1, <4>1
    <3>4. QED
      BY <1>1, <2>1, <3>3
  <2>3. \E i \in 1..Len(w) : Running(w)[i - 1] <= r /\ r < Running(w)[i]
    BY <1>1, <2>2 DEF R
  <2>4. QED
    BY <1>1, <2>3 DEF WeightedPick
<1>3. QED
  BY <1>2 DEF Picks

LEMMA RarityPicks == Picks(RarityWeights) \subseteq 1..5
<1> DEFINE w == RarityWeights
           R == Running(w)
<1>1. w \in [1..5 -> Int] /\ w[1] = 600 /\ w[2] = 280 /\ w[3] = 90 /\ w[4] = 29 /\ w[5] = 1
  BY DEF RarityWeights
<1> HIDE DEF w
<1>2. Amounts(w, 5) /\ Accumulates(R, w, 5) /\ SumOf(w) = R[5]
  <2>1. Amounts(w, 5)
    BY <1>1 DEF Amounts
  <2>2. QED
    BY <2>1, RunningIs
<1> HIDE DEF R
<1>3. R[1] = R[0] + w[1] /\ R[2] = R[1] + w[2] /\ R[3] = R[2] + w[3] /\ R[4] = R[3] + w[4]
      /\ R[5] = R[4] + w[5] /\ R[0] = 0
  BY <1>2 DEF Accumulates
<1>4. SumOf(w) \in 1..1000
  BY <1>1, <1>2, <1>3
<1>5. QED
  BY <1>2, <1>4, PicksWithin DEF w

LEMMA SecondaryPicks == Picks(SecondaryWeights) \subseteq 1..6
<1> DEFINE w == SecondaryWeights
           R == Running(w)
<1>1. w \in [1..6 -> Int] /\ w[1] = 24 /\ w[2] = 14 /\ w[3] = 14 /\ w[4] = 14 /\ w[5] = 12
      /\ w[6] = 10
  BY DEF SecondaryWeights
<1> HIDE DEF w
<1>2. Amounts(w, 6) /\ Accumulates(R, w, 6) /\ SumOf(w) = R[6]
  <2>1. Amounts(w, 6)
    BY <1>1 DEF Amounts
  <2>2. QED
    BY <2>1, RunningIs
<1> HIDE DEF R
<1>3. R[1] = R[0] + w[1] /\ R[2] = R[1] + w[2] /\ R[3] = R[2] + w[3] /\ R[4] = R[3] + w[4]
      /\ R[5] = R[4] + w[5] /\ R[6] = R[5] + w[6] /\ R[0] = 0
  BY <1>2 DEF Accumulates
<1>4. SumOf(w) \in 1..1000
  BY <1>1, <1>2, <1>3
<1>5. QED
  BY <1>2, <1>4, PicksWithin DEF w

-----------------------------------------------------------------------------
(* What a reveal rolls *)

Affix == [kind : {"attack", "hp", "armor", "speed", "fire", "ice", "poison", "lifesteal", "crit"},
          value : Nat]

\* An affix is within the table of its kind for a tier.
AffixWithin(a, tier) ==
  /\ \A s \in DOMAIN PrimaryRange : a.kind = s => a.value <= PrimaryRange[s].hi * tier
  /\ a.kind = "speed" => a.value <= SecondaryRange.speed.hi * tier

Rarities == -1..4

\* An item in the making: what is still to come fits the account, the kinds are
\* distinct, and every affix is of the table and the range its place allows.
ItemType == [kind : {"item"}, base : BaseTypes, cap : {3, 4}, rarity : Rarities,
             affixes : Seq(Affix), left : Nat, tries : Nat]

ItemOK(r) ==
  /\ r \in ItemType
  /\ r.rarity = Unrolled => r.affixes = << >>
  /\ r.rarity # Unrolled =>
       /\ r.rarity <= r.cap
       /\ r.left + Len(r.affixes) <= r.rarity + (IF r.affixes = << >> THEN 0 ELSE 1)
       /\ Distinct(r.affixes)
       /\ \A i \in DOMAIN r.affixes : Allowed(r.base, i, r.affixes[i], r.rarity + 1)

FighterStats == [hp : 9..21, attack : 1..9, armor : 0..6, speed : 0..7]

FighterOK(r) ==
  /\ r \in [kind : {"fighter"}, faction : Factions, rarity : Rarities,
            stats : {<< >>} \cup FighterStats, skills : SUBSET Skills]
  /\ r.skills # {} => r.stats \in FighterStats

RollInv == ItemOK(roll) \/ FighterOK(roll)

LEMMA TierIs ==
  ASSUME roll.rarity \in 0..4
  PROVE  Tier = roll.rarity + 1 /\ Tier \in 1..5
BY DEF Tier, TierByRarity

\* An allowed affix does not exceed what the fights may read of its kind.
LEMMA AllowedWithin ==
  ASSUME NEW base \in BaseTypes, NEW i, NEW a, NEW tier \in 1..5, Allowed(base, i, a, tier)
  PROVE  AffixWithin(a, tier)
<1>1. CASE Ranged(a, PrimaryRange, tier)
  <2>1. a.kind \in {"attack", "hp", "armor"}
        /\ a.value \in (PrimaryRange[a.kind].lo * tier)..(PrimaryRange[a.kind].hi * tier)
    BY <1>1 DEF Ranged, PrimaryRange
  <2> DEFINE lo == PrimaryRange[a.kind].lo * tier
             hi == PrimaryRange[a.kind].hi * tier
  <2>2. a.value \in lo..hi
    BY <2>1
  <2> HIDE DEF lo
  <2>3. a.value <= hi
    BY <2>2
  <2>4. QED
    BY <2>1, <2>3 DEF AffixWithin
<1>2. CASE Ranged(a, SecondaryRange, tier)
  <2>1. /\ a.kind \in {"speed", "fire", "ice", "poison", "lifesteal", "crit"}
        /\ a.value \in (SecondaryRange[a.kind].lo * tier)..(SecondaryRange[a.kind].hi * tier)
    BY <1>2 DEF Ranged, SecondaryRange
  <2>2. a.value <= SecondaryRange[a.kind].hi * tier
    BY <2>1
  <2>3. QED
    BY <2>1, <2>2 DEF AffixWithin, PrimaryRange
<1>3. QED
  BY <1>1, <1>2 DEF Allowed

\* The affixes the tables allow.
LEMMA PrimaryAffix ==
  ASSUME roll.rarity \in 0..4, NEW s \in {"attack", "hp", "armor"},
         NEW a \in AffixesOf(s, PrimaryRange[s])
  PROVE  a \in Affix /\ a.kind = s /\ Ranged(a, PrimaryRange, roll.rarity + 1)
<1> DEFINE lo == PrimaryRange[s].lo
           hi == PrimaryRange[s].hi
<1>1. Tier = roll.rarity + 1 /\ Tier \in 1..5
  BY TierIs
<1>2. lo \in 1..20 /\ hi \in lo..40
  BY DEF PrimaryRange
<1>3. lo * Tier \in Nat /\ hi * Tier \in Nat /\ (hi * Tier) - (lo * Tier) + 1 \in 1..1000
  <2>1. Tier = 1 \/ Tier = 2 \/ Tier = 3 \/ Tier = 4 \/ Tier = 5
    BY <1>1
  <2> HIDE DEF lo, hi
  <2>2. QED
    BY <1>2, <2>1
<1> HIDE DEF lo, hi
<1>4. a.value \in RollRange(lo * Tier, hi * Tier) /\ a.kind = s
      /\ a = [kind |-> a.kind, value |-> a.value]
  BY DEF AffixesOf, lo, hi
<1>5. a.value \in (lo * Tier)..(hi * Tier)
  BY <1>3, <1>4, RollRangeWithin
<1>6. a.value \in Nat /\ a.value <= hi * Tier
  BY <1>3, <1>5
<1>7. a \in Affix
  BY <1>4, <1>6 DEF Affix
<1>8. Ranged(a, PrimaryRange, Tier)
  BY <1>4, <1>5 DEF Ranged, PrimaryRange, lo, hi
<1>9. QED
  BY <1>1, <1>4, <1>7, <1>8

LEMMA SecondaryAffix ==
  ASSUME roll.rarity \in 0..4, NEW i \in 1..6,
         NEW a \in AffixesOf(SecondaryKinds[i], SecondaryRange[SecondaryKinds[i]])
  PROVE  a \in Affix /\ a.kind = SecondaryKinds[i] /\ Ranged(a, SecondaryRange, roll.rarity + 1)
<1> DEFINE s == SecondaryKinds[i]
           lo == SecondaryRange[s].lo
           hi == SecondaryRange[s].hi
<1>1. Tier = roll.rarity + 1 /\ Tier \in 1..5
  BY TierIs
<1>2. s \in {"speed", "fire", "ice", "poison", "lifesteal", "crit"}
  BY DEF SecondaryKinds
<1>3. lo \in 1..20 /\ hi \in lo..40
  <2> HIDE DEF s
  <2>1. QED
    BY <1>2 DEF SecondaryRange
<1>4. lo * Tier \in Nat /\ hi * Tier \in Nat /\ (hi * Tier) - (lo * Tier) + 1 \in 1..1000
  <2>1. Tier = 1 \/ Tier = 2 \/ Tier = 3 \/ Tier = 4 \/ Tier = 5
    BY <1>1
  <2> HIDE DEF lo, hi
  <2>2. QED
    BY <1>3, <2>1
<1> HIDE DEF lo, hi
<1>5. a.value \in RollRange(lo * Tier, hi * Tier) /\ a.kind = s
      /\ a = [kind |-> a.kind, value |-> a.value]
  BY DEF AffixesOf, lo, hi
<1> HIDE DEF s
<1>6. a.value \in (lo * Tier)..(hi * Tier)
  BY <1>4, <1>5, RollRangeWithin
<1>7. a.value \in Nat /\ a.value <= hi * Tier
  BY <1>4, <1>6
<1>8. a \in Affix
  BY <1>2, <1>5, <1>7 DEF Affix
<1>9. Ranged(a, SecondaryRange, Tier)
  <2>1. s \in DOMAIN SecondaryRange
    BY <1>2 DEF SecondaryRange
  <2>2. QED
    BY <1>5, <1>6, <2>1 DEF Ranged, lo, hi
<1>10. QED
  BY <1>1, <1>5, <1>8, <1>9 DEF s

\* The summands of a stat have one term: the affix of its kind, if there is one.
LEMMA OneOfAKind ==
  ASSUME NEW m, NEW w, Amounts(w, m), NEW hi \in Nat,
         \A i \in 1..m : w[i] <= hi,
         \A i, j \in 1..m : i # j => w[i] = 0 \/ w[j] = 0
  PROVE  SumOf(w) <= hi
<1> DEFINE R == Running(w)
           P == {n \in 0..m : R[n] <= hi /\ ((\A j \in 1..n : w[j] = 0) => R[n] = 0)}
<1>1. /\ R \in [0..m -> Int] /\ R[0] = 0 /\ SumOf(w) = R[m]
      /\ \A n \in 1..m : R[n] = R[n - 1] + w[n]
      /\ m \in Nat /\ w \in [1..m -> Int]
  <2>1. Accumulates(R, w, m) /\ SumOf(w) = R[m]
    BY RunningIs
  <2>2. QED
    BY <2>1 DEF Amounts, Accumulates
<1> HIDE DEF R
<1>2. 0 \in P
  BY <1>1
<1>3. ASSUME NEW n \in 1..m, n - 1 \in P
      PROVE  n \in P
  <2>1. R[n] = R[n - 1] + w[n] /\ R[n - 1] \in Int /\ R[n - 1] <= hi /\ w[n] \in Int /\ w[n] <= hi
    BY <1>1, <1>3
  <2>2. CASE w[n] = 0
    <3>1. R[n] = R[n - 1]
      BY <2>1, <2>2
    <3>2. (\A j \in 1..n : w[j] = 0) => \A j \in 1..(n - 1) : w[j] = 0
      OBVIOUS
    <3>3. QED
      BY <1>3, <2>1, <3>1, <3>2
  <2>3. CASE w[n] # 0
    <3>1. \A j \in 1..(n - 1) : w[j] = 0
      <4>1. ASSUME NEW j \in 1..(n - 1) PROVE w[j] = 0
        <5>1. j \in 1..m /\ n \in 1..m /\ j # n
          BY <1>1
        <5>2. QED
          BY <2>3, <5>1
      <4>2. QED
        BY <4>1
    <3>2. R[n - 1] = 0
      BY <1>3, <3>1
    <3>3. R[n] = w[n]
      BY <2>1, <3>2
    <3>4. n \in 1..n
      OBVIOUS
    <3>5. QED
      BY <2>1, <2>3, <3>3, <3>4
  <2>4. QED
    BY <2>2, <2>3
<1>4. m \in P
  <2>1. 0..m \subseteq P
    <3> HIDE DEF P
    <3>1. QED
      BY <1>1, <1>2, <1>3, Climb
  <2>2. QED
    BY <1>1, <2>1
<1>5. QED
  BY <1>1, <1>4

LEMMA StatWithin ==
  ASSUME NEW affixes \in Seq(Affix), Distinct(affixes),
         NEW s \in {"hp", "attack", "armor", "speed"}, NEW hi \in Nat,
         \A i \in DOMAIN affixes : affixes[i].kind = s => affixes[i].value <= hi
  PROVE  StatDelta(affixes)[s] <= hi
<1> DEFINE m == Len(affixes)
           w == [i \in DOMAIN affixes |-> IF affixes[i].kind = s THEN affixes[i].value ELSE 0]
<1>1. m \in Nat /\ DOMAIN affixes = 1..m /\ \A i \in 1..m : affixes[i].value \in Nat
  <2>1. m \in Nat /\ DOMAIN affixes = 1..m
    BY LenProperties
  <2>2. ASSUME NEW i \in 1..m PROVE affixes[i] \in Affix
    BY ElementOfSeq
  <2>3. QED
    BY <2>1, <2>2 DEF Affix
<1>2. Amounts(w, m)
  BY <1>1 DEF Amounts
<1>3. \A i \in 1..m : w[i] <= hi
  BY <1>1
<1>4. \A i, j \in 1..m : i # j => w[i] = 0 \/ w[j] = 0
  BY <1>1 DEF Distinct
<1>5. StatDelta(affixes)[s] = SumOf(w)
  BY DEF StatDelta
<1> HIDE DEF m, w
<1>6. QED
  BY <1>1, <1>2, <1>3, <1>4, <1>5, OneOfAKind

-----------------------------------------------------------------------------
(* The steps of a roll *)

LEMMA StartsOK == ASSUME NEW r \in ItemStarts \cup FighterStarts PROVE ItemOK(r) \/ FighterOK(r)
<1>1. CASE r \in ItemStarts
  <2>1. r \in ItemType
    <3> DEFINE none == << >>
    <3>1. none \in Seq(Affix)
      BY EmptySeq
    <3>2. Unrolled \in Rarities /\ Legendary \in {3, 4} /\ Mythic \in {3, 4}
      BY DEF Unrolled, Rarities, Legendary, Mythic
    <3>3. r \in [kind : {"item"}, base : BaseTypes, cap : {Legendary, Mythic}, rarity : {Unrolled},
                 affixes : {none}, left : {0}, tries : {0}]
      BY <1>1 DEF ItemStarts
    <3> HIDE DEF none
    <3>4. QED
      BY <3>1, <3>2, <3>3 DEF ItemType
  <2>2. r.rarity = Unrolled /\ r.affixes = << >>
    BY <1>1 DEF ItemStarts
  <2>3. QED
    BY <2>1, <2>2 DEF ItemOK
<1>2. CASE r \in FighterStarts
  BY <1>2 DEF FighterStarts, FighterOK, Unrolled, Rarities
<1>3. QED
  BY <1>1, <1>2

LEMMA RollRarityOK == ASSUME RollInv, RollRarity PROVE RollInv'
<1>1. PICK i \in Picks(RarityWeights) :
        IF roll.kind = "item"
        THEN LET rarity == IF i - 1 > roll.cap THEN roll.cap ELSE i - 1
             IN  roll' = [roll EXCEPT !.rarity = rarity,
                                      !.left = SecondaryCountByRarity[rarity]]
        ELSE roll' = [roll EXCEPT !.rarity = i - 1]
  BY DEF RollRarity
<1>2. i \in 1..5 /\ roll.rarity = Unrolled
  BY RarityPicks DEF RollRarity
<1>3. CASE ItemOK(roll)
  <2> DEFINE rarity == IF i - 1 > roll.cap THEN roll.cap ELSE i - 1
  <2>1. roll.kind = "item" /\ roll.cap \in {3, 4} /\ roll.affixes = << >>
    BY <1>2, <1>3 DEF ItemOK, ItemType
  <2>2. rarity \in 0..4 /\ rarity <= roll.cap
    BY <1>2, <2>1
  <2>3. roll' = [roll EXCEPT !.rarity = rarity, !.left = rarity]
    BY <1>1, <2>1, <2>2 DEF SecondaryCountByRarity
  <2> HIDE DEF rarity
  <2>4. roll' \in ItemType
    <3>1. roll \in ItemType /\ rarity \in Rarities /\ rarity \in Nat
      BY <1>3, <2>2 DEF ItemOK, Rarities
    <3>2. QED
      BY <2>3, <3>1 DEF ItemType
  <2>5. roll'.rarity = rarity /\ roll'.left = rarity /\ roll'.affixes = << >> /\ roll'.cap = roll.cap
    BY <1>3, <2>1, <2>3 DEF ItemOK, ItemType
  <2>6. Distinct(roll'.affixes) /\ DOMAIN roll'.affixes = {} /\ Len(roll'.affixes) = 0
    BY <2>5 DEF Distinct
  <2>7. QED
    BY <2>2, <2>4, <2>5, <2>6 DEF RollInv, ItemOK, Unrolled
<1>4. CASE FighterOK(roll)
  <2>1. roll' = [roll EXCEPT !.rarity = i - 1]
    BY <1>1, <1>4 DEF FighterOK
  <2>2. QED
    BY <1>2, <1>4, <2>1 DEF RollInv, FighterOK, Rarities
<1>5. QED
  BY <1>3, <1>4 DEF RollInv

LEMMA RollPrimaryOK == ASSUME RollInv, RollPrimary PROVE RollInv'
<1>1. ItemOK(roll) /\ roll.kind = "item" /\ roll.rarity # Unrolled /\ roll.affixes = << >>
  BY DEF RollInv, FighterOK, RollPrimary
<1>2. roll.rarity \in 0..4
  BY <1>1 DEF ItemOK, ItemType, Unrolled, Rarities
<1>3. PICK a \in Affix : /\ roll' = [roll EXCEPT !.affixes = <<a>>]
                         /\ Allowed(roll.base, 1, a, roll.rarity + 1)
  <2>1. ASSUME roll.base # "Charm",
               NEW a \in AffixesOf(PrimaryKind[roll.base], PrimaryRange[PrimaryKind[roll.base]]),
               roll' = [roll EXCEPT !.affixes = <<a>>]
        PROVE  a \in Affix /\ Allowed(roll.base, 1, a, roll.rarity + 1)
    <3>1. PrimaryKind[roll.base] \in {"attack", "hp", "armor"}
      BY <1>1, <2>1 DEF ItemOK, ItemType, BaseTypes, PrimaryKind
    <3>2. /\ a \in Affix /\ a.kind = PrimaryKind[roll.base]
          /\ Ranged(a, PrimaryRange, roll.rarity + 1)
      BY <1>2, <2>1, <3>1, PrimaryAffix
    <3>3. QED
      BY <2>1, <3>2 DEF Allowed
  <2>2. ASSUME roll.base = "Charm", NEW i \in Picks(SecondaryWeights),
               NEW a \in AffixesOf(SecondaryKinds[i], SecondaryRange[SecondaryKinds[i]]),
               roll' = [roll EXCEPT !.affixes = <<a>>]
        PROVE  a \in Affix /\ Allowed(roll.base, 1, a, roll.rarity + 1)
    <3>1. a \in Affix /\ Ranged(a, SecondaryRange, roll.rarity + 1)
      BY <1>2, <2>2, SecondaryPicks, SecondaryAffix
    <3>2. QED
      BY <2>2, <3>1 DEF Allowed
  <2>3. QED
    BY <2>1, <2>2 DEF RollPrimary
<1>4. <<a>> \in Seq(Affix) /\ Len(<<a>>) = 1 /\ DOMAIN <<a>> = {1} /\ <<a>>[1] = a /\ <<a>> # << >>
  OBVIOUS
<1>5. /\ roll' \in ItemType
      /\ roll'.affixes = <<a>> /\ roll'.rarity = roll.rarity /\ roll'.left = roll.left
      /\ roll'.cap = roll.cap /\ roll'.base = roll.base
  BY <1>1, <1>3, <1>4 DEF ItemOK, ItemType
<1>6. roll.left \in Nat /\ roll.left <= roll.rarity /\ roll.rarity <= roll.cap
  <2>1. Len(<< >>) = 0
    OBVIOUS
  <2>2. roll.left \in Nat /\ roll.left + Len(roll.affixes) <= roll.rarity + 0
    BY <1>1 DEF ItemOK, ItemType
  <2>3. QED
    BY <1>1, <1>2, <2>1, <2>2 DEF ItemOK
<1>7. /\ Distinct(roll'.affixes)
      /\ \A i \in DOMAIN roll'.affixes : Allowed(roll'.base, i, roll'.affixes[i], roll'.rarity + 1)
  BY <1>3, <1>4, <1>5 DEF Distinct
<1>8. roll'.left + Len(roll'.affixes) <= roll'.rarity + 1 /\ roll'.affixes # << >>
  BY <1>2, <1>4, <1>5, <1>6
<1>9. QED
  BY <1>1, <1>5, <1>6, <1>7, <1>8 DEF RollInv, ItemOK

LEMMA RollSecondaryOK == ASSUME RollInv, RollSecondary PROVE RollInv'
<1>1. ItemOK(roll) /\ roll.kind = "item" /\ roll.affixes # << >> /\ roll.left > 0
  BY DEF RollInv, FighterOK, RollSecondary
<1>2. roll.rarity # Unrolled /\ roll.rarity \in 0..4 /\ roll.left \in Nat \ {0}
      /\ roll.affixes \in Seq(Affix) /\ roll.tries \in Nat
  BY <1>1 DEF ItemOK, ItemType, Unrolled, Rarities
<1>3. PICK i \in Picks(SecondaryWeights) :
        LET kind == SecondaryKinds[i] IN
          \/ /\ ~Taken(kind, roll.affixes)
             /\ \E a \in AffixesOf(kind, SecondaryRange[kind]) :
                  roll' = [roll EXCEPT !.affixes = Append(@, a), !.left = @ - 1, !.tries = 0]
          \/ /\ Taken(kind, roll.affixes)
             /\ roll' = IF roll.tries + 1 = Attempts
                        THEN [roll EXCEPT !.left = @ - 1, !.tries = 0]
                        ELSE [roll EXCEPT !.tries = @ + 1]
  BY DEF RollSecondary
<1>4. /\ roll.rarity <= roll.cap
      /\ roll.left + Len(roll.affixes) <= roll.rarity + 1
      /\ Distinct(roll.affixes)
      /\ \A j \in DOMAIN roll.affixes : Allowed(roll.base, j, roll.affixes[j], roll.rarity + 1)
  BY <1>1, <1>2 DEF ItemOK
<1>5. ASSUME NEW a \in AffixesOf(SecondaryKinds[i], SecondaryRange[SecondaryKinds[i]]),
             ~Taken(SecondaryKinds[i], roll.affixes),
             roll' = [roll EXCEPT !.affixes = Append(@, a), !.left = @ - 1, !.tries = 0]
      PROVE  RollInv'
  <2> DEFINE old == roll.affixes
             all == Append(old, a)
             m == Len(old)
  <2>1. /\ a \in Affix /\ a.kind = SecondaryKinds[i]
        /\ Ranged(a, SecondaryRange, roll.rarity + 1)
    BY <1>2, SecondaryPicks, SecondaryAffix
  <2>2. /\ all \in Seq(Affix) /\ Len(all) = m + 1 /\ m \in Nat /\ DOMAIN all = 1..(m + 1)
        /\ DOMAIN old = 1..m /\ all # << >>
        /\ \A j \in 1..(m + 1) : all[j] = IF j = m + 1 THEN a ELSE old[j]
    BY <1>2, <2>1
  <2>3. \A j \in 1..m : old[j].kind # a.kind
    BY <1>5, <2>1, <2>2 DEF Taken, Kinds
  <2>4. /\ roll' \in ItemType
        /\ roll'.affixes = all /\ roll'.rarity = roll.rarity /\ roll'.left = roll.left - 1
        /\ roll'.cap = roll.cap /\ roll'.base = roll.base
    <3>1. roll \in ItemType /\ roll.left - 1 \in Nat
      BY <1>1, <1>2 DEF ItemOK
    <3>2. roll' = [roll EXCEPT !.affixes = all, !.left = roll.left - 1, !.tries = 0]
      BY <1>5
    <3> HIDE DEF all, old
    <3>3. QED
      BY <2>2, <3>1, <3>2 DEF ItemType
  <2> HIDE DEF old, all, m
  <2>5. Distinct(all)
    BY <1>4, <2>2, <2>3 DEF Distinct, old
  <2>9. m # 0
    BY <1>1, <1>2, EmptySeq DEF m, old
  <2>6. \A j \in DOMAIN all : Allowed(roll.base, j, all[j], roll.rarity + 1)
    <3>1. ASSUME NEW j \in 1..(m + 1) PROVE Allowed(roll.base, j, all[j], roll.rarity + 1)
      <4>1. CASE j = m + 1
        <5>1. j # 1 /\ all[j] = a
          BY <2>2, <2>9, <4>1
        <5>2. QED
          BY <2>1, <5>1 DEF Allowed
      <4>2. CASE j # m + 1
        <5>1. j \in 1..m /\ all[j] = old[j]
          BY <2>2, <4>2
        <5>2. QED
          BY <1>4, <2>2, <5>1 DEF old
      <4>3. QED
        BY <4>1, <4>2
    <3>2. QED
      BY <2>2, <3>1
  <2>7. roll'.left + Len(all) <= roll.rarity + 1
    <3>1. roll.left + m <= roll.rarity + 1
      BY <1>4 DEF m, old
    <3>2. QED
      BY <1>2, <2>2, <2>4, <3>1
  <2>8. QED
    BY <1>2, <1>4, <2>2, <2>4, <2>5, <2>6, <2>7 DEF RollInv, ItemOK
<1>6. ASSUME roll' \in ItemType, roll'.left \in {roll.left - 1, roll.left},
             roll'.affixes = roll.affixes, roll'.rarity = roll.rarity, roll'.cap = roll.cap,
             roll'.base = roll.base
      PROVE  RollInv'
  <2>1. Len(roll.affixes) \in Nat
    BY <1>2, LenProperties
  <2>2. roll'.left + Len(roll'.affixes) <= roll'.rarity + 1
    <3>1. Len(roll'.affixes) = Len(roll.affixes) /\ roll'.rarity = roll.rarity
      BY <1>6, Zenon
    <3>2. roll.left + Len(roll.affixes) <= roll.rarity + 1
      BY <1>4
    <3>3. roll.left \in Int /\ roll.rarity \in Int
      BY <1>2
    <3>4. roll'.left = roll.left - 1 \/ roll'.left = roll.left
      BY <1>6
    <3>5. QED
      BY <2>1, <3>1, <3>2, <3>3, <3>4
  <2>3. QED
    BY <1>1, <1>2, <1>4, <1>6, <2>2 DEF RollInv, ItemOK
<1>7. CASE Taken(SecondaryKinds[i], roll.affixes)
  <2>1. roll \in ItemType /\ roll.left - 1 \in Nat /\ roll.tries + 1 \in Nat
    BY <1>1, <1>2 DEF ItemOK
  <2>2. CASE roll.tries + 1 = Attempts
    <3>1. roll' = [roll EXCEPT !.left = roll.left - 1, !.tries = 0]
      BY <1>3, <1>7, <2>2
    <3>2. /\ roll' \in ItemType /\ roll'.left = roll.left - 1
          /\ roll'.affixes = roll.affixes /\ roll'.rarity = roll.rarity /\ roll'.cap = roll.cap
          /\ roll'.base = roll.base
      BY <2>1, <3>1 DEF ItemType
    <3>3. QED
      BY <1>6, <3>2
  <2>3. CASE roll.tries + 1 # Attempts
    <3>1. roll' = [roll EXCEPT !.tries = roll.tries + 1]
      BY <1>3, <1>7, <2>3
    <3>2. /\ roll' \in ItemType /\ roll'.left = roll.left
          /\ roll'.affixes = roll.affixes /\ roll'.rarity = roll.rarity /\ roll'.cap = roll.cap
          /\ roll'.base = roll.base
      BY <2>1, <3>1 DEF ItemType
    <3>3. QED
      BY <1>6, <3>2
  <2>4. QED
    BY <2>2, <2>3
<1>8. QED
  BY <1>3, <1>5, <1>7

LEMMA RollFighterOK == ASSUME RollInv, RollFighter PROVE RollInv'
<1>1. FighterOK(roll) /\ roll.kind = "fighter" /\ roll.rarity # Unrolled
  BY DEF RollInv, ItemOK, ItemType, RollFighter
<1>2. roll.rarity \in 0..4 /\ roll.faction \in Factions /\ Tier \in 1..5
  <2>1. roll.rarity \in 0..4 /\ roll.faction \in Factions
    BY <1>1 DEF FighterOK, Unrolled, Rarities
  <2>2. QED
    BY <2>1, TierIs
<1>3. PICK hpBump \in RollRange(0, Tier), primaryBump \in RollRange(0, Tier),
           powerBump \in PowerBumps :
        LET bumped == [BaseStats[roll.faction] EXCEPT !.hp = @ + hpBump,
                                                      !.attack = @ + powerBump]
        IN  roll' = [roll EXCEPT
              !.stats = [bumped EXCEPT ![PrimaryStat[roll.faction]] = @ + primaryBump],
              !.skills = FighterSkills(roll.faction, roll.rarity)]
  BY DEF RollFighter
<1>4. hpBump \in 0..5 /\ primaryBump \in 0..5 /\ powerBump \in 0..1
  <2>1. RollRange(0, Tier) \subseteq 0..Tier
    BY <1>2, RollRangeWithin
  <2>2. PowerBumps \subseteq 0..1
    BY RollRangeWithin DEF PowerBumps
  <2>3. QED
    BY <1>2, <2>1, <2>2
<1> DEFINE base == BaseStats[roll.faction]
           bumped == [base EXCEPT !.hp = @ + hpBump, !.attack = @ + powerBump]
           p == PrimaryStat[roll.faction]
           stats == [bumped EXCEPT ![p] = @ + primaryBump]
<1>5. stats \in FighterStats
  <2>1. /\ base \in [hp : 9..11, attack : 1..3, armor : 0..1, speed : 0..2]
        /\ p \in {"hp", "attack", "armor", "speed"}
    BY <1>2 DEF BaseStats, PrimaryStat, Factions
  <2> HIDE DEF base, p
  <2>2. bumped \in [hp : 9..16, attack : 1..4, armor : 0..1, speed : 0..2]
    <3> DEFINE hp == base.hp + hpBump
               attack == base.attack + powerBump
    <3>1. hp \in 9..16 /\ attack \in 1..4
      <4>1. base.hp \in 9..11 /\ base.attack \in 1..3
        BY <2>1
      <4>2. QED
        BY <1>4, <4>1
    <3> HIDE DEF hp, attack
    <3>2. [base EXCEPT !.hp = hp, !.attack = attack] \in
            [hp : 9..16, attack : 1..4, armor : 0..1, speed : 0..2]
      BY <2>1, <3>1
    <3>3. QED
      BY <3>2 DEF hp, attack
  <2> HIDE DEF bumped
  <2>3. CASE p = "hp"
    BY <1>4, <2>2, <2>3 DEF FighterStats
  <2>4. CASE p = "attack"
    BY <1>4, <2>2, <2>4 DEF FighterStats
  <2>5. CASE p = "armor"
    BY <1>4, <2>2, <2>5 DEF FighterStats
  <2>6. CASE p = "speed"
    BY <1>4, <2>2, <2>6 DEF FighterStats
  <2>7. QED
    BY <2>1, <2>3, <2>4, <2>5, <2>6
<1>6. FighterSkills(roll.faction, roll.rarity) \subseteq Skills
  BY <1>2 DEF FighterSkills, DefaultSkill, BonusSkill, Skills, Factions
<1>7. roll' = [roll EXCEPT !.stats = stats, !.skills = FighterSkills(roll.faction, roll.rarity)]
  BY <1>3
<1> HIDE DEF stats, bumped, p, base
<1>8. QED
  BY <1>1, <1>5, <1>6, <1>7 DEF RollInv, FighterOK

LEMMA RollInvariance == RollSpec => []RollInv
<1>1. RollInit => RollInv
  BY StartsOK DEF RollInit, RollInv
<1>2. RollInv /\ [RollNext]_roll => RollInv'
  <2>1. SUFFICES ASSUME RollInv, [RollNext]_roll PROVE RollInv'
    OBVIOUS
  <2>2. CASE NextRoll
    <3>1. roll' \in ItemStarts \cup FighterStarts
      BY <2>2 DEF NextRoll
    <3>2. QED
      BY <3>1, StartsOK DEF RollInv
  <2>3. CASE UNCHANGED roll
    BY <2>1, <2>3 DEF RollInv
  <2>4. QED
    BY <2>1, <2>2, <2>3, RollRarityOK, RollPrimaryOK, RollSecondaryOK, RollFighterOK DEF RollNext
<1>3. QED
  BY <1>1, <1>2, PTL DEF RollSpec

\* Whatever the generator draws: an item's rarity is within its cap, it has one affix and
\* at most one more for each step of its rarity, of distinct kinds, the first of its class,
\* each within the range of its kind at the tier, so that no stat folds to more than one
\* affix gives; a fighter is in the band of stats the fights are balanced for.
THEOREM RollsInTables == RollSpec => []RollsWithinTables
<1>1. RollInv => RollsWithinTables
  <2>1. SUFFICES ASSUME RollInv PROVE RollsWithinTables
    OBVIOUS
  <2>2. ASSUME Done, roll.kind = "item"
        PROVE  /\ roll.rarity <= roll.cap
               /\ Len(roll.affixes) \in 1..(1 + SecondaryCountByRarity[roll.rarity])
               /\ Len(roll.affixes) <= MaxAffixes
               /\ Distinct(roll.affixes)
               /\ \A i \in DOMAIN roll.affixes : Allowed(roll.base, i, roll.affixes[i], Tier)
               /\ \A s \in DOMAIN PrimaryRange :
                    StatDelta(roll.affixes)[s] <= PrimaryRange[s].hi * Tier
               /\ StatDelta(roll.affixes).speed <= SecondaryRange.speed.hi * Tier
    <3>1. /\ ItemOK(roll) /\ roll.affixes # << >> /\ roll.left = 0 /\ roll.rarity # Unrolled
          /\ roll.affixes \in Seq(Affix) /\ roll.rarity \in 0..4
      BY <2>1, <2>2 DEF RollInv, FighterOK, Done, ItemOK, ItemType, Unrolled, Rarities
    <3>2. /\ roll.rarity <= roll.cap /\ Len(roll.affixes) <= roll.rarity + 1
          /\ Distinct(roll.affixes)
          /\ \A i \in DOMAIN roll.affixes : Allowed(roll.base, i, roll.affixes[i], roll.rarity + 1)
      <4>1. 0 + Len(roll.affixes) <= roll.rarity + 1
        BY <3>1 DEF ItemOK
      <4>2. QED
        BY <3>1, <4>1 DEF ItemOK
    <3>3. /\ Len(roll.affixes) \in 1..(1 + SecondaryCountByRarity[roll.rarity])
          /\ Len(roll.affixes) <= MaxAffixes
      <4>1. Len(roll.affixes) \in Nat \ {0}
        BY <3>1, EmptySeq
      <4>2. roll.rarity \in 0..4 /\ Len(roll.affixes) <= roll.rarity + 1
        BY <3>1, <3>2
      <4> DEFINE len == Len(roll.affixes)
                 rarity == roll.rarity
      <4>3. len \in Nat \ {0} /\ rarity \in 0..4 /\ len <= rarity + 1
        BY <4>1, <4>2
      <4> HIDE DEF len, rarity
      <4>4. len \in 1..(1 + rarity) /\ len <= 5
        BY <4>3
      <4>5. SecondaryCountByRarity[rarity] = rarity
        BY <4>3 DEF SecondaryCountByRarity
      <4>6. QED
        BY <4>4, <4>5 DEF MaxAffixes, len, rarity
    <3>4. Tier = roll.rarity + 1 /\ Tier \in 1..5
      BY <3>1, TierIs
    <3>8. \A i \in DOMAIN roll.affixes : AffixWithin(roll.affixes[i], Tier)
      <4>1. roll.base \in BaseTypes
        BY <3>1 DEF ItemOK, ItemType
      <4>2. QED
        BY <3>2, <3>4, <4>1, AllowedWithin
    <3>5. ASSUME NEW s \in DOMAIN PrimaryRange
          PROVE  StatDelta(roll.affixes)[s] <= PrimaryRange[s].hi * Tier
      <4>1. s \in {"hp", "attack", "armor", "speed"} /\ PrimaryRange[s].hi * Tier \in Nat
        BY <3>4 DEF PrimaryRange
      <4>2. \A i \in DOMAIN roll.affixes :
              roll.affixes[i].kind = s => roll.affixes[i].value <= PrimaryRange[s].hi * Tier
        BY <3>8 DEF AffixWithin
      <4>3. QED
        BY <3>1, <3>2, <4>1, <4>2, StatWithin
    <3>6. StatDelta(roll.affixes).speed <= SecondaryRange.speed.hi * Tier
      <4>1. SecondaryRange.speed.hi * Tier \in Nat
        BY <3>4 DEF SecondaryRange
      <4>2. \A i \in DOMAIN roll.affixes :
              roll.affixes[i].kind = "speed" =>
                roll.affixes[i].value <= SecondaryRange.speed.hi * Tier
        BY <3>8 DEF AffixWithin
      <4>3. QED
        BY <3>1, <3>2, <4>1, <4>2, StatWithin
    <3>7. QED
      BY <3>2, <3>3, <3>4, <3>5, <3>6
  <2>3. ASSUME Done, roll.kind = "fighter"
        PROVE  /\ roll.stats.hp \in 9..21
               /\ roll.stats.attack \in 1..9
               /\ roll.stats.armor \in 0..6
               /\ roll.stats.speed \in 0..7
    BY <2>1, <2>3 DEF RollInv, ItemOK, ItemType, FighterOK, FighterStats, Done
  <2>4. QED
    BY <2>2, <2>3 DEF RollsWithinTables
<1>2. QED
  BY <1>1, RollInvariance, PTL

\* The fighters a reveal gives, and their partners, are builds.
LEMMA RolledBuilds ==
  ASSUME RollInv, RolledFighter, NEW c \in Partners, NEW seed \in Seeds
  PROVE  Rolled \in Combatant /\ c \in Combatant /\ seed \in {0, 1}
<1>1. roll.stats \in FighterStats /\ roll.skills \subseteq Skills
  BY DEF RollInv, ItemOK, ItemType, FighterOK, RolledFighter, Done
<1>2. Rolled \in Combatant
  BY <1>1 DEF Rolled, Build, Combatant, FighterStats
<1>3. ASSUME NEW f \in Factions PROVE Novice(f) \in Combatant
  BY DEF Novice, Build, Combatant, BaseStats, DefaultSkill, Factions, Skills
<1>4. c \in Combatant
  BY <1>2, <1>3 DEF Partners, Sparring, Combatant, Skills
<1>5. QED
  BY <1>2, <1>4 DEF Seeds

\* No advantage in being the challenger, for every fighter a reveal can give
\* against every partner of the run and against its twin.
THEOREM SidesEqual == RollSpec => []NoSideAdvantage
<1>1. RollInv => NoSideAdvantage
  <2>1. SUFFICES ASSUME RollInv, RolledFighter, NEW c \in Partners, NEW seed \in Seeds
                 PROVE  /\ ResolveOnchain(Rolled, c, seed).aWins #
                             ResolveOnchain(c, Rolled, 1 - seed).aWins
                        /\ ResolveOnchain(Rolled, c, seed).rounds =
                             ResolveOnchain(c, Rolled, 1 - seed).rounds
    BY DEF NoSideAdvantage
  <2>2. Rolled \in Combatant /\ c \in Combatant /\ seed \in {0, 1}
    BY <2>1, RolledBuilds
  <2>3. QED
    BY <2>1, <2>2, MirroredFight
<1>2. QED
  BY <1>1, RollInvariance, PTL

LEMMA ImprovedDominates ==
  ASSUME NEW c \in Combatant, NEW better \in Improved(c)
  PROVE  better \in Combatant /\ Dominates(better, c)
<1>1. /\ c.hp \in Int /\ c.attack \in Int /\ c.armor \in Int /\ c.speed \in Int
      /\ c.skills \subseteq Skills
  BY DEF Combatant
<1>2. ASSUME NEW s \in {"hp", "attack", "armor", "speed"}, better = [c EXCEPT ![s] = @ + 1]
      PROVE  better \in Combatant /\ Dominates(better, c)
  BY <1>1, <1>2 DEF Combatant, Dominates
<1>3. ASSUME NEW k \in Skills \ {"glass_cannon"}, better = [c EXCEPT !.skills = @ \cup {k}]
      PROVE  better \in Combatant /\ Dominates(better, c)
  BY <1>1, <1>3 DEF Combatant, Dominates
<1>4. QED
  BY <1>2, <1>3 DEF Improved

\* A better build is never worse for a fighter a reveal can give, against any
\* partner of the run.
THEOREM ImprovementsWin == RollSpec => []BetterNotWorse
<1>1. RollInv => BetterNotWorse
  <2>1. SUFFICES ASSUME RollInv, RolledFighter, NEW c \in Partners, NEW seed \in Seeds,
                        ResolveOnchain(Rolled, c, seed).aWins, NEW better \in Improved(Rolled)
                 PROVE  ResolveOnchain(better, c, seed).aWins
    BY DEF BetterNotWorse
  <2>2. Rolled \in Combatant /\ c \in Combatant /\ seed \in Int
    BY <2>1, RolledBuilds
  <2>3. better \in Combatant /\ Dominates(better, Rolled)
    BY <2>1, <2>2, ImprovedDominates
  <2>4. QED
    BY <2>1, <2>2, <2>3, BetterWins
<1>2. QED
  BY <1>1, RollInvariance, PTL
=============================================================================
