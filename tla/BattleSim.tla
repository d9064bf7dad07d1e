------------------------------ MODULE BattleSim ------------------------------
(***************************************************************************)
(* The battle simulation of arena-leaderboard, a pure function of two      *)
(* builds and the seed of the fight: at most ten rounds of one strike each *)
(* way, mana, the seven skills, and a tie-break by the low bit of an FNV-1a *)
(* hash.  The multiplier of the hash is odd, so that bit is the exclusive  *)
(* or of the low bits of what is hashed: the offset (odd), the seed, the   *)
(* characters of both identities, and of ":" (even) and the round number.  *)
(* The parity of seed and identities together is the parameter `seed`.     *)
(***************************************************************************)
EXTENDS Integers

Skills == {"moss_skin", "stone_oath", "fire_opener", "glass_cannon",
           "heavy_guard", "quickstep", "jewelry_focus"}

\* The stats of a published snapshot and its skill mask.
Combatant == [hp : Int, attack : Int, armor : Int, speed : Int, skills : SUBSET Skills]

RoundCap == 10

AtLeast(low, n) == IF n < low THEN low ELSE n
AtMost(high, n) == IF n > high THEN high ELSE n

\* What a skill adds for the builds that have it.
Bonus(c, skill, n) == IF skill \in c.skills THEN n ELSE 0

EffAttack(c) == c.attack + Bonus(c, "glass_cannon", 3)
EffMaxHp(c) == AtLeast(1, c.hp - Bonus(c, "glass_cannon", 3))
MaxMana(c) == AtLeast(1, 3 + c.speed) + Bonus(c, "jewelry_focus", 2)
EffInitiative(c) == c.speed + Bonus(c, "quickstep", 2)

TieBreakEven(seed, suffix) == (1 + seed + suffix) % 2 = 0

\* The digits of "10" are an odd and an even character.
RoundParity(round) == IF round = 10 THEN 1 ELSE round % 2

-----------------------------------------------------------------------------
(* One strike, c at x strikes d at y; a corner is what changes in a fight *)

CanFire(x) == x.fire /\ x.mana >= 2

ManaCost(x) == IF CanFire(x) THEN 2 ELSE AtMost(1, x.mana)

Damage(c, d, x) ==
  LET base == AtLeast(1, EffAttack(c) - d.armor)
      tired == IF ManaCost(x) = 0 THEN 1 ELSE 0
      beforeGuard == AtLeast(1, base - tired) + (IF CanFire(x) THEN 1 ELSE 0)
  IN  AtLeast(1, beforeGuard - Bonus(d, "heavy_guard", 1))

\* Mutant: the attacker's own oath reflects.
StrikeOwnOath(c, d, x, y) ==
  << [hp |-> AtLeast(0, x.hp - Bonus(c, "stone_oath", 1)),
      mana |-> x.mana - ManaCost(x), fire |-> FALSE],
     [y EXCEPT !.hp = AtLeast(0, @ - Damage(c, d, x))] >>

Strike(c, d, x, y) ==
  << [hp |-> AtLeast(0, x.hp - Bonus(d, "stone_oath", 1)),
      mana |-> x.mana - ManaCost(x), fire |-> FALSE],
     [y EXCEPT !.hp = AtLeast(0, @ - Damage(c, d, x))] >>

Over(corners) == corners[1].hp = 0 \/ corners[2].hp = 0

AStrikes(a, b, corners) == Strike(a, b, corners[1], corners[2])

\* Mutant: the opener of b is not used up.
BStrikesReadyAgain(a, b, corners) ==
  LET hit == Strike(b, a, corners[2], corners[1])
  IN  <<hit[2], [hit[1] EXCEPT !.fire = corners[2].fire]>>

BStrikes(a, b, corners) ==
  LET hit == Strike(b, a, corners[2], corners[1]) IN <<hit[2], hit[1]>>

\* Moss heals up to the full hit points, jewelry refills up to the full mana.
Recover(c, x) ==
  [x EXCEPT !.hp = IF "moss_skin" \in c.skills THEN AtMost(EffMaxHp(c), @ + 1) ELSE @,
            !.mana = IF "jewelry_focus" \in c.skills THEN AtMost(MaxMana(c), @ + 1) ELSE @]

-----------------------------------------------------------------------------
(* The fight *)

AGoesFirst(a, b, seed, round) ==
  IF EffInitiative(a) # EffInitiative(b)
  THEN EffInitiative(a) > EffInitiative(b)
  ELSE TieBreakEven(seed, RoundParity(round))

\* The second strikes back, and both recover, only while both stand.
PlayRound(a, b, seed, round, corners) ==
  LET aFirst == AGoesFirst(a, b, seed, round)
      half == IF aFirst THEN AStrikes(a, b, corners) ELSE BStrikes(a, b, corners)
      struck == IF Over(half) THEN half
                ELSE IF aFirst THEN BStrikes(a, b, half) ELSE AStrikes(a, b, half)
  IN  IF Over(struck) THEN struck ELSE <<Recover(a, struck[1]), Recover(b, struck[2])>>

Corner(c) == [hp |-> EffMaxHp(c), mana |-> MaxMana(c),
              fire |-> "fire_opener" \in c.skills]

\* The fight after its first n rounds: the corners and the rounds played.
Fought(a, b, seed) ==
  LET after[n \in 0..RoundCap] ==
        IF n = 0
        THEN [corners |-> <<Corner(a), Corner(b)>>, rounds |-> 0]
        ELSE LET last == after[n - 1]
             IN  IF Over(last.corners)
                 THEN last
                 ELSE [corners |-> PlayRound(a, b, seed, n, last.corners), rounds |-> n]
  IN  after[RoundCap]

\* Remaining hit points, then effective attack, then the hash.
AWins(a, b, seed, corners) ==
  LET x == corners[1].hp
      y == corners[2].hp
  IN  IF x # y THEN x > y
      ELSE IF EffAttack(a) # EffAttack(b) THEN EffAttack(a) > EffAttack(b)
      ELSE TieBreakEven(seed, 0)

ResolveOnchain(a, b, seed) ==
  LET fight == Fought(a, b, seed)
  IN  [aWins |-> AWins(a, b, seed, fight.corners), rounds |-> fight.rounds]
=============================================================================
