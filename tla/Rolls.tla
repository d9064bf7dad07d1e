-------------------------------- MODULE Rolls --------------------------------
(***************************************************************************)
(* What a reveal rolls: affix.rs rolls an item (rarity, a guaranteed       *)
(* primary affix by class, then secondary affixes of distinct kinds), and  *)
(* fighter.rs rolls a fighter of a faction.  Every draw takes one output   *)
(* of the generator modulo a span; the outputs themselves are arbitrary,   *)
(* so a draw is any residue of its span.                                   *)
(***************************************************************************)
EXTENDS Integers, Sequences

CONSTANT Residues(_)  \* the residues tried for a modulus

ASSUME RollsAssumption == \A n \in 1..1000 : Residues(n) \subseteq 0..n-1

VARIABLE roll  \* the roll that is going on, or the last one

\* rarity 0..4: Common, Rare, Epic, Legendary, Mythic
RarityWeights == <<600, 280, 90, 29, 1>>
Epic == 2
Legendary == 3
Mythic == 4
Unrolled == -1

TierByRarity == [r \in 0..4 |-> r + 1]
SecondaryCountByRarity == [r \in 0..4 |-> r]
MaxAffixes == 5
Attempts == 4

BaseTypes == {"Weapon", "Head", "Armor", "Charm"}

PrimaryKind == [Weapon |-> "attack", Head |-> "hp", Armor |-> "armor"]

PrimaryRange == [attack |-> [lo |-> 8, hi |-> 16], hp |-> [lo |-> 20, hi |-> 40],
                 armor |-> [lo |-> 6, hi |-> 12]]

SecondaryKinds == <<"speed", "fire", "ice", "poison", "lifesteal", "crit">>
SecondaryWeights == <<24, 14, 14, 14, 12, 10>>

SecondaryRange ==
  [speed |-> [lo |-> 1, hi |-> 3], lifesteal |-> [lo |-> 1, hi |-> 3],
   crit |-> [lo |-> 2, hi |-> 4], fire |-> [lo |-> 5, hi |-> 5],
   ice |-> [lo |-> 5, hi |-> 5], poison |-> [lo |-> 5, hi |-> 5]]

Factions == {"Moss", "Spark", "Void", "Stone"}

BaseStats ==
  [Moss  |-> [hp |-> 11, attack |-> 1, armor |-> 1, speed |-> 0],
   Spark |-> [hp |-> 9,  attack |-> 3, armor |-> 0, speed |-> 1],
   Void  |-> [hp |-> 9,  attack |-> 2, armor |-> 0, speed |-> 2],
   Stone |-> [hp |-> 11, attack |-> 2, armor |-> 1, speed |-> 0]]

PrimaryStat == [Moss |-> "hp", Spark |-> "attack", Void |-> "speed", Stone |-> "armor"]

DefaultSkill == [Moss |-> "moss_skin", Spark |-> "fire_opener",
                 Void |-> "quickstep", Stone |-> "stone_oath"]

BonusSkill == [Moss |-> "heavy_guard", Spark |-> "glass_cannon",
               Void |-> "jewelry_focus", Stone |-> "heavy_guard"]

-----------------------------------------------------------------------------
(* Draws *)

\* The sums of the first n amounts.
Running(amounts) ==
  LET upTo[n \in 0..Len(amounts)] == IF n = 0 THEN 0 ELSE upTo[n - 1] + amounts[n]
  IN  upTo

SumOf(amounts) == Running(amounts)[Len(amounts)]

\* The bucket a residue falls into, walking the weights in order.
WeightedPick(residue, weights) ==
  CHOOSE i \in 1..Len(weights) :
    Running(weights)[i - 1] <= residue /\ residue < Running(weights)[i]

Picks(weights) == {WeightedPick(r, weights) : r \in Residues(SumOf(weights))}

\* lo + next % (hi - lo + 1)
RollRange(lo, hi) == {lo + r : r \in Residues(hi - lo + 1)}

-----------------------------------------------------------------------------
(* Items *)

ItemStarts ==
  [kind : {"item"}, base : BaseTypes, cap : {Legendary, Mythic}, rarity : {Unrolled},
   affixes : {<< >>}, left : {0}, tries : {0}]

Kinds(affixes) == {affixes[i].kind : i \in DOMAIN affixes}

Tier == TierByRarity[roll.rarity]

\* The affixes of one kind the tier allows.
AffixesOf(kind, range) ==
  [kind : {kind}, value : RollRange(range.lo * Tier, range.hi * Tier)]

RollRarity ==
  /\ roll.rarity = Unrolled
  /\ \E i \in Picks(RarityWeights) :
       IF roll.kind = "item"
       THEN LET rarity == IF i - 1 > roll.cap THEN roll.cap ELSE i - 1
            IN  roll' = [roll EXCEPT !.rarity = rarity,
                                     !.left = SecondaryCountByRarity[rarity]]
       ELSE roll' = [roll EXCEPT !.rarity = i - 1]

\* The primary kind is fixed by the class; a charm draws it from the pool.
RollPrimary ==
  /\ roll.kind = "item" /\ roll.rarity # Unrolled /\ roll.affixes = << >>
  /\ \/ /\ roll.base # "Charm"
        /\ \E a \in AffixesOf(PrimaryKind[roll.base], PrimaryRange[PrimaryKind[roll.base]]) :
             roll' = [roll EXCEPT !.affixes = <<a>>]
     \/ /\ roll.base = "Charm"
        /\ \E i \in Picks(SecondaryWeights) :
           \E a \in AffixesOf(SecondaryKinds[i], SecondaryRange[SecondaryKinds[i]]) :
             roll' = [roll EXCEPT !.affixes = <<a>>]

\* Mutant: secondaries are compared with each other only.
TakenBySecondaries(kind, affixes) == kind \in Kinds(Tail(affixes))

Taken(kind, affixes) == kind \in Kinds(affixes)

\* One attempt at a secondary slot: a kind already rolled is drawn again, four
\* times in all, and then the slot is skipped.
RollSecondary ==
  /\ roll.kind = "item" /\ roll.affixes # << >> /\ roll.left > 0
  /\ \E i \in Picks(SecondaryWeights) :
       LET kind == SecondaryKinds[i] IN
         \/ /\ ~Taken(kind, roll.affixes)
            /\ \E a \in AffixesOf(kind, SecondaryRange[kind]) :
                 roll' = [roll EXCEPT !.affixes = Append(@, a), !.left = @ - 1, !.tries = 0]
         \/ /\ Taken(kind, roll.affixes)
            /\ roll' = IF roll.tries + 1 = Attempts
                       THEN [roll EXCEPT !.left = @ - 1, !.tries = 0]
                       ELSE [roll EXCEPT !.tries = @ + 1]

\* ArenaItem::stat_delta: what the fights read of an item.
StatDelta(affixes) ==
  [s \in {"hp", "attack", "armor", "speed"} |->
     SumOf([i \in DOMAIN affixes |-> IF affixes[i].kind = s THEN affixes[i].value ELSE 0])]

-----------------------------------------------------------------------------
(* Fighters *)

FighterStarts ==
  [kind : {"fighter"}, faction : Factions, rarity : {Unrolled}, stats : {<< >>}, skills : {{}}]

PowerBumps == IF Tier >= 3 THEN RollRange(0, 1) ELSE {0}

FighterSkills(faction, rarity) ==
  {DefaultSkill[faction]} \cup (IF rarity >= Epic THEN {BonusSkill[faction]} ELSE {})

RollFighter ==
  /\ roll.kind = "fighter" /\ roll.rarity # Unrolled /\ roll.skills = {}
  /\ \E hpBump \in RollRange(0, Tier), primaryBump \in RollRange(0, Tier),
        powerBump \in PowerBumps :
       LET bumped == [BaseStats[roll.faction] EXCEPT !.hp = @ + hpBump,
                                                     !.attack = @ + powerBump]
       IN  roll' = [roll EXCEPT
             !.stats = [bumped EXCEPT ![PrimaryStat[roll.faction]] = @ + primaryBump],
             !.skills = FighterSkills(roll.faction, roll.rarity)]

-----------------------------------------------------------------------------
Done ==
  /\ roll.rarity # Unrolled
  /\ \/ roll.kind = "item" /\ roll.affixes # << >> /\ roll.left = 0
     \/ roll.kind = "fighter" /\ roll.skills # {}

\* The next reveal.
NextRoll == Done /\ roll' \in ItemStarts \cup FighterStarts

RollInit == roll \in ItemStarts \cup FighterStarts

RollNext == RollRarity \/ RollPrimary \/ RollSecondary \/ RollFighter \/ NextRoll

RollSpec == RollInit /\ [][RollNext]_roll

-----------------------------------------------------------------------------
(* Properties *)

Ranged(a, table, tier) ==
  /\ a.kind \in DOMAIN table
  /\ a.value \in (table[a.kind].lo * tier)..(table[a.kind].hi * tier)

\* The i-th affix an item of this class and tier may have.
Allowed(base, i, a, tier) ==
  IF i = 1 /\ base # "Charm"
  THEN a.kind = PrimaryKind[base] /\ Ranged(a, PrimaryRange, tier)
  ELSE Ranged(a, SecondaryRange, tier)

Distinct(affixes) == \A i, j \in DOMAIN affixes : i # j => affixes[i].kind # affixes[j].kind

\* Whatever the draws, a reveal stays within the tables. An item has one affix
\* and at most one more for each step of its rarity, which fits its account; the
\* first is of its class, each is in the range of its kind at the rolled tier,
\* and no kind comes twice, be it a charm's wildcard or a secondary that was
\* drawn again: the folded stats are what one affix can give. A fighter stays in
\* the band the fights are balanced for, also the rarest, which a test hardly meets.
RollsWithinTables ==
  /\ Done /\ roll.kind = "item" =>
       /\ roll.rarity <= roll.cap
       /\ Len(roll.affixes) \in 1..(1 + SecondaryCountByRarity[roll.rarity])
       /\ Len(roll.affixes) <= MaxAffixes
       /\ Distinct(roll.affixes)
       /\ \A i \in DOMAIN roll.affixes : Allowed(roll.base, i, roll.affixes[i], Tier)
       /\ \A s \in DOMAIN PrimaryRange :
            StatDelta(roll.affixes)[s] <= PrimaryRange[s].hi * Tier
       /\ StatDelta(roll.affixes).speed <= SecondaryRange.speed.hi * Tier
  /\ Done /\ roll.kind = "fighter" =>
       /\ roll.stats.hp \in 9..21
       /\ roll.stats.attack \in 1..9
       /\ roll.stats.armor \in 0..6
       /\ roll.stats.speed \in 0..7
=============================================================================
