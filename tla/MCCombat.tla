------------------------------ MODULE MCCombat ------------------------------
(***************************************************************************)
(* Rolls that fight: every rolled fighter meets sparring partners in the   *)
(* battle simulation.  The ladder takes the stats and skills of a snapshot *)
(* as its owner publishes them, so some partners are builds no roll gives. *)
(***************************************************************************)
EXTENDS Rolls, BattleSim

\* Both sides of every boundary: the buckets of the two weighted picks, the
\* ends of every range.
MCResidues(n) ==
  CASE n = 1000 -> {0, 599, 600, 879, 880, 969, 970, 998, 999}
    [] n = 88 -> {0, 23, 24, 37, 38, 51, 52, 65, 66, 77, 78, 87}
    [] n <= 6 -> 0..n-1
    [] OTHER -> {0, n - 1}

Build(stats, skills) ==
  [hp |-> stats.hp, attack |-> stats.attack, armor |-> stats.armor,
   speed |-> stats.speed, skills |-> skills]

Novice(f) == Build(BaseStats[f], {DefaultSkill[f]})

\* The four factions unbumped; a build of every skill; one with no attack, no
\* mana and no hit points; one that reflects and heals behind thick armor.
Sparring ==
  {Novice(f) : f \in Factions} \cup
  { [hp |-> 14, attack |-> 3, armor |-> 1, speed |-> 0, skills |-> Skills],
    [hp |-> 0, attack |-> 0, armor |-> 0, speed |-> -3, skills |-> {"quickstep"}],
    [hp |-> 12, attack |-> 1, armor |-> 4, speed |-> 1,
     skills |-> {"stone_oath", "moss_skin", "jewelry_focus"}] }

Seeds == {0, 1}

RolledFighter == Done /\ roll.kind = "fighter"

Rolled == Build(roll.stats, roll.skills)

\* Everyone also meets a twin, where the initiative and the result tie.
Partners == Sparring \cup {Rolled}

\* The builds with one point or one skill more; the glass cannon trades hit
\* points for attack and is left out.
Improved(c) ==
  {[c EXCEPT ![s] = @ + 1] : s \in {"hp", "attack", "armor", "speed"}} \cup
  {[c EXCEPT !.skills = @ \cup {k}] : k \in Skills \ {"glass_cannon"}}

\* Being the challenger gives no advantage: with the sides swapped and the other
\* low bit of the hash, which is as likely, the same build wins in as many
\* rounds. The two directions of a strike, the order in a round, the reflected
\* damage and the tie-breaks treat both corners alike.
NoSideAdvantage ==
  RolledFighter =>
    \A c \in Partners, seed \in Seeds :
      LET fight == ResolveOnchain(Rolled, c, seed)
          mirror == ResolveOnchain(c, Rolled, 1 - seed)
      IN  fight.aWins # mirror.aWins /\ fight.rounds = mirror.rounds

\* A better build is never worse: one more point of any stat or one more skill
\* does not turn a won fight into a lost one, although it changes who strikes
\* first, how long the mana lasts, what is reflected and when the fight ends.
BetterNotWorse ==
  RolledFighter =>
    \A c \in Partners, seed \in Seeds :
      ResolveOnchain(Rolled, c, seed).aWins =>
        \A better \in Improved(Rolled) : ResolveOnchain(better, c, seed).aWins
=============================================================================
