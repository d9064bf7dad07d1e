---------------------------- MODULE MCPvpLadder ----------------------------
(***************************************************************************)
(* Instances of PvpLadder composed with the battle simulation: two wallets *)
(* that challenge each other, on one board that exists.                    *)
(***************************************************************************)
EXTENDS PvpLadder, BattleSim

CONSTANTS Alice, Bob, Main, Lion, Mage

\* A novice, and a build that beats it on every seed; twins leave it to the seed.
Novice == [hp |-> 11, attack |-> 2, armor |-> 1, speed |-> 0, skills |-> {"stone_oath"}]
Veteran == [hp |-> 15, attack |-> 4, armor |-> 2, speed |-> 1,
            skills |-> {"stone_oath", "heavy_guard"}]

MCBuilds == {Novice, Veteran}

Wins == [a, b \in MCBuilds, seed \in {0, 1} |-> ResolveOnchain(a, b, seed).aWins]

\* Hashes of later slots alternate in their low bit.
MCBeats(a, b, s) == Wins[a, b, s % 2]

Ghosts == {[avatar |-> Lion, build |-> Novice], [avatar |-> Mage, build |-> Veteran]}

LadderOpen ==
  /\ ClockInit
  /\ day \in 1..DayHorizon
  /\ boards = [b \in Boards |-> [capacity |-> 2, heap |-> << >>]]
  /\ limiter = [w \in Wallets |-> NoLimiter]
  /\ profiled = {}
  /\ battles = [w \in Wallets |-> << >>]
  /\ ratedOn = [w \in Wallets |-> None]
  /\ stats = [w \in Wallets |-> NoStats]
  /\ challenges = [k \in Keys |-> NoChallenge]
  /\ charRecords = [c \in Wallets \X Avatars |-> [wins |-> 0, losses |-> 0, games |-> 0]]
  /\ pairs = [p \in Pairs |-> [lastRanked |-> 0, rankedToday |-> 0, day |-> 0]]
  /\ settled = {}
  /\ fights = {}
  /\ snapshots = [w \in Wallets |-> [avatar |-> Lion, build |-> Novice]]

\* Only the first wallet changes its ghost and reports battles.
MCNext ==
  \/ \E g \in Ghosts : PublishSnapshot(Alice, g)
  \/ UnpublishSnapshot(Alice)
  \/ \E k \in Keys, o \in Wallets : CommitChallenge(k, o)
  \/ \E b \in Boards, k \in Keys : ResolveChallenge(b, k)
  \/ \E k \in Keys : CloseExpiredChallenge(k)
  \/ /\ \E b \in Boards : RecordBattle(b, Alice, Alice, TRUE, FALSE)
     /\ UNCHANGED pvpVars
  \/ AdvanceClock

MCSpec == LadderOpen /\ [][MCNext]_vars
MCFairSpec == MCSpec /\ Fairness
=============================================================================
