----------------------------- MODULE PvpLadder -----------------------------
(***************************************************************************)
(* The asynchronous PvP ladder of arena-leaderboard, beside its PvE half:  *)
(* players publish a build as a ghost, commit to fight another's ghost,    *)
(* and anyone resolves the fight from the hash of a later slot, writing    *)
(* both players' stats, both characters' records, the pair's throttle and  *)
(* the board.  The simulation itself is a constant operator here.          *)
(***************************************************************************)
EXTENDS Leaderboard, Elo

CONSTANTS
  Nonces,          \* nonces challengers choose
  Builds,          \* what a ghost fights with
  Avatars,         \* characters a ghost stands for
  Beats(_, _, _),  \* the challenger's build, the opponent's, the slot of the seed
  PairCooldownSlots,    \* PAIR_COOLDOWN_SLOTS
  MaxRankedPerPair,     \* MAX_RANKED_PER_PAIR_PER_DAY
  MinRankedGames,       \* MIN_RANKED_GAMES
  Delay,           \* PVP_REVEAL_DELAY_SLOTS
  Window,          \* PVP_COMMIT_WINDOW_SLOTS
  CommitHorizon    \* bound: no challenge is committed after this slot

Keys == Wallets \X Nonces
Pairs == {p \in SUBSET Wallets : Cardinality(p) = 2}
Idle == 0
Expired == -1
NoChallenge == [target |-> Idle]
NoSnapshot == [avatar |-> None]

ASSUME PvpAssumption ==
  /\ None \notin Avatars
  /\ \A a, b \in Builds, s \in 0..SlotHorizon : Beats(a, b, s) \in BOOLEAN
  /\ PairCooldownSlots \in Nat \ {0}
  /\ MaxRankedPerPair \in Nat
  /\ MinRankedGames \in Nat
  /\ Delay \in Nat \ {0}
  /\ Window \in Nat \ {0}
  /\ CommitHorizon \in Nat

\* 300 slots against the 512 entries of SlotHashes.
ASSUME PvpWindowAssumption == Window <= Retention

VARIABLES
  snapshots,    \* ArenaSnapshot of a wallet, or NoSnapshot
  challenges,   \* Challenge PDA [challenger, nonce] -> account, or NoChallenge
  charRecords,  \* CharRecord of [owner, avatar]; all zero until it is created
  pairs,        \* PairCooldown of a pair of wallets; all zero until then
  settled,      \* history: how every challenge ended
  fights        \* history: every resolved challenge

pvpVars == <<snapshots, challenges, charRecords, pairs, settled, fights>>
vars == <<leaderboardVars, pvpVars>>

Snapshot == [avatar : Avatars, build : Builds]
Challenge == [target : Nat \ {Idle}, opponent : Wallets]
CharRecord == [wins : Nat, losses : Nat, games : Nat]
PairCooldown == [lastRanked : Nat, rankedToday : 0..MaxRankedPerPair, day : 0..DayHorizon]

TypeOK ==
  /\ LeaderboardTypeOK
  /\ snapshots \in [Wallets -> Snapshot \cup {NoSnapshot}]
  /\ challenges \in [Keys -> Challenge \cup {NoChallenge}]
  /\ charRecords \in [Wallets \X Avatars -> CharRecord]
  /\ pairs \in [Pairs -> PairCooldown]

PvpInit ==
  /\ snapshots = [w \in Wallets |-> NoSnapshot]
  /\ challenges = [k \in Keys |-> NoChallenge]
  /\ charRecords = [c \in Wallets \X Avatars |-> [wins |-> 0, losses |-> 0, games |-> 0]]
  /\ pairs = [p \in Pairs |-> [lastRanked |-> 0, rankedToday |-> 0, day |-> 0]]
  /\ settled = {}
  /\ fights = {}

Init == LeaderboardInit /\ PvpInit

-----------------------------------------------------------------------------
(* Ghosts and challenges *)

PublishSnapshot(w, snapshot) ==
  /\ snapshots' = [snapshots EXCEPT ![w] = snapshot]
  /\ UNCHANGED <<leaderboardVars, challenges, charRecords, pairs, settled, fights>>

UnpublishSnapshot(w) ==
  /\ snapshots[w] # NoSnapshot
  /\ snapshots' = [snapshots EXCEPT ![w] = NoSnapshot]
  /\ UNCHANGED <<leaderboardVars, challenges, charRecords, pairs, settled, fights>>

CommitChallenge(k, opponent) ==
  /\ challenges[k] = NoChallenge
  /\ slot <= CommitHorizon
  /\ snapshots[k[1]] # NoSnapshot /\ snapshots[opponent] # NoSnapshot
  /\ opponent # k[1]
  /\ challenges' = [challenges EXCEPT ![k] = [target |-> slot + Delay, opponent |-> opponent]]
  /\ UNCHANGED <<leaderboardVars, snapshots, charRecords, pairs, settled, fights>>

-----------------------------------------------------------------------------
(* Resolving a challenge *)

\* Mutant: any other day resets the count.
PairOnAnotherDay(pair) ==
  LET p == pairs[pair] IN
  IF day # p.day THEN [p EXCEPT !.day = day, !.rankedToday = 0] ELSE p

\* The pair's throttle as of this slot: a later day resets its count.
PairToday(pair) ==
  LET p == pairs[pair] IN
  IF day > p.day THEN [p EXCEPT !.day = day, !.rankedToday = 0] ELSE p

Ranked(pair) ==
  LET p == PairToday(pair) IN
  /\ p.lastRanked = 0 \/ slot >= p.lastRanked + PairCooldownSlots
  /\ p.rankedToday < MaxRankedPerPair

\* consume_rated; the clock's first slot is 1, so slot.max(1) is slot.
ConsumedPair(pair) ==
  LET p == PairToday(pair) IN
  IF Ranked(pair)
  THEN [p EXCEPT !.lastRanked = slot, !.rankedToday = @ + 1]
  ELSE p

\* Mutant: a lost game is not counted as a game.
RecordedWins(r, won) ==
  [games |-> IF won THEN r.games + 1 ELSE r.games,
   wins |-> IF won THEN r.wins + 1 ELSE r.wins,
   losses |-> IF won THEN r.losses ELSE r.losses + 1]

Recorded(r, won) ==
  [games |-> r.games + 1, wins |-> IF won THEN r.wins + 1 ELSE r.wins,
   losses |-> IF won THEN r.losses ELSE r.losses + 1]

Settle(k, entropy) ==
  /\ challenges' = [challenges EXCEPT ![k] = NoChallenge]
  /\ settled' = settled \cup
       {[key |-> k, target |-> challenges[k].target, entropy |-> entropy]}

\* Mutant: one game more is asked for.
UpsertAfterGate(board, p, s) ==
  IF s.games > MinRankedGames THEN Upsert(board, EntryOf(p, s)) ELSE board

\* The entry of p, when the result counts and p has enough games for the board.
UpsertRanked(board, p, s) ==
  IF s.games >= MinRankedGames THEN Upsert(board, EntryOf(p, s)) ELSE board

\* Both stats, records and entries are computed from the state before the fight.
RecordFight(b, k, c, o, won) ==
  LET rated == Ranked({c, o})
      before == [w \in {c, o} |-> EnsuredStats(w)]
      delta(me, other, iWon) ==
        IF rated THEN EloDelta(before[me].rating, before[other].rating, iWon) ELSE 0
      after == [w \in {c, o} |->
        IF w = c THEN Tallied(before[c], won, delta(c, o, won))
                 ELSE Tallied(before[o], ~won, delta(o, c, ~won))]
      seen(w) == IF after[w].games >= MinRankedGames THEN b ELSE None
  IN
  /\ pairs' = [pairs EXCEPT ![{c, o}] = ConsumedPair({c, o})]
  /\ stats' = [stats EXCEPT ![c] = after[c], ![o] = after[o]]
  /\ charRecords' = [charRecords EXCEPT
       ![<<c, snapshots[c].avatar>>] = Recorded(@, won),
       ![<<o, snapshots[o].avatar>>] = Recorded(@, ~won)]
  /\ boards' =
       IF rated
       THEN [boards EXCEPT ![b] =
               UpsertRanked(UpsertRanked(@, c, after[c]), o, after[o])]
       ELSE boards
  /\ ratedOn' = IF rated THEN [ratedOn EXCEPT ![c] = seen(c), ![o] = seen(o)] ELSE ratedOn
  /\ fights' = fights \cup
       {[key |-> k, target |-> challenges[k].target, pair |-> {c, o},
         slot |-> slot, day |-> day, rated |-> rated,
         winner |-> IF won THEN c ELSE o,
         worn |-> [w \in {c, o} |-> snapshots[w].avatar]]}

\* Mutant: the window has no end.
PastTarget(t) == slot > t

InRevealWindow(t) == slot > t /\ slot <= t + Window

\* What a resolve on board b requires, from the block s.
CanResolve(b, k, s) ==
  LET c == k[1]
      o == challenges[k].opponent
  IN
  /\ challenges[k] # NoChallenge
  /\ boards[b].capacity # 0
  /\ snapshots[c] # NoSnapshot /\ snapshots[o] # NoSnapshot
  /\ o # c
  /\ InRevealWindow(challenges[k].target)
  /\ SlothashAtOrAfter(s, Retained(blocks), challenges[k].target)

\* Anyone resolves, naming any board; the ghosts fight as they are published now.
ResolveChallenge(b, k) ==
  LET c == k[1]
      o == challenges[k].opponent
  IN
  /\ \E s \in blocks :
       /\ CanResolve(b, k, s)
       /\ Settle(k, s)
       /\ RecordFight(b, k, c, o, Beats(snapshots[c].build, snapshots[o].build, s))
  /\ UNCHANGED <<clockVars, day, limiter, profiled, battles, snapshots>>

\* Mutant: closing needs the opponent's ghost, as resolving does.
CloseWithGhost(k) ==
  /\ challenges[k] # NoChallenge
  /\ slot > challenges[k].target + Window
  /\ snapshots[challenges[k].opponent] # NoSnapshot
  /\ Settle(k, Expired)
  /\ UNCHANGED <<leaderboardVars, snapshots, charRecords, pairs, fights>>

\* Anyone may close an expired challenge; its rent goes to the challenger.
CloseExpiredChallenge(k) ==
  /\ challenges[k] # NoChallenge
  /\ slot > challenges[k].target + Window
  /\ Settle(k, Expired)
  /\ UNCHANGED <<leaderboardVars, snapshots, charRecords, pairs, fights>>

-----------------------------------------------------------------------------
AdvanceClock == NextBank /\ UNCHANGED <<ladderVars, pvpVars>>

PvpStep ==
  \/ \E w \in Wallets, a \in Avatars, d \in Builds :
       PublishSnapshot(w, [avatar |-> a, build |-> d])
  \/ \E w \in Wallets : UnpublishSnapshot(w)
  \/ \E k \in Keys, o \in Wallets : CommitChallenge(k, o)
  \/ \E b \in Boards, k \in Keys : ResolveChallenge(b, k)
  \/ \E k \in Keys : CloseExpiredChallenge(k)

Next == PvpStep \/ (LadderStep /\ UNCHANGED pvpVars) \/ AdvanceClock

Spec == Init /\ [][Next]_vars

\* Blocks keep coming; the permissionless close is called by someone.
Fairness == WF_vars(AdvanceClock) /\ \A k \in Keys : WF_vars(CloseExpiredChallenge(k))

FairSpec == Spec /\ Fairness

-----------------------------------------------------------------------------
(* Refinement *)

Target == [k \in Keys |-> challenges[k].target]

Promise == INSTANCE CommitReveal WITH target <- Target

\* A challenge keeps the promise of CommitReveal: it is fought once, seeded by
\* the first block at or after its target, whoever resolves it and when.
ImplementsCommitReveal == Promise!Spec

-----------------------------------------------------------------------------
(* Properties *)

\* The latest day on which the pair of f had fought when f was fought.
RunningDay(f) ==
  LET d == {g.day : g \in {h \in fights : h.pair = f.pair /\ h.slot <= f.slot}}
  IN CHOOSE m \in d : \A x \in d : x <= m

\* Two wallets trade rating at most once per cooldown and MaxRankedPerPair times
\* per UTC day, whichever of them challenges, with however many open challenges
\* and snapshots, and although the clock's day may step back and come again.
PairThrottled ==
  \A f \in fights : f.rated =>
    /\ \A g \in fights : g.rated /\ g.pair = f.pair /\ g # f =>
         g.slot >= f.slot + PairCooldownSlots \/ f.slot >= g.slot + PairCooldownSlots
    /\ Cardinality({g \in fights : g.rated /\ g.pair = f.pair
                                   /\ RunningDay(g) = RunningDay(f)}) <= MaxRankedPerPair

\* Every fight is tallied once for each side and nowhere else: the games of a
\* wallet are its recorded battles and its fights, and the record of a character
\* holds the fights of its owner at whose resolve it was worn, won and lost.
EveryFightCounted ==
  \A w \in Wallets : LET fought == {f \in fights : w \in f.pair} IN
    /\ stats[w].games = Len(battles[w]) + Cardinality(fought)
    /\ \A a \in Avatars : LET worn == {f \in fought : f.worn[w] = a} IN
         charRecords[<<w, a>>] = [games |-> Cardinality(worn),
                                  wins |-> Cardinality({f \in worn : f.winner = w}),
                                  losses |-> Cardinality({f \in worn : f.winner # w})]

\* A rated fight moves rating from the loser to the winner: neither side moves
\* against its result, and apart from the rounding of the two halves none is
\* created or, above the floor, destroyed.
RatingExchanged ==
  [][ \A f \in fights' \ fights : f.rated =>
        LET gain(w) == stats'[w].rating - EnsuredStats(w).rating
            loser == CHOOSE w \in f.pair : w # f.winner
        IN /\ gain(f.winner) >= 0 /\ gain(loser) <= 0
           /\ gain(f.winner) + gain(loser) <= 1 \/ stats'[loser].rating = 0
           /\ gain(f.winner) + gain(loser) >= -1 ]_vars

\* No challenge stays open for ever, even if a ghost is withdrawn.
EveryChallengeSettles ==
  \A k \in Keys : challenges[k] # NoChallenge ~> challenges[k] = NoChallenge

\* What the program says of resolve_challenge: anyone can push the fight, that is
\* what stops a loser from dodging it. So from the first block at or after the
\* target to the end of the window the fight can be forced.
PeekedFightForcible ==
  \A k \in Keys :
    /\ challenges[k] # NoChallenge
    /\ slot > challenges[k].target /\ slot <= challenges[k].target + Window
    /\ \E s \in blocks : s >= challenges[k].target
    /\ \E b \in Boards : boards[b].capacity # 0
    => ENABLED \E b \in Boards : ResolveChallenge(b, k)
=============================================================================
