---------------------------- MODULE Leaderboard ----------------------------
(***************************************************************************)
(* The PvE half of arena-leaderboard: boards (bounded min-heaps of player  *)
(* ratings), per-wallet stats with an optional session key, and the        *)
(* anti-farming rate limit every recorded battle consumes, whoever signs.  *)
(* Streaks and the texts of a profile are left out.                        *)
(***************************************************************************)
EXTENDS Pubkeys, SlotHashes

CONSTANTS
  Boards,             \* leaderboard accounts clients may create
  Capacities,         \* capacities they ask for
  SessionKeys,        \* burner keys
  MinCapacity, MaxCapacity,
  StartingRating,     \* STARTING_RATING
  CooldownSlots,      \* MIN_BATTLE_COOLDOWN_SLOTS
  MaxBattlesPerDay,   \* MAX_BATTLES_PER_UTC_DAY
  DayHorizon          \* bound: the last UTC day of a behaviour

ASSUME LeaderboardAssumption ==
  /\ None \notin Boards \cup SessionKeys
  /\ Capacities \subseteq Nat
  /\ MinCapacity \in Nat \ {0} /\ MaxCapacity \in Nat
  /\ StartingRating \in Nat
  /\ CooldownSlots \in Nat \ {0}
  /\ MaxBattlesPerDay \in Nat \ {0}
  /\ DayHorizon \in Nat \ {0}

VARIABLES
  day,        \* UTC day of the Clock; it may step back
  boards,     \* leaderboard account -> capacity (0: not created) and heap
  stats,      \* PlayerStats of a wallet, or NoStats
  limiter,    \* BattleRateLimit of a wallet, or NoLimiter
  profiled,   \* wallets whose stats carry a profile
  battles,    \* history: wallet -> the slot and day of its recorded battles
  ratedOn     \* history: the board that saw the last change of a rating

ladderVars == <<boards, stats, limiter, profiled, battles, ratedOn>>
leaderboardVars == <<clockVars, day, ladderVars>>

NoStats == [games |-> 0]
NoLimiter == [battlesToday |-> 0]

PlayerStats == [rating : Nat, wins : Nat, losses : Nat, games : Nat,
                session : SessionKeys \cup {None}]
BattleRateLimit == [recorded : BOOLEAN, lastSlot : Nat, day : 0..DayHorizon,
                    battlesToday : 0..MaxBattlesPerDay]
HeapEntry == [player : Wallets, rating : Nat, wins : Nat]
Board == [capacity : Nat, heap : Seq(HeapEntry)]

LeaderboardTypeOK ==
  /\ ClockTypeOK
  /\ day \in 1..DayHorizon
  /\ boards \in [Boards -> Board]
  /\ stats \in [Wallets -> PlayerStats \cup {NoStats}]
  /\ limiter \in [Wallets -> BattleRateLimit \cup {NoLimiter}]
  /\ profiled \subseteq Wallets
  /\ battles \in [Wallets -> Seq([slot : Nat, day : 1..DayHorizon])]
  /\ ratedOn \in [Wallets -> Boards \cup {None}]

LadderInit ==
  /\ boards = [b \in Boards |-> [capacity |-> 0, heap |-> << >>]]
  /\ stats = [w \in Wallets |-> NoStats]
  /\ limiter = [w \in Wallets |-> NoLimiter]
  /\ profiled = {}
  /\ battles = [w \in Wallets |-> << >>]
  /\ ratedOn = [w \in Wallets |-> None]

LeaderboardInit == ClockInit /\ day \in 1..DayHorizon /\ LadderInit

-----------------------------------------------------------------------------
(* The heap, at positions 1..Len(h). A sift moves the entry at one position *)
(* until it fits: its loop state is the heap and that position.             *)

Sifting == [heap : Seq(HeapEntry), at : Nat]

SwapWith(s, j) ==
  [heap |-> [s.heap EXCEPT ![s.at] = s.heap[j], ![j] = s.heap[s.at]], at |-> j]

SiftUp[s \in Sifting] ==
  LET parent == s.at \div 2 IN
  IF s.at \in 2..Len(s.heap) /\ s.heap[s.at].rating < s.heap[parent].rating
  THEN SiftUp[SwapWith(s, parent)]
  ELSE s

\* Mutant: the left child is taken whenever it is smaller than i.
LeftFirst(h, i) ==
  CASE 2*i <= Len(h) /\ h[2*i].rating < h[i].rating -> 2*i
    [] 2*i + 1 <= Len(h) /\ h[2*i + 1].rating < h[i].rating
         /\ h[2*i].rating >= h[i].rating -> 2*i + 1
    [] OTHER -> i

\* The position of the smallest of i and its children; the left of two equals.
SmallestAt(h, i) ==
  LET family == {j \in {i, 2*i, 2*i + 1} : j <= Len(h)}
      least == {j \in family : \A m \in family : h[j].rating <= h[m].rating}
  IN CHOOSE j \in least : \A m \in least : j <= m

SiftDown[s \in Sifting] ==
  LET smallest == SmallestAt(s.heap, s.at) IN
  IF s.at \in DOMAIN s.heap /\ smallest # s.at
  THEN SiftDown[SwapWith(s, smallest)]
  ELSE s

OnHeap(h, p) == \E i \in DOMAIN h : h[i].player = p
PositionOf(h, p) == CHOOSE i \in DOMAIN h : h[i].player = p

BeatsRoot(h, e) == e.rating > h[1].rating

\* e is written at position i, from where it is sifted.
Placed(h, i, e) == [heap |-> [h EXCEPT ![i] = e], at |-> i]

\* Mutant: the last entry of the vector is overwritten.
LastReplaced(h, e) == SiftUp[Placed(h, Len(h), e)].heap

\* The weakest entry makes room for e.
RootReplaced(h, e) == SiftDown[Placed(h, 1, e)].heap

\* Mutant: a member is updated only when its rating rises.
UpsertOfRises(board, e) ==
  LET h == board.heap
      i == PositionOf(h, e.player)
      fresh == IF BeatsRoot(h, e) THEN RootReplaced(h, e) ELSE h
  IN [board EXCEPT !.heap =
       IF OnHeap(h, e.player)
       THEN IF e.rating > h[i].rating THEN SiftDown[Placed(h, i, e)].heap ELSE h
       ELSE IF Len(h) < board.capacity
            THEN SiftUp[[heap |-> Append(h, e), at |-> Len(h) + 1]].heap
            ELSE fresh]

\* A member is rated anew; a newcomer is pushed, or takes the root it beats.
Upsert(board, e) ==
  LET h == board.heap IN
  [board EXCEPT !.heap =
     CASE OnHeap(h, e.player) -> SiftDown[SiftUp[Placed(h, PositionOf(h, e.player), e)]].heap
       [] ~OnHeap(h, e.player) /\ Len(h) < board.capacity ->
            SiftUp[[heap |-> Append(h, e), at |-> Len(h) + 1]].heap
       [] ~OnHeap(h, e.player) /\ Len(h) >= board.capacity ->
            IF BeatsRoot(h, e) THEN RootReplaced(h, e) ELSE h]

-----------------------------------------------------------------------------
(* Instructions *)

InitLeaderboard(b, capacity) ==
  /\ boards[b].capacity = 0
  /\ capacity \in MinCapacity..MaxCapacity
  /\ boards' = [boards EXCEPT ![b] = [capacity |-> capacity, heap |-> << >>]]
  /\ UNCHANGED <<clockVars, day, stats, limiter, profiled, battles, ratedOn>>

EnsuredStats(p) ==
  IF stats[p] = NoStats
  THEN [rating |-> StartingRating, wins |-> 0, losses |-> 0, games |-> 0, session |-> None]
  ELSE stats[p]

EnsuredLimiter(p) ==
  IF limiter[p] = NoLimiter
  THEN [recorded |-> FALSE, lastSlot |-> 0, day |-> 0, battlesToday |-> 0]
  ELSE limiter[p]

RegisterSessionKey(p, key) ==
  /\ stats' = [stats EXCEPT ![p] = [EnsuredStats(p) EXCEPT !.session = key]]
  /\ limiter' = [limiter EXCEPT ![p] = EnsuredLimiter(p)]
  /\ UNCHANGED <<clockVars, day, boards, profiled, battles, ratedOn>>

RevokeSessionKey(p) ==
  /\ stats[p] # NoStats
  /\ stats' = [stats EXCEPT ![p].session = None]
  /\ UNCHANGED <<clockVars, day, boards, limiter, profiled, battles, ratedOn>>

\* Mutant: any other day brings a fresh quota.
AnotherDay(l) == ~l.recorded \/ day # l.day

NewDay(l) == ~l.recorded \/ day > l.day

\* A fresh quota comes only with a day later than any the player battled on.
BattlesToday(l) == IF NewDay(l) THEN 0 ELSE l.battlesToday

WithinLimit(l) ==
  /\ l.recorded => slot >= l.lastSlot + CooldownSlots
  /\ BattlesToday(l) < MaxBattlesPerDay

Consume(p) ==
  LET l == EnsuredLimiter(p) IN
  /\ WithinLimit(l)
  /\ limiter' = [limiter EXCEPT ![p] =
       [recorded |-> TRUE, lastSlot |-> slot, day |-> IF NewDay(l) THEN day ELSE l.day,
        battlesToday |-> BattlesToday(l) + 1]]

RatingDelta(win, bot) ==
  CASE win /\ ~bot -> 25 [] ~win /\ ~bot -> -20 [] win /\ bot -> 10 [] ~win /\ bot -> -15

\* RATING_FLOOR is 0.
ApplyRatingDelta(rating, delta) == IF rating + delta < 0 THEN 0 ELSE rating + delta

\* The stats after one more game.
Tallied(s, won, delta) ==
  [s EXCEPT !.games = @ + 1,
            !.wins = IF won THEN @ + 1 ELSE @,
            !.losses = IF won THEN @ ELSE @ + 1,
            !.rating = ApplyRatingDelta(@, delta)]

EntryOf(p, s) == [player |-> p, rating |-> s.rating, wins |-> s.wins]

\* The wallet or its session key reports a battle to any board.
RecordBattle(b, p, signer, win, bot) ==
  LET s == Tallied(EnsuredStats(p), win, RatingDelta(win, bot)) IN
  /\ boards[b].capacity # 0
  /\ signer \in {p, EnsuredStats(p).session}
  /\ Consume(p)
  /\ stats' = [stats EXCEPT ![p] = s]
  /\ boards' = [boards EXCEPT ![b] = Upsert(boards[b], EntryOf(p, s))]
  /\ battles' = [battles EXCEPT ![p] = Append(@, [slot |-> slot, day |-> day])]
  /\ ratedOn' = [ratedOn EXCEPT ![p] = b]
  /\ UNCHANGED <<clockVars, day, profiled>>

SetProfile(b, p) ==
  /\ stats[p] # NoStats
  /\ OnHeap(boards[b].heap, p)
  /\ profiled' = profiled \cup {p}
  /\ UNCHANGED <<clockVars, day, boards, stats, limiter, battles, ratedOn>>

\* The next bank; its timestamp may fall on the day before.
NextBank ==
  /\ NewBank
  /\ day' \in {d \in 1..DayHorizon : d - day \in {-1, 0, 1}}

LadderStep ==
  \/ \E b \in Boards, c \in Capacities : InitLeaderboard(b, c)
  \/ \E p \in Wallets, key \in SessionKeys : RegisterSessionKey(p, key)
  \/ \E p \in Wallets : RevokeSessionKey(p)
  \/ \E b \in Boards, p \in Wallets, s \in Wallets \cup SessionKeys, win, bot \in BOOLEAN :
       RecordBattle(b, p, s, win, bot)
  \/ \E b \in Boards, p \in Wallets : SetProfile(b, p)

LeaderboardNext == LadderStep \/ (NextBank /\ UNCHANGED ladderVars)

LeaderboardSpec == LeaderboardInit /\ [][LeaderboardNext]_leaderboardVars

-----------------------------------------------------------------------------
(* Refinement *)

AsSet(h) == {h[i] : i \in DOMAIN h}

\* A board, and what a player's stats come to, as TopBoards sees them.
View(board) == [capacity |-> board.capacity, entries |-> AsSet(board.heap)]
ScoreOf(s) == [rating |-> s.rating, wins |-> s.wins, games |-> s.games]

TopView == [b \in Boards |-> View(boards[b])]
Scores == [w \in Wallets |-> ScoreOf(EnsuredStats(w))]

Top == INSTANCE TopBoards WITH Players <- Wallets, top <- TopView, score <- Scores

\* Every heap update is one of the abstract boards: the sifts lose and duplicate
\* no entry, an entry that is written is that of the player who played, as rated
\* after the game, a newcomer only ever replaces a weakest entry it strictly beats,
\* and a member is never displaced by its own update.
ImplementsTopBoards == Top!Spec

-----------------------------------------------------------------------------
(* Properties *)

\* The root is the weakest entry of a board, as upsert assumes when it decides
\* whom to evict: no parent is rated above a child, after any sequence of wins,
\* losses and evictions that move OTHER players' entries around.
HeapOrder ==
  \A b \in Boards : \A i \in 2..Len(boards[b].heap) :
    boards[b].heap[i \div 2].rating <= boards[b].heap[i].rating

\* A board shows its members as they are: an entry carries the rating of the
\* player's stats unless a later battle or fight did not report to this board,
\* and whoever reported to it last is only missing if it is full.
EntriesCurrent ==
  \A b \in Boards, p \in Wallets : ratedOn[p] = b =>
    LET h == boards[b].heap IN
    IF OnHeap(h, p)
    THEN h[PositionOf(h, p)].rating = stats[p].rating
    ELSE Len(h) = boards[b].capacity

\* The latest day among the first n battles of p: the day they are charged to
\* once the clock has stepped back.
ChargedDay(p, n) == LET d == {battles[p][i].day : i \in 1..n}
                    IN CHOOSE m \in d : \A x \in d : x <= m

\* A wallet has at most one battle per cooldown and MaxBattlesPerDay per UTC
\* day, whichever keys sign, however often the session key is rotated, however
\* many boards the battles go to, and although the clock's day may step back
\* and come again.
QuotaKept ==
  \A p \in Wallets :
    /\ \A i, j \in DOMAIN battles[p] : i < j =>
         battles[p][j].slot >= battles[p][i].slot + CooldownSlots
    /\ \A d \in 1..DayHorizon :
         Cardinality({n \in DOMAIN battles[p] : ChargedDay(p, n) = d}) <= MaxBattlesPerDay
=============================================================================
