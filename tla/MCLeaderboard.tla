--------------------------- MODULE MCLeaderboard ---------------------------
(***************************************************************************)
(* Instances of Leaderboard.  Behaviours start with no account at all, or  *)
(* with a crowd: a board of four, full or with room, in any heap order.    *)
(***************************************************************************)
EXTENDS Leaderboard

CONSTANTS Alice, Bob, Cleo, Dina, Eve, Burner, Main, Side

MCWallets == {Alice, Bob, Cleo, Dina, Eve}
Members == {Bob, Cleo, Dina, Eve}
Regulars == {Alice}

\* Apart by less, as much, and more than one battle moves a rating.
Ratings == {0, 10, 30}

\* Members recorded one battle each, long enough ago to have a fresh quota.
CrowdInit ==
  /\ slot = SlotHorizon
  /\ blocks = 0 .. SlotHorizon - 1
  /\ day = DayHorizon
  /\ \E r \in [Wallets -> Ratings], capacity \in {4, 5} : LET h == <<Bob, Cleo, Dina, Eve>> IN
       /\ \A i \in 2..4 : r[h[i \div 2]] <= r[h[i]]
       /\ boards = [b \in Boards |->
            IF b = Main
            THEN [capacity |-> capacity, heap |->
                    [i \in 1..4 |-> [player |-> h[i], rating |-> r[h[i]], wins |-> 1]]]
            ELSE [capacity |-> 0, heap |-> << >>]]
       /\ stats = [w \in Wallets |->
            [rating |-> r[w], wins |-> 1, losses |-> 0, games |-> 1, session |-> None]]
  /\ limiter = [w \in Wallets |->
       [recorded |-> TRUE, lastSlot |-> 1, day |-> 1, battlesToday |-> 1]]
  /\ profiled = {}
  /\ battles = [w \in Wallets |-> <<[slot |-> 1, day |-> 1]>>]
  /\ ratedOn = [w \in Wallets |-> IF w \in Members THEN Main ELSE None]

\* Bound: the crowd plays two battles.
CrowdMayPlay == Cardinality({w \in Wallets : Len(battles[w]) > 1}) < 2

\* Without a crowd only the regulars play.
MCNext ==
  \/ \E b \in Boards, c \in Capacities : stats[Bob] = NoStats /\ InitLeaderboard(b, c)
  \/ \E p \in Regulars, key \in SessionKeys : RegisterSessionKey(p, key)
  \/ \E p \in Regulars : RevokeSessionKey(p)
  \/ \E b \in Boards, p \in Wallets, s \in Wallets \cup SessionKeys, win, bot \in BOOLEAN :
       /\ IF stats[Bob] = NoStats THEN p \in Regulars ELSE CrowdMayPlay
       /\ RecordBattle(b, p, s, win, bot)
  \/ \E b \in Boards, p \in Regulars : SetProfile(b, p)
  \/ (NextBank /\ UNCHANGED ladderVars)

MCSpec == (LeaderboardInit \/ CrowdInit) /\ [][MCNext]_leaderboardVars
=============================================================================
