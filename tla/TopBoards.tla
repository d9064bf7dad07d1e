----------------------------- MODULE TopBoards -----------------------------
(***************************************************************************)
(* What the heap of arena-leaderboard promises, without the heap: a board  *)
(* is a set of at most capacity entries, one per player.  Players battle   *)
(* alone or fight each other, and every entry that is written shows the    *)
(* score its player has after the game.  A newcomer to a full board takes  *)
(* the place of a weakest entry, and only of an entry strictly weaker; an  *)
(* incumbent is never displaced in any other way.                          *)
(***************************************************************************)
EXTENDS Integers, FiniteSets

CONSTANTS
  Boards,     \* leaderboard accounts
  Players,    \* wallets with stats
  MinCapacity, MaxCapacity

VARIABLES
  top,    \* board -> its capacity (0: not created) and its entries
  score   \* player -> rating, wins and games so far

topVars == <<top, score>>

Entry == [player : Players, rating : Nat, wins : Nat]
Score == [rating : Nat, wins : Nat, games : Nat]

\* A behaviour starts with no boards, or with boards already in play.
Legal(board) ==
  /\ board.entries \subseteq Entry
  /\ Cardinality(board.entries) <= board.capacity
  /\ \A e, f \in board.entries : e.player = f.player => e = f

Init ==
  /\ DOMAIN top = Boards
  /\ \A b \in Boards : top[b].capacity \in {0} \cup MinCapacity..MaxCapacity /\ Legal(top[b])
  /\ score \in [Players -> Score]

Open(b, capacity) ==
  /\ top[b].capacity = 0
  /\ capacity \in MinCapacity..MaxCapacity
  /\ top' = [top EXCEPT ![b].capacity = capacity]
  /\ UNCHANGED score

Weakest(E) == {e \in E : \A f \in E : e.rating <= f.rating}

\* The entries a board may have once e is offered to it.
Offered(E, capacity, e) ==
  LET others == {f \in E : f.player # e.player} IN
  IF others # E \/ Cardinality(E) < capacity THEN {others \cup {e}}
  ELSE IF \E w \in Weakest(E) : w.rating < e.rating
  THEN {(E \ {w}) \cup {e} : w \in Weakest(E)}
  ELSE {E}

\* The players of a game, and nobody else, have one game more; what it does to
\* their ratings is not the business of a board.
Played(players) ==
  /\ score' \in [Players -> Score]
  /\ \A p \in Players :
       IF p \in players THEN score'[p].games = score[p].games + 1 ELSE score'[p] = score[p]

\* The entry p deserves after the game.
EntryOf(p) == [player |-> p, rating |-> score'[p].rating, wins |-> score'[p].wins]

\* One player's battle is reported to the board.
Battle(b, p) ==
  /\ top[b].capacity # 0
  /\ Played({p})
  /\ \E E \in Offered(top[b].entries, top[b].capacity, EntryOf(p)) :
       top' = [top EXCEPT ![b].entries = E]

\* A fight that is not rated, or a fighter with too few games, is not reported.
MaybeOffered(E, capacity, e) == {E} \cup Offered(E, capacity, e)

\* A fight is reported for both fighters, the challenger c first. The second may
\* displace the entry the first has just got, but nobody else who is not weakest.
Fight(b, c, o) ==
  /\ c # o
  /\ top[b].capacity # 0
  /\ Played({c, o})
  /\ \E E \in MaybeOffered(top[b].entries, top[b].capacity, EntryOf(c)) :
       \E F \in MaybeOffered(E, top[b].capacity, EntryOf(o)) :
         top' = [top EXCEPT ![b].entries = F]

Next ==
  \E b \in Boards :
    \/ \E capacity \in MinCapacity..MaxCapacity : Open(b, capacity)
    \/ \E p \in Players : Battle(b, p)
    \/ \E c, o \in Players : Fight(b, c, o)

Spec == Init /\ [][Next]_topVars
=============================================================================
