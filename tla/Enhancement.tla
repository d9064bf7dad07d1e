---------------------------- MODULE Enhancement ----------------------------
(***************************************************************************)
(* Item enhancement: a scroll is bought, the scroll and the item go into   *)
(* the escrow of a commit, and a permissionless reveal rolls against the   *)
(* success table: the item comes back one level higher, or is burned.      *)
(* Owners trade, equip, scrap and burn between any two transactions.       *)
(***************************************************************************)
EXTENDS Equipment, Fees, SlotHashes

CONSTANTS
  Scrolls,        \* the mints of EnhanceScrolls
  Nonces,         \* the nonces owners choose
  MaxLevel,       \* MAX_ENHANCE_LEVEL
  RollDenominator,\* ENHANCE_ROLL_DENOMINATOR
  SuccessBps,     \* SUCCESS_BPS: per-mille chance at each level
  FeeMultiplier,  \* SCROLL_FEE_MULTIPLIER
  Roll(_, _, _),  \* the seed of commit key, item and slot hash, mod RollDenominator
  Delay,          \* REVEAL_DELAY_SLOTS
  Window,         \* COMMIT_REVEAL_WINDOW_SLOTS
  CommitHorizon   \* bound: no commit is made after this slot

Keys == Wallets \X Nonces
Idle == 0
Expired == -1
NoCommit == [target |-> Idle]
NoTracker == [level |-> 0, pending |-> FALSE]

ASSUME EnhancementAssumption ==
  /\ Scrolls \subseteq Nfts \ (Items \cup Fighters)
  /\ Escrows = Keys
  /\ MaxLevel \in Nat \ {0}
  /\ RollDenominator \in Nat \ {0}
  /\ SuccessBps \in [0..MaxLevel-1 -> 0..RollDenominator]
  /\ FeeMultiplier \in Nat \ {0}
  /\ \A k \in Keys, i \in Items, s \in 0..SlotHorizon :
       Roll(k, i, s) \in 0..RollDenominator-1
  /\ Delay \in Nat \ {0}
  /\ Window \in Nat \ {0}
  /\ CommitHorizon \in Nat

\* 300 slots against 512 entries: SlotHashes outlasts the window.
ASSUME EnhanceWindowAssumption == Window <= Retention

VARIABLES
  ecommits,     \* EnhanceCommit PDA [owner, nonce] -> account, or NoCommit
  enhancement,  \* ItemEnhancement of an item, or NoTracker
  itemLevel,    \* ArenaItem.enhance_level of the open ArenaItems
  markers,      \* scrolls whose EnhanceScrollMarker is open
  settled,      \* history: how every commit ended, what it wagered, at which level
  sold          \* history: the scrolls that were bought

enhanceVars == <<ecommits, enhancement, itemLevel, markers, settled, sold>>
vars == <<equipmentVars, registryVars, balance, clockVars, enhanceVars>>

EnhanceCommitAccount == [target : Nat \ {Idle}, item : Items, scroll : Scrolls]
ItemEnhancement == [level : 0..MaxLevel, attempts : Nat, pending : BOOLEAN]

EnhanceTypeOK ==
  /\ ecommits \in [Keys -> EnhanceCommitAccount \cup {NoCommit}]
  /\ enhancement \in [Items -> ItemEnhancement \cup {NoTracker}]
  /\ itemLevel \in [Items -> 0..MaxLevel]
  /\ markers \subseteq Scrolls
  /\ sold \subseteq Scrolls

TypeOK ==
  EquipmentTypeOK /\ RegistryTypeOK /\ FeesTypeOK /\ ClockTypeOK /\ EnhanceTypeOK

EnhanceInit ==
  /\ ecommits = [k \in Keys |-> NoCommit]
  /\ enhancement = [i \in Items |-> NoTracker]
  /\ itemLevel = [i \in Items |-> 0]
  /\ markers = {}
  /\ settled = {}
  /\ sold = {}

-----------------------------------------------------------------------------
\* The buyer gets the scroll and its proof of purchase.
MintEnhanceScroll(w, scroll) ==
  /\ scroll \notin sold
  /\ registry.layout = "current"
  /\ ChargeFee(FeeMultiplier * registry.config.fee, None)
  /\ holder' = [holder EXCEPT ![scroll] = w]
  /\ markers' = markers \cup {scroll}
  /\ sold' = sold \cup {scroll}
  /\ UNCHANGED <<arenaItem, avatar, record, diverged, registryVars, clockVars,
                 ecommits, enhancement, itemLevel, settled>>

\* The slots of the owner's own avatar only.
RequireItemNotEquipped(w, item) ==
  /\ avatar[w] # NoAvatar => \A c \in Classes : avatar[w].equipped[c] # item
  /\ record[w] # NoRecord => \A s \in Slots : record[w].slots[s] # item

\* Mutant: a fresh account is used as it is.
TrackerAsStored(item) == enhancement[item]

Tracker(item) ==
  IF enhancement[item] = NoTracker
  THEN [level |-> 0, attempts |-> 0, pending |-> FALSE]
  ELSE enhancement[item]

\* The owner holds the token of a live item and of a scroll bought here.
HoldsWager(w, item, scroll) ==
  /\ item \in arenaItem /\ holder[item] = w
  /\ scroll \in markers /\ holder[scroll] = w

CommitEnhance(k, item, scroll) ==
  /\ ecommits[k] = NoCommit
  /\ slot <= CommitHorizon
  /\ HoldsWager(k[1], item, scroll)
  /\ RequireItemNotEquipped(k[1], item)
  /\ Tracker(item).level < MaxLevel
  /\ ~Tracker(item).pending
  /\ enhancement' = [enhancement EXCEPT ![item] = [Tracker(item) EXCEPT !.pending = TRUE]]
  /\ holder' = [holder EXCEPT ![item] = k, ![scroll] = k]
  /\ ecommits' = [ecommits EXCEPT ![k] =
       [target |-> slot + Delay, item |-> item, scroll |-> scroll]]
  /\ UNCHANGED <<arenaItem, avatar, record, diverged, registryVars, balance, clockVars,
                 itemLevel, markers, settled, sold>>

\* Mutant: the marker of the scroll stays open.
SettleKeepingMarker(k, entropy) ==
  /\ ecommits' = [ecommits EXCEPT ![k] = NoCommit]
  /\ settled' = settled \cup
       {[key |-> k, target |-> ecommits[k].target, entropy |-> entropy,
         item |-> ecommits[k].item, scroll |-> ecommits[k].scroll,
         level |-> enhancement[ecommits[k].item].level]}
  /\ UNCHANGED markers

\* Mutant: an expired commit account is not closed.
SettleKeepingExpired(k, entropy) ==
  /\ ecommits' = [ecommits EXCEPT ![k] = IF entropy = Expired THEN @ ELSE NoCommit]
  /\ markers' = markers \ {ecommits[k].scroll}
  /\ settled' = settled \cup
       {[key |-> k, target |-> ecommits[k].target, entropy |-> entropy,
         item |-> ecommits[k].item, scroll |-> ecommits[k].scroll,
         level |-> enhancement[ecommits[k].item].level]}

\* The commit account closes, and with it the marker of its scroll.
Settle(k, entropy) ==
  /\ ecommits' = [ecommits EXCEPT ![k] = NoCommit]
  /\ markers' = markers \ {ecommits[k].scroll}
  /\ settled' = settled \cup
       {[key |-> k, target |-> ecommits[k].target, entropy |-> entropy,
         item |-> ecommits[k].item, scroll |-> ecommits[k].scroll,
         level |-> enhancement[ecommits[k].item].level]}

\* Mutant: the chance of the level to come.
SuccessAtNextLevel(k, entropy) ==
  LET item == ecommits[k].item
      level == enhancement[item].level + 1
  IN level < MaxLevel /\ Roll(k, item, entropy) < SuccessBps[level]

Success(k, entropy) ==
  LET item == ecommits[k].item IN
    Roll(k, item, entropy) < SuccessBps[enhancement[item].level]

\* Mutant: the copy of the level on the item is forgotten.
RaiseTrackerOnly(item, owner, scroll) ==
  /\ enhancement' = [enhancement EXCEPT ![item] =
       [level |-> @.level + 1, attempts |-> @.attempts + 1, pending |-> FALSE]]
  /\ holder' = [holder EXCEPT ![item] = owner, ![scroll] = None]
  /\ UNCHANGED <<arenaItem, itemLevel>>

RaiseLevel(item, owner, scroll) ==
  /\ enhancement' = [enhancement EXCEPT ![item] =
       [level |-> @.level + 1, attempts |-> @.attempts + 1, pending |-> FALSE]]
  /\ itemLevel' = [itemLevel EXCEPT ![item] = enhancement[item].level + 1]
  /\ holder' = [holder EXCEPT ![item] = owner, ![scroll] = None]
  /\ UNCHANGED arenaItem

\* Mutant: the scroll is not burned.
DestroyItemOnly(item, scroll) ==
  /\ enhancement' = [enhancement EXCEPT ![item] = NoTracker]
  /\ holder' = [holder EXCEPT ![item] = None]
  /\ arenaItem' = arenaItem \ {item}
  /\ UNCHANGED itemLevel

Destroy(item, scroll) ==
  /\ enhancement' = [enhancement EXCEPT ![item] = NoTracker]
  /\ holder' = [holder EXCEPT ![item] = None, ![scroll] = None]
  /\ arenaItem' = arenaItem \ {item}
  /\ UNCHANGED itemLevel

\* Mutant: the window has no end.
PastTarget(t) == slot > t

InRevealWindow(t) == slot > t /\ slot <= t + Window

\* Both tokens are still in the escrow of the commit, with their accounts.
EscrowIntact(k) ==
  LET c == ecommits[k] IN
  /\ enhancement[c.item] # NoTracker /\ c.scroll \in markers
  /\ holder[c.item] = k /\ holder[c.scroll] = k

\* What a reveal requires of the commit, its escrow and the chain.
CanReveal(k, s) ==
  LET c == ecommits[k] IN
  /\ c # NoCommit
  /\ InRevealWindow(c.target)
  /\ c.item \in arenaItem
  /\ EscrowIntact(k)
  /\ enhancement[c.item].level < MaxLevel
  /\ SlothashAtOrAfter(s, Retained(blocks), c.target)

\* Anyone may reveal.
RevealEnhance(k) ==
  LET c == ecommits[k] IN
  /\ \E s \in blocks :
       /\ CanReveal(k, s)
       /\ Settle(k, s)
       /\ \/ Success(k, s) /\ RaiseLevel(c.item, k[1], c.scroll)
          \/ ~Success(k, s) /\ Destroy(c.item, c.scroll)
  /\ UNCHANGED <<avatar, record, diverged, registryVars, balance, clockVars, sold>>

CanClose(k) ==
  /\ ecommits[k] # NoCommit
  /\ slot > ecommits[k].target + Window
  /\ EscrowIntact(k)

\* Anyone may close an expired commit; the item goes back, the scroll burns.
CloseExpiredEnhanceCommit(k) ==
  LET c == ecommits[k] IN
  /\ CanClose(k)
  /\ Settle(k, Expired)
  /\ enhancement' = [enhancement EXCEPT ![c.item].pending = FALSE]
  /\ holder' = [holder EXCEPT ![c.item] = k[1], ![c.scroll] = None]
  /\ UNCHANGED <<arenaItem, avatar, record, diverged, registryVars, balance, clockVars,
                 itemLevel, sold>>

-----------------------------------------------------------------------------
(* The composed system *)

EquipmentStep ==
  EquipmentNext /\ UNCHANGED <<registryVars, balance, clockVars, enhanceVars>>

AdvanceClock ==
  NewBank /\ UNCHANGED <<equipmentVars, registryVars, balance, enhanceVars>>

Governance ==
  RegistryNext /\ UNCHANGED <<equipmentVars, balance, clockVars, enhanceVars>>

EnhanceNext ==
  \/ \E w \in Wallets, scroll \in Scrolls : MintEnhanceScroll(w, scroll)
  \/ \E k \in Keys, i \in Items, scroll \in Scrolls : CommitEnhance(k, i, scroll)
  \/ \E k \in Keys : RevealEnhance(k) \/ CloseExpiredEnhanceCommit(k)

Next == EnhanceNext \/ EquipmentStep \/ Governance \/ AdvanceClock

\* Scrolls are not minted yet; the items and fighters are.
HoldersInit ==
  \E h \in [Nfts \ Scrolls -> Wallets] :
    holder = [n \in Nfts |-> IF n \in Scrolls THEN None ELSE h[n]]

Init ==
  /\ HoldersInit
  /\ arenaItem = Items
  /\ avatar = [w \in Wallets |-> NoAvatar]
  /\ record = [w \in Wallets |-> NoRecord]
  /\ diverged = {}
  /\ RegistryInit
  /\ balance = InitialBalance
  /\ ClockInit
  /\ EnhanceInit

Spec == Init /\ [][Next]_vars

\* Blocks keep coming; the permissionless close is called by someone.
Fairness ==
  WF_vars(AdvanceClock) /\ \A k \in Keys : WF_vars(CloseExpiredEnhanceCommit(k))

FairSpec == Spec /\ Fairness

-----------------------------------------------------------------------------
(* Refinement *)

Target == [k \in Keys |-> ecommits[k].target]

Outcomes == {[key |-> r.key, target |-> r.target, entropy |-> r.entropy] : r \in settled}

Promise == INSTANCE CommitReveal WITH target <- Target, settled <- Outcomes

\* An enhancement attempt is a commit of CommitReveal: one roll, of the first
\* block at or after the target, whoever reveals it and when.
ImplementsCommitReveal == Promise!Spec

-----------------------------------------------------------------------------
(* Properties *)

\* The escrow is exact. An open commit has both its tokens, its item is live
\* and locked by a tracker, its scroll still has its proof of purchase, so
\* nothing the owner does can make the reveal or the close fail; and a token
\* in escrow or a locked tracker always has the commit that will release it.
EscrowMatchesCommits ==
  /\ \A k \in Keys : ecommits[k] # NoCommit =>
       LET c == ecommits[k] IN
         /\ holder[c.item] = k /\ holder[c.scroll] = k
         /\ c.item \in arenaItem /\ c.scroll \in markers
         /\ enhancement[c.item] # NoTracker /\ enhancement[c.item].pending
         /\ enhancement[c.item].level < MaxLevel
  /\ \A n \in Nfts : holder[n] \in Escrows =>
       /\ ecommits[holder[n]] # NoCommit
       /\ n \in {ecommits[holder[n]].item, ecommits[holder[n]].scroll}
  /\ \A i \in Items : enhancement[i].pending => holder[i] \in Escrows

\* No owner action saves a peeked loss: from the first block at or after the
\* target to the end of the window anyone can force the outcome through.
PeekedOutcomeForcible ==
  \A k \in Keys :
    LET c == ecommits[k] IN
      /\ c # NoCommit
      /\ slot > c.target /\ slot <= c.target + Window
      /\ \E b \in blocks : b >= c.target
      => ENABLED RevealEnhance(k)

\* The wagered item is in none of its owner's slots for as long as the attempt
\* is open, not only at the commit that checks it: gear cannot be burned while
\* its owner wears it.
WageredNotEquipped ==
  \A k \in Keys : ecommits[k] # NoCommit => RequireItemNotEquipped(k[1], ecommits[k].item)

\* The two copies of the level agree, and every level was earned: it is the
\* number of attempts revealed on the item, each with a scroll of its own.
LevelsEarned ==
  \A i \in arenaItem :
    LET revealed == {r \in settled : r.item = i /\ r.entropy # Expired} IN
      /\ itemLevel[i] = enhancement[i].level
      /\ itemLevel[i] = Cardinality({r.scroll : r \in revealed})

\* A scroll is one ticket: it was paid for, it settles at most one attempt, and
\* after that it neither exists nor proves a purchase.
ScrollSpentOnce ==
  \A r1 \in settled :
    /\ r1.scroll \in sold
    /\ holder[r1.scroll] = None /\ r1.scroll \notin markers
    /\ \A r2 \in settled : r1.scroll = r2.scroll => r1 = r2

\* An enhancement never destroys an item whose attempt was safe, and an expired
\* attempt never costs the item.
SafeAttemptsKeepItem ==
  [][ \A i \in Items : holder[i] \in Escrows /\ i \notin arenaItem' =>
        /\ SuccessBps[enhancement[i].level] < RollDenominator
        /\ slot <= ecommits[holder[i]].target + Window ]_vars

\* No attempt stays open for ever: the item is released or destroyed.
EveryAttemptSettles == \A k \in Keys : ecommits[k] # NoCommit ~> ecommits[k] = NoCommit

\* What the EnhanceCommit account says of its escrow: closing an expired commit
\* returns the scroll.
ExpiryReturnsScroll ==
  \A r \in settled : r.entropy = Expired => holder[r.scroll] # None
=============================================================================
