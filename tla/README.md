# Verification of Solana Ekza Arena

TLA+ models, TLC runs and TLAPS proofs for the two on-chain programs of this
repository: `programs/solana-ekza-arena` (paid mints, items, avatars,
enhancement, the Stellar bridge) and `programs/arena-leaderboard` (boards, rate
limits, the asynchronous PvP ladder). Paths below are relative to the
repository root; `A/` is `programs/solana-ekza-arena/src`, `L/` is
`programs/arena-leaderboard/src`.

## 1. The system

Every instruction is one atomic Solana transaction: it either makes all its
changes or fails and makes none. The hard behaviour is between transactions.
Wallets, keepers, governance, the upgrade authority, the Stellar program and
the token program act in any order; blocks come at slots of which some are
skipped; `SlotHashes` forgets; the clock's calendar day may step back; and an
account that was closed can be created again at the same address.

| Component | State | Operations | Touches |
|---|---|---|---|
| Registry and governance | `ArenaRegistry` PDA (absent, legacy layout, current), the program's upgrade authority | configure, rotate, migrate v1, register a card | index counter used by every mint, fee economics used by commit and scroll purchase |
| Protocol fees | lamports of treasury, sink and release vaults | split and transfers inside `commit_mint` and `mint_enhance_scroll` | registry, releases |
| Commit-reveal | `Clock::slot`, `SlotHashes`, one commit PDA per key and nonce | commit, reveal, close expired (three triples) | everything random |
| Paid minting | `MintCommit`, NFTs with `ArenaItem` or `ArenaAssetData` | commit, `reveal_mint`, `reveal_avatar_mint`, close, `mint_arena_item` | registry, fees, Stellar releases |
| Avatars and equipment | `PlayerAvatar` (4 legacy slots), `EquipmentRecord` (7 slots), token holders | create, customize, activate, equip and unequip (two generations), scrap | NFTs that can be sold or burned at any time |
| Item enhancement | `EnhanceCommit`, `ItemEnhancement`, `EnhanceScrollMarker`, escrow token accounts | buy scroll, commit, reveal, close | fees, equipment, the level stored on the item |
| Leaderboard (PvE) | `Leaderboard` heap, `PlayerStats`, `BattleRateLimit` | init, session key, record battle, profile | clock day |
| PvP ladder | `ArenaSnapshot`, `Challenge`, `CharRecord`, `PairCooldown` | publish, unpublish, commit, resolve, close | stats and boards of the PvE half, commit-reveal |
| Elo | none (fixed-point function) | `elo_delta` | PvP ladder |
| Stellar bridge | the card, `StellarArenaAssetLink`, `StellarReleaseLink`; on the Stellar side `Release` and `ReleaseDeployment` | `register_arena_asset_from_stellar` with its two CPIs | registry counter; the releases mints are paid for |
| Item rolls and fighter derivation | none (a roll goes on inside one reveal) | `roll_item_capped`, `roll_fighter` | the reveals; what is fought with |
| Battle simulation | none (pure function) | `resolve_onchain` | resolve of the PvP ladder |
| Entry points, errors, scripts, tests | none of their own | dispatch; client scripts | |

What makes each correct:

- **Registry**: no index is handed out twice, through migration or creation by
  a public instruction; economics are never half set; governance changes hands
  only by its own signature after the first key.
- **Fees**: what the destinations receive is what was charged, and nobody is
  left below rent exemption.
- **Commit-reveal**: one outcome per commit, and the same one whoever reveals
  and whenever; a timely reveal is never refused; no commit stays open for ever.
- **Minting**: the creator that is shown and paid royalties is the one whose
  vault got the fee; fighter symbols and fighter accounts go together; what
  was paid for can be revealed.
- **Equipment**: a mint in one slot at most, in a slot of its class; the two
  views agree after v2 instructions.
- **Enhancement**: the escrow matches the open commits exactly; a known loss can
  be forced; levels are earned; a scroll is spent once.
- **Leaderboard**: the heap is a bounded set of best-so-far entries; a wallet
  never exceeds its daily quota.
- **Stellar bridge**: a release published again and again has one newest card on
  which its link and its deployment record agree, and one first card.
- **Rolls**: whatever is drawn, an item or fighter stays within its tables.
- **Battle simulation**: exactly one winner; the corner does not matter; a
  better build is never worse.
- **PvP ladder**: a pair never trades rating more often than the throttle
  allows; every fight is counted once on every account that counts it; rating
  moves from loser to winner.

`PROJECT.json` lists the hazards behind these, each at its line.

## 2. The modules

    Pubkeys                   keys and the empty key
      Registry                ArenaRegistry and governance
        StellarBridge         cards published from Stellar releases
        Fees                  fee split and lamports
          MintCommit  --------------------.
          Enhancement ----(+Equipment)    |  each refines
    SlotHashes   used by all four         |  CommitReveal
      CommitReveal  <---------------------|
      Leaderboard (refines TopBoards)     |
        PvpLadder (+ Elo) ----------------'
    Rolls, BattleSim          composed in MCCombat; BattleSim decides
                              the fights of MCPvpLadder

| Module | Models | State to code |
|---|---|---|
| `Pubkeys` | `Pubkey::default()` against real keys | `None` is the empty key |
| `Registry` | A/handlers.rs `configure_registry`, `rotate_registry_authority`, `migrate_registry_v1`, the counter of every register and mint | `registry.layout` is absent, legacy or current: `init_if_needed` and the two account sizes; `upgradeAuthority` is the loader's ProgramData; `signer`, `issued` are history |
| `Fees` | `fee_slice`, the rent checks and the transfers | `balance` of accounts and release vaults; dust goes to the platform as in the code |
| `StellarBridge` | `register_arena_asset_from_stellar` with its two CPIs, over Registry, and what the Stellar program's callers may do to a release directly | `stellarLink` by card index, `releaseLink` and `deployment` by release; `release[r].linked` is `linked_avatar_data`; `Elsewhere` is a value the Arena did not write |
| `SlotHashes` | the clock, skipped slots, the sysvar, both programs' `slothash_at_or_after_data` | `blocks` is the whole chain, `Retained(blocks)` what the sysvar holds; a hash is named by its slot |
| `CommitReveal` | the abstract promise of the three instruction triples | `target[k]` is the open commit of a PDA key; `settled` is history; it sees the whole chain |
| `MintCommit` | paid minting with everything it composes | `commits[k]` is the `MintCommit` PDA of minter and nonce; `releases` is external |
| `Equipment` | both equip generations, activation, card swap, scrap, trade | `holder` is where a supply-1 token is; `avatar`, `record` are the two views |
| `Enhancement` | scrolls, escrow, reveal and close, over Equipment, Fees, Registry and SlotHashes | `ecommits`, `enhancement`, `itemLevel`, `markers`; a token in escrow has its commit key as `holder` |
| `TopBoards` | what a board promises, as a set | `top[b]` is a capacity and a set of entries; `score[p]` is what a player's stats come to, from which the entries of a battle or fight are taken |
| `Leaderboard` | heap, stats, session keys, rate limit | `boards[b].heap` is the vector, positions 1-based; the two sifts are one loop, a recursive function of the steps left |
| `Elo` | `elo_delta` with the code's table, interpolation and rounding | the two quotients of 10^12 by long division so that TLC's 32-bit integers suffice |
| `PvpLadder` | ghosts, challenges, resolve with all it writes, close | `snapshots`, `challenges`, `charRecords`, `pairs`; extends Leaderboard, whose stats and boards resolve writes |
| `Rolls` | `roll_item_capped` and `roll_fighter`, draw by draw | `roll` is the item or fighter under way; a draw is any residue of its span |
| `BattleSim` | `resolve_onchain` with strike, recovery, tie-breaks and the round cap | a corner is hp, mana and the unused opener; `Fought` is a recursive function over rounds |
| `MC*` | instances for TLC | constants, restricted next-state relations |
| `SlotHashesProofs`, `CommitRevealProofs`, `RegistryProofs`, `StellarBridgeProofs`, `MintCommitProofs`, `EnhancementProofs`, `PvpLadderProofs`, `CombatProofs` | theorems | section 5 |

An action is a whole instruction, guards in front, including what it does to
accounts of other components. Instructions that share a body share an operator
(`RevealAs` for the two mint reveals, `Settle` for what closing a commit
account does). Operators whose comment starts with "Mutant:" are not part of the
model: each is a plausible mistake in the operator that follows it, used to show
that a property notices it.

Abstractions, all of data: texts, URIs and uuids are dropped; an intent keeps
the four facts the handlers branch on (`Intent`); the enhancement roll and the
fight are constant operators of the commit, the item or builds and the block
(`Roll`, `Beats`), assumed only to be in range; mints see a Stellar release as a
status and an authority, the bridge also sees its links; cosmetic skins, names,
streaks and profile texts are left out. Account addresses are what they are derived from, so two accounts
with the same seeds are the same account, and a closed one can be created
again.

History variables (`signer`, `issued`, `settled`, `receipts`, `minted`,
`sold`, `battles`, `ratedOn`, `fights`, `diverged`) never occur in a guard of
an instruction, with one exception: a scroll mint is bought once because its
NFT's mint account can be created once, which `sold` stands for.

**The bridge.** The owner of a release's universe is fixed (`UniverseOwner`, a
constant of the external program); its authority moves. The instruction needs
one signer to be both, because the deployment CPI is signed by the payer. The
link CPI happens only for a release that is not linked yet, which is why a second
publication leaves `linked_avatar_data` at the first card.

**Rolls.** One instruction takes all draws of a roll; the model takes them one
after another, which no other account can observe. The generator's outputs are
arbitrary, so a draw modulo `n` is any residue in `Residues(n)`. The instance
takes every residue of short spans and both sides of every bucket boundary of
the others.

**The fight.** `BattleSim` keeps the arithmetic of `sim.rs` in full except for
the hash of the tie-breaks. FNV-1a multiplies by an odd prime, so its low bit,
the only one the code reads, is the exclusive or of the low bits of the offset
and of every byte hashed: the seed, the identities and the round digits. The
parity of seed and identities is the parameter `seed`. The module was compared
with all vectors of `tests/fixtures/pvp-sim-vectors.json`, the fixture both
implementations of the repository are held to: winner and rounds agree on each.
A snapshot's stats are whatever its owner publishes (`publish_snapshot` checks
none of them), so the instance also fights builds that no roll gives.

## 3. What TLC checks

Run one with `tlc -workers 2 -config X.cfg M` in this directory.

| Run | Module, cfg | Properties | What it shows |
|---|---|---|---|
| chain | MCCommitReveal | AnswerIsCanonical, AnswerThroughoutWindow, OneOutcomePerCommit, CanonicalEntropy | On every chain of slots 0..9 with up to two skipped slots in a row: the scan over the newest-first account data answers only with the first block at or after the target, never refuses inside the window, and a key committed again and again has one canonical outcome per commit |
| bridge | MCStellarBridge | IndexesUnique, ConfiguredIsValid, FirstAndNewestCard, GovernanceHandover | Both bootstraps of the registry, good and bad configurations, three wallets and an upgrade authority that moves or is given up, while two releases are finalized, linked, deployed and transferred by their own program and published again and again (1.07 million states, about a minute) |
| mint | MCMintCommit | FeesRoutedOnce, DestinationsRentExempt, RoyaltyFollowsFee, FighterMintsHaveProof, PaidCommitRevealable, ImplementsCommitReveal, EveryCommitSettles | Two commits of one minter in flight over two releases, one of which changes hands, on a registry that governance retunes and mints from, or that nobody configured yet: accounts are right, minting refines CommitReveal, and every commit settles (486 332 states) |
| equipment | MCEquipment | MintInOneSlot, GearSuitsSlots, MirrorCoherent | Two wallets, two items, a fighter and a card through both generations of instructions |
| enhance_trade | MCEnhancement | TypeOK, EscrowMatchesCommits, PeekedOutcomeForcible, WageredNotEquipped, LevelsEarned, ScrollSpentOnce, SafeAttemptsKeepItem | Attempts interleaved with everything two owners can do with item and scrolls |
| enhance_all | MCEnhancement, MCEnhanceAll.cfg | ImplementsCommitReveal, EveryAttemptSettles | The full next-state relation including governance |
| boards | MCLeaderboard | HeapOrder, EntriesCurrent, QuotaKept, ImplementsTopBoards | A regular from nothing, and two battles on crowded boards of every heap order: the heap refines the abstract board |
| ladder | MCPvpLadder | EntriesCurrent, PairThrottled, EveryFightCounted, RatingExchanged, ImplementsCommitReveal, EveryChallengeSettles | Two wallets challenge each other while one changes its ghost and reports battles; fights are decided by `BattleSim` |
| combat | MCCombat | RollsWithinTables, NoSideAdvantage, BetterNotWorse | Every item and fighter at the boundaries of every draw; every rolled fighter meets four novices, its twin and three extreme builds on both seeds, from both corners, and once more with each stat or skill improved (64 046 states) |
| find_* | | one each | section 6 |

`TypeOK` of `enhance_trade` is the conjunction of the type invariants of the
composed components, so `RegistryTypeOK`, `FeesTypeOK`, `EquipmentTypeOK` and
`ClockTypeOK` are checked there; those of the bridge, of minting, of
equipment, of the boards, of the ladder and of the commit-reveal promise are theorems (section 5). Each
property has a mutant in `PROJECT.json`: a changed definition under which the
same run finds the property violated.

### Bounds, and why they are enough

- `SlotHorizon` ends the clock; `CommitHorizon` is the last slot a commit is
  made in. In the runs with liveness (`mint`, `enhance_all`, `ladder`)
  `CommitHorizon + Delay + Window < SlotHorizon`, so every commit made can still
  expire; in the others most of them can. In `chain` and `enhance_all` a
  key that was closed is committed again before the horizon; `enhance_trade`
  commits up to three slots in a row, so a wagered item is won and wagered
  again. In `mint` and `ladder` a key has one generation, two commits at once:
  that a settled key starts afresh is then checked in the two other runs, and for
  minting it is part of theorem `MintImplements`, which has no bound.
- `Delay = 1`, `Window = 2` or `3`, against 5 and 300 in the code: all
  comparisons are with the target, so what matters is that slots before, at,
  inside and after the window exist. `Retention` equals the window, the smallest
  value with which a timely lookup cannot be refused (512 entries against a
  window of 300 slots on a cluster); a larger one is only safer, and
  `LookupIsCanonical` holds for any. `MaxGap` skips up to one or two slots.
- Fees: one split leaves dust and a slice below the rent minimum, one pays both
  shares into the same account, and an unconfigured registry charges nothing.
- `MaxIndex = 4` in `bridge`: a release can be published three times with a card
  of the other, or of a registration, in between.
- Ten rounds, the code's own cap, are played in full; fights that reach the cap
  and both tie-breaks occur among the sparring partners.
- `MaxLevel = 2` with a safe first and a risky second level; success of the
  risky one depends on the block, so both outcomes occur.
- Boards of capacity 1, 2 (from nothing) and 4, 5 (crowds): four members give
  the heap a left-heavy third level, and ratings 0, 10, 30 lie closer than,
  about as far as, and further than one battle moves a rating. Two days, one of
  which may come again; quota and ranked cap are 1, so the limit is reached.
- `MaxIndex` stops the index counter. In `mint` it is part of
  `PaidCommitRevealable`; in the code the counter is a checked u64.

### Restricted next-state relations

Where the full relation is too large for one property, an MC module takes a
subset and the full relation is run with fewer properties or values:
`OpenSpec` (mint) starts on a registry that is configured, or that a
registration created and nobody configured; it leaves out migration, rotation
and the draft stage of releases, lets one release change hands once, and has
one kind of direct mint. Registry's own instructions all run in `bridge` and
`enhance_all`, and the theorems of `MintCommitProofs` and `EnhancementProofs`
are about the full relations.
`TradeSpec` (enhance_trade) leaves governance out; `enhance_all` has it with one
wallet. `MCSpec` of the boards lets only one wallet act from nothing and lets
the crowd play two battles; `MCSpec` of the ladder starts on one open board with
published ghosts, and only Alice changes hers or reports battles. `KeepSpec` is
used only by a finding, to show it needs no scrap or burn.

### Fairness

Liveness assumes two things: blocks keep coming (weak fairness of the new bank),
and someone closes expired commits (weak fairness of the close of each key).
`close_expired_commit`, `close_expired_enhance_commit` and
`close_expired_challenge` need no signature of the committer and pay their rent
back to it (A/contexts.rs, L/contexts.rs), and nothing disables them once
enabled, so any keeper suffices. No fairness is assumed of reveals, minters or
governance. Up to the horizon the clock's weak fairness is real; the horizon
lies beyond the window of every commit, so no commit is saved or stranded by it.

## 4. Refinement

`CommitReveal` says what all three instruction triples promise, and knows the
whole chain. `MintCommit`, `Enhancement` and `PvpLadder` each map their commit
accounts onto `target` (the account's target slot, 0 when it is closed) and
their history onto `settled`, and each run checks `Promise!Spec` as a property.
The mapping is where the abstract `Reveal` ("the first block at or after the
target on the chain") meets the concrete one (the lookup in the entries
`SlotHashes` retains); that they agree is theorem `LookupIsCanonical`. The whole
refinement is a theorem for all three: `MintImplements`, `EnhanceImplements` and
`PvpImplements`. What is proved of `CommitReveal` (`OneOutcome`, `Canonical`)
therefore holds of all three under the mapping; it is not proved a second time in
their terms.

`TopBoards` says what a board promises, without a heap: at most capacity
entries, one per player. It also keeps every player's score (`score`), so that a step
can only offer a board what its players have just earned: `Battle` gives one player
one more game and offers that player's new score; `Fight` does so for two. A
newcomer to a full board replaces a weakest entry it strictly beats, and nobody is
displaced otherwise. How a game moves a rating is left open, since a board may not
depend on it. `Leaderboard` maps its vector to the set of its entries (`TopView`) and
its stats to scores (`Scores`), and `LeaderboardRefinesTopBoards` proves it.
`PvpRefinesTopBoards` proves it of the whole program, where a rated fight upserts
both players on one heap in one instruction: two offers, the challenger's first, of
which the second may displace the entry the first has just written (`Fight`). An
unrated fight, and a fighter below the games gate, make no offer (`MaybeOffered`).
Run `boards` checks the refinement on battles alone; that fights refine it too is
the theorem's.

## 5. What is proved

`tlapm` checks the proofs in the eight modules of theorems, for every value of
the constants that satisfies the named assumptions. The library's induction
theorems take an operator as a parameter, which the installed provers cannot
instantiate; where a proof needs induction (over the steps of a sift, the rounds
of a fight, the elements of a finite set) it takes the least counterexample
instead, by lemma `Least` (SlotHashesProofs).

- `LookupIsCanonical` (SlotHashesProofs): for any finite chain, any retention and
  any target, an answer of the lookup over the retained entries is the first
  block at or after the target on the whole chain. The argument: retention keeps
  an upward-closed set of blocks (`RetainedUpward`, by counting the newer
  blocks), so an entry older than the target, or one equal to it, shows that
  nothing at or after the target was dropped. This is the fail-closed rule at the
  end of `slothash_at_or_after_data`.
- `ScanIsLookup` (SlotHashesProofs): the scan of the newest-first account data
  answers a slot exactly when the lookup does, for every strictly decreasing list
  of entries (`ScanIsSound` and `ScanIsComplete`).
- `TypeCorrect`, `OneOutcome`, `Canonical` (CommitRevealProofs): the type
  invariant, that no commit settles twice, and that the block that seeded a
  commit stays the first one at or after its target, as invariants of
  `CommitReveal!Spec`. Neither of the last two is inductive: a closed key can be
  committed again, and `OneOutcomePerCommit` alone does not exclude a second
  settlement with an old target. The inductive invariant is

      IInv == TypeOK /\ SettledInThePast /\ TargetsAdvance
                     /\ CanonicalEntropy /\ OneOutcomePerCommit

  where `SettledInThePast` (a settled target lies before the current slot) gives
  a new commit, whose target is `slot + Delay`, a target above every settled one
  of its key, which `TargetsAdvance` carries to the settlement; and canonical
  entropy survives a new block because a new block is above all old ones.
- `AnswersCanonical`, `WindowAnswered` (CommitRevealProofs): `AnswerIsCanonical`
  and `AnswerThroughoutWindow`, of the scan and not only of the lookup. The
  account data is `NewestFirst`, a descending list of the retained blocks, which
  exists (`ListExists`); then `ScanIsLookup` and `LookupIsCanonical` apply. That a
  timely reveal is answered is a count: fewer than `Window` banks have begun after
  the first block at or after the target, and after the last one before it, so
  with `Window <= Retention` both are retained (`RecentIsRetained`), and the
  second is the older entry the fail-closed rule asks for. That is lemma
  `TimelyLookup` (SlotHashesProofs), of any chain and any window.
- `RegistryTypeCorrect`, `UniqueIndexes`, `AlwaysValid`, `Handovers`
  (RegistryProofs): types, `IndexesUnique`, `ConfiguredIsValid` and
  `GovernanceHandover` of `RegistrySpec`. The inductive invariant is

      RegistryInv == RegistryTypeOK /\ IssuedInOrder /\ LegacyUngoverned
                                    /\ ConfiguredIsValid

  `IssuedInOrder` (the indexes handed out are 0, 1, 2, ... up to the stored
  counter) is what makes uniqueness inductive, and the reason migration has to
  carry the counter over. `LegacyUngoverned` (no key is stored while the account
  has the legacy layout) makes migration a first setting of the key and not a
  handover; it rests on the fact that no instruction but the migration can load
  that account. Every mint of the other modules takes its index with the same
  `TakeIndex`, whose step is lemma `TakeIndexInv`.
- `BridgeKeepsRegistry`, `BridgeHandovers`, `BridgeTypeCorrect`, `CardsAgree`
  (StellarBridgeProofs): the registry with the bridge implements the registry
  alone, because a publication is a `RegisterArenaAsset` step for it; hence
  `GovernanceHandover` here too. Then types and `FirstAndNewestCard` of
  `StellarBridge!Spec`. The inductive invariant is

      BridgeInv == RegistryInv /\ BridgeTypeOK /\ CardsBelowCounter
                               /\ FirstAndNewestCard

  `CardsBelowCounter` (every published card has an index below the counter)
  makes a new card the newest one; that a release without cards is the only one
  the link CPI may meet as finalized makes the first card stay the first.
- `TypeCorrect`, `RoyaltyPaid`, `FightersProven`, `MintImplements`
  (MintCommitProofs): types, `RoyaltyFollowsFee`, `FighterMintsHaveProof` and
  `ImplementsCommitReveal` of `MintCommit!Spec`, with everything composed into it.
  The inductive invariant is

      MintInv == RegistryInv /\ ClockTypeOK /\ FeesTypeOK /\ MintTypeOK /\ Receipted
                             /\ RoyaltyFollowsFee /\ FighterMintsHaveProof

  `Receipted` (an open commit has a receipt with its key, target, release and
  royalty key) is what the two properties need: they relate a mint to the
  receipt of its commit, and the reveal itself reads only the commit account. The
  refinement is proved step by step: the four actions on commit accounts are
  `Commit`, `Reveal`, `Reveal` and `Expire`, everything else is a new bank or a
  stutter. `RevealImplements` is the step that needs `LookupIsCanonical`.
- `RentExempt`, `FeesRouted` (MintCommitProofs): `DestinationsRentExempt` and
  `FeesRoutedOnce` of `MintCommit!Spec`. The first is a step property of the
  balances: a commit pays only after all rent checks pass, and two shares to one
  account only make it safer. The second compares two sums over sets that grow, so
  the proof first shows, from the fold's definition, that such a sum of a finite
  set exists, does not depend on the order, and takes one element in or out at
  its value (`SumsExist`, `SumsAgree`, `TotalOut`, `TotalGrows`); then that the three
  slices of a fee make up the fee (`FeeRouted`). A receipt counts once in a set,
  so it must be a new one: `ReceiptsOK` (the receipts of a key aim no later than its
  open commit, and before the clock when there is none) is the part of the
  invariant that says so.
- `PaidCommitsReveal` (MintCommitProofs): what `commit_mint` accepted, a reveal
  takes. From the first block at or after the target to the end of the window, all
  that one of the two reveals requires holds (`RevealNeverRefused`), unless the
  release changed hands. The invariant `Backed` says why: an open commit has an
  intent of one of the two kinds and a release that was public, nothing makes a
  release private again, and a registry that a commit could load stays of the
  current layout (`LayoutKept`); `TimelyLookup` gives the block. It is
  `PaidCommitRevealable` with the guards written out in place of `ENABLED`.
- `AttemptsReveal` (EnhancementProofs): the same of an attempt, with no exception
  (`AttemptNeverRefused`): the escrow is intact, the item exists and is below the
  top level, all by `EscrowMatchesCommits`, so inside the window the reveal and
  after it the close have all they require. It is `PeekedOutcomeForcible` without
  `ENABLED`, and the reason the close of an attempt, once enabled, stays so.
- `FightsResolve` (PvpLadderProofs): the same of a challenge as long as both ghosts
  are published (`ResolveNeverRefused`), on every board. The condition is the one
  that run `find_loss_dodge` shows to be needed, and the theorem says that it is the
  only one.
- `EquipmentTypeCorrect`, `OneSlot`, `GearSuits`, `MirrorKept`
  (EnhancementProofs): types, `MintInOneSlot`, `GearSuitsSlots` (`ClassesFit` and
  `LegacySupported` together) and `MirrorCoherent` of `EquipmentSpec`. The inductive
  invariant is `EquipmentTypeOK` and, for every wallet, `WalletInv`: the record is
  free of repetitions and fits its classes, the legacy slots fit theirs and the
  card's mask, and outside `diverged` they mirror the slots an instruction
  would touch. Two parts of it are not in any property: a record exists only
  beside an avatar, so that creating an avatar cannot meet an old record; and the
  mirror is stated of `TouchedSlots`, which is the empty loadout before the record
  is created, so that the first v2 instruction starts from agreement. Each
  instruction reduces to one of two lemmas, by what it writes: both views
  (`WriteBothIInv`) or the legacy slots only (`WriteLegacyIInv`).
- `TypeCorrect`, `EscrowExact`, `ScrollsSpentOnce`, `GearNotWagered`,
  `LevelsAreEarned`, `SafeAttempts`, `EnhanceImplements` (EnhancementProofs):
  types, `EscrowMatchesCommits`, `ScrollSpentOnce`, `WageredNotEquipped`,
  `LevelsEarned`, `SafeAttemptsKeepItem` and `ImplementsCommitReveal` of
  `Enhancement!Spec`, with everything composed into it. The inductive invariant is

      EnhanceInv == AroundInv /\ EnhanceTypeOK /\ EscrowMatchesCommits /\ SoldScrolls
                    /\ ScrollSpentOnce /\ WageredNotEquipped /\ EarnedInv

  `AroundInv` is the invariants of the equipment, the registry, the fees and the
  clock, taken over from their proofs. `SoldScrolls` (a scroll that exists, or has
  a marker, was bought) keeps a new scroll apart from every spent one. `EarnedInv`
  adds to `LevelsEarned` that the rolled scrolls of an item are finitely many, so
  that one more is one level more; that the scroll of an attempt is not among
  them follows from its open marker. Both ends of an attempt are one
  shape of step (`Ends`, lemmas `RevealEnds` and `CloseEnds`), so the escrow, the
  scroll and the gear are argued once. Owners' steps rest on two facts: only
  wallets move tokens (`TokensMove`), and equipping asks for the token, so what is
  in escrow cannot be put on (`StaysUnworn`).
- `LeaderboardInvariant`, `BoardsOrdered`, `BoardsCurrent`, `QuotasKept`,
  `LeaderboardRefinesTopBoards` (PvpLadderProofs): `HeapOrder`, `EntriesCurrent`,
  `QuotaKept` and `ImplementsTopBoards` of the PvE half. The inductive invariant is

      LadderInv == LeaderboardTypeOK /\ BoardsOK /\ EntriesOK /\ QuotaOK

  `BoardsOK` says of every board what the upsert needs and keeps (`GoodBoard`): at
  most capacity entries, heap order, and one entry per player, without which
  the entry found first is not the only one and the refinement fails. The heart
  is theorem `UpsertGood`, for a heap of any size: the upsert yields such a board,
  and its contents are one of those `TopBoards` allows. Its two sifts are one loop
  over states (`LoopDefined`, `LoopRule`): what holds before the loop and is kept by
  each step holds at its end, by the least number of steps left at which it would
  not; kept by a step are the contents and heap order everywhere but at the hole.
  `QuotaOK` ties each wallet's rate limit to the history of its battles (`Tracks`:
  last slot, latest day, battles charged to that day); `QuotaKept` alone is not
  inductive, since the code only reads the limiter. A day that steps back is
  charged to the latest day seen (`BattleCharged`).
- `LimitExact`, `PvpLimitExact` (PvpLadderProofs): the rate limit is exact. In every
  reachable state, of the PvE half and of the whole program, the limiter of a
  wallet accepts a battle if and only if the battle, appended to the wallet's
  history, keeps cooldown and quota (`QuotaExact`). `QuotasKept` is one half of it;
  the other says that nothing else costs a battle: no other board, session key or
  PvP fight, and a day that steps back only what is charged to the latest day seen.
  Since the only other guards of
  `record_battle` are the board and the signer, it is never refused for
  any further reason.
- `PvpInvariant`, `PvpTypeCorrect`, `PvpBoardsAndQuotas`, `FightsCounted`,
  `ThrottleKept`, `RatingsExchange`, `PvpRefinesTopBoards`, `PvpImplements`
  (PvpLadderProofs): types, `EntriesCurrent`, `EveryFightCounted`, `PairThrottled`,
  `RatingExchanged`, `ImplementsTopBoards` and `ImplementsCommitReveal` of
  `PvpLadder!Spec`, PvE and PvP interleaved. The inductive invariant is

      PvpInv == LadderInv /\ TypeOK /\ ChallengesOK /\ FightsOK /\ ThrottleOK
                         /\ EveryFightCounted

  `ThrottleOK` ties the account of a pair to the fights of that pair, in both
  directions at once, as `Tracks` does for a wallet (`PairFought`). `FightsOK`
  (every fight is older than the open challenge of its key) makes the fight of a
  resolve a new one, so that each counter of `EveryFightCounted` grows with its
  set. `ChallengesOK` (nobody challenges himself) keeps the two sides of a fight
  apart, which both upserts, both ratings and both tallies rest on.
- `RatedWhenAllowed` (PvpLadderProofs): the throttle is exact too. The fights a step
  adds are rated if and only if they keep the pair's cooldown and daily limit
  given the rated fights before (`RatedExactlyStep`), so the account that both
  directions share never withholds a rating. `ThrottleOK` is too weak for that, as
  it bounds the account from one side; `AccountsExact` adds, of every pair, that its
  account says no more than its fights do.
- `EloExchange` (PvpLadderProofs): for all ratings, what a rated fight gives the
  winner is what it takes from the loser, or one point more, and neither side
  moves against the result. On the way, the long division of `Elo` is shown to
  be the quotient the code computes, and the two expected scores to be
  complements.
- `RoundInRange`, `MirroredRound`, `MirroredResult`, `MirroredFight`, `SidesEqual`
  (CombatProofs): for every pair of builds, also with stats no roll gives, a round
  keeps hit points and mana between zero and what the build has; a round, the
  decision, and therefore a whole fight, with the corners swapped and the other
  low bit, is the same fight. The fight is a recursive function over the rounds;
  `IterationExists` shows that such a function satisfies its own recursion, and
  `Climb` is the induction. `NoSideAdvantage` of `RollSpec` follows.
- `BetterWins`, `ImprovementsWin` (CombatProofs): of any two builds where one is at
  least as good in every stat and has every skill of the other (`Dominates`; the
  glass cannon trades hit points for attack, so both have it or neither), the
  better one wins every fight, against any opponent and on any seed, that the plain
  one wins; hence `BetterNotWorse` of `RollSpec`. The better build goes first in at least
  the same rounds, but a fight that takes another course may end in another
  round and with less mana left. The invariant between the rounds of the two fights is
  `Ahead`: either both go on and the better build leads (`Leads`), or the outcome is
  already no worse (`NoWorse`). `Leads` allows one deficit: a point of mana that the
  better build spent on an opener the plain one lacks. It is paid for, because by
  then the opponent is down a point, or the base damage is at its minimum of
  1, which tiredness does not lower. The arithmetic of a round, with both orders and
  what is thrown back, is `HpRound`. The roll tables play no part in it, so the result
  outlives any change of them.
- `FightFits` (CombatProofs): for builds of i16 stats, which is what a snapshot can
  hold and `publish_snapshot` does not restrict, every sum, difference and maximum
  that `sim.rs` computes before and during the rounds lies within i32. So `BattleSim`
  loses nothing by counting in integers. The bounds are lists of the intermediate
  values in the order of the code (`BuildValues`, `StrikeValues`, `RecoverValues`);
  the corners they are computed from are those of `RoundInRange`.
- `RollsInTables` (CombatProofs): `RollsWithinTables` of `RollSpec`, for any choice
  of residues. An item has one affix and at most one more for each step of its
  rarity (a slot is skipped after four draws of a kind it already has), the first
  of its class, each in the range of its kind at the tier. The invariant `RollInv`
  follows a roll draw by draw: the affixes so far have different kinds, each is what
  its place allows (`Allowed`), and they and the slots left are together no more than
  the rarity gives. Different kinds make the folded
  stat one affix at most (`OneOfAKind`), and hence the bounds on what fights read.

Assumptions: the named ones of the modules (`SlotHashesAssumption`,
`CommitRevealAssumption`, `WindowAssumption`, `PubkeysAssumption`,
`RegistryAssumption`, `StellarBridgeAssumption`, `FeesAssumption`,
`MintCommitAssumption`, `EquipmentAssumption`, `EnhancementAssumption`,
`LeaderboardAssumption`, `PvpAssumption`, `RollsAssumption`, and
`MintWindowAssumption`, `EnhanceWindowAssumption`, `PvpWindowAssumption`): positive window, delay,
retention, cooldowns, quota and gap, a window no longer than the retention (300
slots against 512 entries), an empty key that is no wallet, account, board, avatar
or session key, finitely many fee accounts and vaults, which never share an address,
configurations, fees and intents of the right type, cards with a slot mask,
chances and rolls within the denominator, fights that have an outcome, residues
below their modulus. TLC evaluates them on every run that uses them.

Only model-checked:
- liveness under fairness (`EveryCommitSettles`, `EveryAttemptSettles`,
  `EveryChallengeSettles`) and the `ENABLED` properties (`PaidCommitRevealable`,
  `PeekedOutcomeForcible`), which the prover does not support. The guards behind
  the latter two are proved to hold, by `PaidCommitsReveal` and `AttemptsReveal`;
  that a step is possible whenever its guards hold is left to TLC;
- the three violations of section 6.

## 6. Where code and text disagree

Three runs end in a violation, each of a sentence of the repository:

- `find_expired_scroll`: `ExpiryReturnsScroll`. A/state.rs:597-598 says that
  `close_expired_enhance_commit` returns the scroll; the handler burns it
  (A/handlers.rs:1737-1754, and docs/enhancement-design.md:79 agrees with it).
- `find_record_slots`: `RecordSlotsSupported`. The comment at
  A/handlers.rs:1878-1879 says a card swap drops everything rather than leave
  items in slots the character no longer has; it empties the four legacy slots
  and leaves the seven-slot record.
- `find_loss_dodge`: `PeekedFightForcible`. L/lib.rs:99-100 and
  docs/pvp-ladder-design.md:223 say a loss cannot be dodged because anyone can
  resolve; a wallet that withdraws its ghost stops every resolve until the
  challenge expires.

Met while reading, without a run: docs/bridge-loop.md:100 expects
`linked_avatar_data == arenaAsset` of a published release, which is true of its
first card only (`FirstAndNewestCard`); docs/playable-fighters-design.md:324-325
says a Mythic fighter rolls near the top of its band, but `roll_fighter` draws
its bumps uniformly from 0 up to the tier, so a Mythic may roll below a Common;
legacy equips and card swaps make the "mirror"
of the four legacy slots differ from the record (`MirrorCoherent` is therefore
stated outside `diverged`); `scrap_arena_item` leaves the item's
`ItemEnhancement` account open; `record_battle` does not apply `MIN_RANKED_GAMES`,
the PvP resolve does; a challenge is fought with the ghosts as they are
published at the resolve, not at the commit; L/lib.rs:90-91 speaks of session
keys for `commit_challenge`, which takes the wallet's signature only; a board's
top is the best of those who reported to it, since `resolve_challenge` and
`record_battle` update the one board they are given.

## 7. Not modelled

- The 64-bit mixer behind the rolls and the upper bits of the FNV hash: its
  outputs are arbitrary in `Rolls`, its low bit is exact in `BattleSim`.
- Overflow in a fight: published stats are i16 and `sim.rs` promotes them to
  i32. `BattleSim` counts in integers, and theorem `FightFits` says that no value
  of a fight leaves the 32 bits.
- The validators of card texts (`validate_arena_asset_*`), and which archetype
  or element a card shows: no state depends on them.
- Instructions of the Stellar, token and loader programs beyond what the modules
  mark as external.
- Names, URIs, streaks, profile texts, the metadata of NFTs, rent of closed
  accounts, compute limits, account-size arithmetic.
- 64-bit overflow of counters: all are checked or saturating additions that no
  run of a cluster reaches; the models count in unbounded naturals.
- Entry points, error numbers, scripts, migrations, tests.

## 8. Plan

Done, in this order: SlotHashes and CommitReveal with their proofs; Registry and
Fees; MintCommit; Equipment; Enhancement; TopBoards and Leaderboard; Elo and
PvpLadder; StellarBridge with its proofs; Rolls; BattleSim with its proofs, and
its composition with the ladder and the rolls.

Proved since, each with the inductive invariant it needs: every safety invariant
and action property that a run expects to hold, except the two `ENABLED`
properties (whose guards are proved), and all five refinements (three of
`CommitReveal`, two of `TopBoards`).

Proved with them, beyond what the runs check: that no open commit, attempt or
challenge is refused for a reason other than the named ones (`PaidCommitsReveal`,
`AttemptsReveal`, `FightsResolve`); that rate limit and throttle are exact
(`LimitExact`, `PvpLimitExact`, `RatedWhenAllowed`); and of fights between arbitrary
builds, that corners are equal, better builds win and 32 bits suffice
(`MirroredFight`, `BetterWins`, `FightFits`).

Next: extending the model to streaks and to the profile in the board entry.
