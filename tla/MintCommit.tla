----------------------------- MODULE MintCommit -----------------------------
(***************************************************************************)
(* Paid minting in solana-ekza-arena: commit_mint takes and splits the fee *)
(* and locks a future slot, reveal_mint or reveal_avatar_mint rolls and    *)
(* mints, close_expired_commit cleans up, and mint_arena_item is the       *)
(* governance key's one-transaction mint.  Every instruction is one atomic *)
(* transaction; minters, keepers, governance and the Stellar program act   *)
(* in any order between blocks.                                            *)
(***************************************************************************)
EXTENDS Fees, SlotHashes, FiniteSetsExt

CONSTANTS
  Minters,        \* wallets that mint
  Nonces,         \* the nonces they choose
  Intents,        \* what callers ask for: see Intent
  Delay,          \* REVEAL_DELAY_SLOTS
  Window,         \* COMMIT_REVEAL_WINDOW_SLOTS
  CommitHorizon   \* bound: no commit is made after this slot

\* The part of CommitMintArgs and of its metadata the handlers branch on.
Intent == [baseType : {"Charm", "Other"}, symbol : {"fighter", "plain"},
           metadata : {"strict", "loose"}, skin : {"Builtin", "Stellar"}]

Keys == Minters \X Nonces
Idle == 0
Expired == -1
NoCommit == [target |-> Idle]

ReleaseStatus == {"Draft", "Finalized", "Linked"}

ASSUME MintCommitAssumption ==
  /\ Minters \subseteq Wallets
  /\ Intents \subseteq Intent
  /\ Delay \in Nat \ {0}
  /\ Window \in Nat \ {0}
  /\ CommitHorizon \in Nat

\* 300 slots against 512 entries: SlotHashes outlasts the window.
ASSUME MintWindowAssumption == Window <= Retention

VARIABLES
  commits,   \* MintCommit PDA [minter, nonce] -> account, or NoCommit
  releases,  \* Stellar release -> status and authority (external)
  minted,    \* the NFTs and the game account each was given
  settled,   \* history: how every commit ended
  receipts   \* history: what every commit paid

mintVars == <<commits, releases, balance, minted, settled, receipts>>
vars == <<registryVars, clockVars, mintVars>>

MintCommitAccount ==
  [target : Nat \ {Idle}, intent : Intent, release : Releases \cup {None},
   royalty : Wallets \cup Accounts]

MintTypeOK ==
  /\ commits \in [Keys -> MintCommitAccount \cup {NoCommit}]
  /\ releases \in [Releases -> [status : ReleaseStatus, authority : Wallets]]

TypeOK == RegistryTypeOK /\ ClockTypeOK /\ FeesTypeOK /\ MintTypeOK

Init ==
  /\ RegistryInit
  /\ ClockInit
  /\ commits = [k \in Keys |-> NoCommit]
  /\ releases \in [Releases -> [status : {"Draft"}, authority : Minters]]
  /\ balance = InitialBalance
  /\ minted = {}
  /\ settled = {}
  /\ receipts = {}

-----------------------------------------------------------------------------
(* The skin *)

\* resolve_skin_accounts for the release account r the caller passes; None
\* when the skin names no release.
ResolveSkin(skin, r) ==
  IF skin = "Stellar"
  THEN r \in Releases /\ releases[r].status \in {"Finalized", "Linked"}
  ELSE r = None

FighterIntent(i) == i.symbol = "fighter"

\* Mutant: any intent is taken.
AnyIntent(i) == i \in Intent

\* commit_mint refuses a fighter symbol it could not reveal as a fighter.
CommittableIntent(i) == FighterIntent(i) => i.baseType = "Charm" /\ i.metadata = "strict"

RoyaltyRecipient(r) == IF r = None THEN registry.config.treasury ELSE releases[r].authority

CommitMint(k, i, r) ==
  LET royalty == RoyaltyRecipient(r) IN
  /\ commits[k] = NoCommit
  /\ slot <= CommitHorizon
  /\ registry.layout = "current"
  /\ CommittableIntent(i)
  /\ ResolveSkin(i.skin, r)
  /\ ChargeFee(registry.config.fee, r)
  /\ commits' = [commits EXCEPT ![k] =
       [target |-> slot + Delay, intent |-> i, release |-> r, royalty |-> royalty]]
  /\ receipts' = receipts \cup
       {[key |-> k, target |-> slot + Delay, fee |-> registry.config.fee,
         release |-> r, royalty |-> royalty]}
  /\ signer' = k[1]
  /\ UNCHANGED <<registry, upgradeAuthority, issued, clockVars, releases, minted, settled>>

-----------------------------------------------------------------------------
(* The reveal *)

\* Mutant: the window has no end.
PastTarget(t) == slot > t

InRevealWindow(t) == slot > t /\ slot <= t + Window

\* Mutant: a release of the same creator will do.
SameCreator(m, r) ==
  /\ (m.release = None) = (r = None)
  /\ r # None => releases[r].authority = m.royalty

\* The release passed now is the one paid at commit, with the same authority.
BoundAsCommitted(m, r) ==
  /\ m.release = r
  /\ r # None => releases[r].authority = m.royalty

Settle(k, entropy) ==
  /\ commits' = [commits EXCEPT ![k] = NoCommit]
  /\ settled' = settled \cup
       {[key |-> k, target |-> commits[k].target, entropy |-> entropy]}

\* What both reveals require of the commit, the release passed and the chain.
CanReveal(k, r, s) ==
  LET m == commits[k] IN
  /\ m # NoCommit
  /\ InRevealWindow(m.target)
  /\ ResolveSkin(m.intent.skin, r)
  /\ BoundAsCommitted(m, r)
  /\ SlothashAtOrAfter(s, Retained(blocks), m.target)
  /\ Loadable

\* Shared body of the two reveals; asset is the account the NFT is given.
RevealAs(k, r, asset) ==
  LET m == commits[k] IN
  /\ \E s \in blocks : CanReveal(k, r, s) /\ Settle(k, s)
  /\ TakeIndex(k[1])
  /\ minted' = minted \cup
       {[index |-> registry.nextIndex, asset |-> asset, symbol |-> m.intent.symbol,
         key |-> k, target |-> m.target, release |-> r, royalty |-> m.royalty]}
  /\ UNCHANGED <<clockVars, releases, balance, receipts>>

\* What each of the two asks of the intent.
GearReveals(i) == ~FighterIntent(i)

FighterReveals(i) ==
  i.baseType = "Charm" /\ FighterIntent(i) /\ i.metadata = "strict"

\* Mutant: the gear branch takes fighter intents too.
RevealMintAnySymbol(k, r) == RevealAs(k, r, "ArenaItem")

RevealMint(k, r) ==
  commits[k] # NoCommit /\ GearReveals(commits[k].intent) /\ RevealAs(k, r, "ArenaItem")

RevealAvatarMint(k, r) ==
  commits[k] # NoCommit /\ FighterReveals(commits[k].intent) /\ RevealAs(k, r, "ArenaAssetData")

\* Mutant: closing checks the release as the reveal does.
CloseCheckingRelease(k) ==
  /\ commits[k] # NoCommit
  /\ slot > commits[k].target + Window
  /\ BoundAsCommitted(commits[k], commits[k].release)
  /\ Settle(k, Expired)
  /\ UNCHANGED <<registryVars, clockVars, releases, balance, minted, receipts>>

\* Anyone may close an expired commit; its rent goes to the minter.
CloseExpiredCommit(k) ==
  /\ commits[k] # NoCommit
  /\ slot > commits[k].target + Window
  /\ Settle(k, Expired)
  /\ UNCHANGED <<registryVars, clockVars, releases, balance, minted, receipts>>

\* The governance key's direct mint; the symbol is the caller's.
MintArenaItem(w, i, r) ==
  /\ Loadable
  /\ registry.authority = w
  /\ ResolveSkin(i.skin, r)
  /\ TakeIndex(w)
  /\ minted' = minted \cup
       {[index |-> registry.nextIndex, asset |-> "ArenaItem", symbol |-> i.symbol,
         key |-> None, target |-> 0, release |-> r,
         royalty |-> IF RoyaltyRecipient(r) = None THEN w ELSE RoyaltyRecipient(r)]}
  /\ UNCHANGED <<clockVars, commits, releases, balance, settled, receipts>>

-----------------------------------------------------------------------------
(* The Stellar program and the clock, external *)

FinalizeRelease(r) ==
  /\ releases[r].status = "Draft"
  /\ releases' = [releases EXCEPT ![r].status = "Finalized"]

LinkRelease(r) ==
  /\ releases[r].status = "Finalized"
  /\ releases' = [releases EXCEPT ![r].status = "Linked"]

TransferRelease(r, w) ==
  /\ releases[r].authority # w
  /\ releases' = [releases EXCEPT ![r].authority = w]

Stellar ==
  /\ \E r \in Releases :
       FinalizeRelease(r) \/ LinkRelease(r) \/ \E w \in Wallets : TransferRelease(r, w)
  /\ UNCHANGED <<registryVars, clockVars, commits, balance, minted, settled, receipts>>

AdvanceClock == NewBank /\ UNCHANGED <<registryVars, mintVars>>

Governance == RegistryNext /\ UNCHANGED <<clockVars, mintVars>>

Next ==
  \/ \E k \in Keys, i \in Intents, r \in Releases \cup {None} : CommitMint(k, i, r)
  \/ \E k \in Keys, r \in Releases \cup {None} : RevealMint(k, r) \/ RevealAvatarMint(k, r)
  \/ \E k \in Keys : CloseExpiredCommit(k)
  \/ \E w \in Wallets, i \in Intents, r \in Releases \cup {None} : MintArenaItem(w, i, r)
  \/ Stellar
  \/ Governance
  \/ AdvanceClock

Spec == Init /\ [][Next]_vars

\* Blocks keep coming; closing is permissionless and someone does it.
Fairness == WF_vars(AdvanceClock) /\ \A k \in Keys : WF_vars(CloseExpiredCommit(k))

FairSpec == Spec /\ Fairness

-----------------------------------------------------------------------------
(* Refinement *)

Target == [k \in Keys |-> commits[k].target]

Promise == INSTANCE CommitReveal WITH target <- Target

\* The mint commits keep the promise of CommitReveal: one outcome per commit,
\* seeded by the first block at or after the target, although the reveals read
\* only the entries SlotHashes retains.
ImplementsCommitReveal == Promise!Spec

-----------------------------------------------------------------------------
(* Properties *)

\* Whatever the governed split and the number of commits, the lamports the
\* destinations received are the fees charged: none is lost to rounding or to
\* a missing creator, none is counted twice when destinations coincide.
FeesRoutedOnce ==
  MapThenSumSet(LAMBDA a : balance[a] - InitialBalance[a], DOMAIN balance)
    = MapThenSumSet(LAMBDA rc : rc.fee, receipts)

\* A fee destination that was empty is never left below the rent minimum,
\* whatever order the slices of several commits arrive in.
DestinationsRentExempt ==
  \A a \in Accounts : balance[a] > InitialBalance[a] => balance[a] >= RentMinimum

\* The creator that is paid royalties, and the release the skin shows, are the
\* ones whose vault got the creator slice of that very commit, although the
\* release may be linked or transferred, and the treasury repointed, between
\* the commit and the reveal.
RoyaltyFollowsFee ==
  \A n \in minted : n.key # None =>
    \E rc \in receipts :
      /\ rc.key = n.key /\ rc.target = n.target
      /\ rc.release = n.release /\ rc.royalty = n.royalty

\* Among paid mints the fighter symbol and the fighter account go together: no
\* fighter intent ends as gear and no gear intent ends as a fighter.
FighterMintsHaveProof ==
  \A n \in minted : n.key # None =>
    (n.symbol = "fighter" <=> n.asset = "ArenaAssetData")

\* A commit that was paid for can be revealed: from the first block at or after
\* the target to the end of the window one of the two reveals accepts it,
\* unless the release behind its skin changed hands since.
PaidCommitRevealable ==
  \A k \in Keys :
    LET m == commits[k] IN
      /\ m # NoCommit
      /\ InRevealWindow(m.target)
      /\ \E b \in blocks : b >= m.target
      /\ m.release # None => releases[m.release].authority = m.royalty
      /\ registry.nextIndex < MaxIndex
      => ENABLED \E r \in Releases \cup {None} : RevealMint(k, r) \/ RevealAvatarMint(k, r)

\* No commit account stays open for ever, whatever governance, the Stellar
\* program and the minter do.
EveryCommitSettles == \A k \in Keys : commits[k] # NoCommit ~> commits[k] = NoCommit
=============================================================================
