-------------------------- MODULE MintCommitProofs --------------------------
(***************************************************************************)
(* Safety of paid minting, for any minters, intents, releases, splits and  *)
(* chains: its invariant; what the fee destinations receive; sums over     *)
(* finite sets, and the fees as such a sum; and the proof that it          *)
(* implements CommitReveal.                                                *)
(***************************************************************************)
EXTENDS MintCommit, RegistryProofs, SlotHashesProofs

USE PubkeysAssumption, RegistryAssumption, FeesAssumption, MintCommitAssumption

\* Every open commit has the receipt of what was paid for it.
Receipted ==
  \A k \in Keys : commits[k] # NoCommit =>
    \E rc \in receipts :
      /\ rc.key = k /\ rc.target = commits[k].target
      /\ rc.release = commits[k].release /\ rc.royalty = commits[k].royalty

MintInv ==
  /\ RegistryInv
  /\ ClockTypeOK
  /\ FeesTypeOK
  /\ MintTypeOK
  /\ Receipted
  /\ RoyaltyFollowsFee
  /\ FighterMintsHaveProof

\* The parts of the invariant that speak of commits, mints and receipts.
MintPart == MintTypeOK /\ Receipted /\ RoyaltyFollowsFee /\ FighterMintsHaveProof

-----------------------------------------------------------------------------
(* Fees *)

LEMMA FeeSliceType ==
  ASSUME NEW amount \in Nat, NEW bps \in Nat
  PROVE  FeeSlice(amount, bps) \in Nat
<1>1. amount * bps \in Nat
  OBVIOUS
<1>2. QED
  BY <1>1 DEF FeeSlice, BpsDenominator

\* Charging a fee leaves every balance a number of lamports.
LEMMA ChargeFeeType ==
  ASSUME RegistryTypeOK, FeesTypeOK, NEW fee \in Nat, NEW r, ChargeFee(fee, r)
  PROVE  FeesTypeOK'
<1> DEFINE c == registry.config
<1>1. c \in Config
  BY DEF RegistryTypeOK, ArenaRegistry
<1>2. c.sinkBps \in Nat /\ c.creatorBps \in Nat
  BY <1>1 DEF Config
<1>3. SinkAmount(fee, c) \in Nat
  BY <1>2, FeeSliceType DEF SinkAmount
<1>4. CreatorAmount(fee, c, r) \in Nat
  BY <1>2, FeeSliceType DEF CreatorAmount
<1>5. PlatformAmount(fee, c, r) \in Nat
  <2>1. PlatformAmount(fee, c, r) \in Int
    BY <1>3, <1>4 DEF PlatformAmount
  <2>2. PlatformAmount(fee, c, r) >= 0
    BY DEF ChargeFee
  <2>3. QED
    BY <2>1, <2>2
<1>6. balance' = Distribute(fee, c, r)
  BY DEF ChargeFee
<1> HIDE DEF c
<1>7. ASSUME NEW a \in Accounts \cup Releases
      PROVE  balance[a] + (IF a = r THEN CreatorAmount(fee, c, r) ELSE 0)
                        + (IF a = c.treasury THEN PlatformAmount(fee, c, r) ELSE 0)
                        + (IF a = c.sink THEN SinkAmount(fee, c) ELSE 0) \in Nat
  BY <1>3, <1>4, <1>5 DEF FeesTypeOK
<1>8. QED
  BY <1>6, <1>7 DEF FeesTypeOK, Distribute

-----------------------------------------------------------------------------
(* Initial states *)

LEMMA InitMintInv == Init => MintInv
<1>1. SUFFICES ASSUME Init PROVE MintInv
  OBVIOUS
<1>2. RegistryInv
  BY <1>1, RegistryInvInit DEF Init
<1>3. ClockTypeOK
  BY <1>1, SlotHashesAssumption DEF Init, ClockInit, ClockTypeOK
<1>4. FeesTypeOK
  BY <1>1 DEF Init, FeesTypeOK
<1>5. MintTypeOK
  BY <1>1 DEF Init, MintTypeOK, ReleaseStatus
<1>6. Receipted /\ RoyaltyFollowsFee /\ FighterMintsHaveProof
  BY <1>1 DEF Init, Receipted, RoyaltyFollowsFee, FighterMintsHaveProof
<1>7. QED
  BY <1>2, <1>3, <1>4, <1>5, <1>6 DEF MintInv

-----------------------------------------------------------------------------
(* Steps *)

\* An open commit is typed: only NoCommit has the idle target.
LEMMA OpenCommit ==
  ASSUME MintTypeOK, NEW k \in Keys
  PROVE  /\ commits[k] # NoCommit => commits[k] \in MintCommitAccount
         /\ commits[k] # NoCommit <=> commits[k].target # Idle
BY DEF MintTypeOK, MintCommitAccount, NoCommit

\* A step that leaves commits, mints and receipts alone, and releases typed.
LEMMA MintPartKept ==
  ASSUME MintPart, UNCHANGED <<commits, minted, receipts>>,
         releases' \in [Releases -> [status : ReleaseStatus, authority : Wallets]]
  PROVE  MintPart'
BY DEF MintPart, MintTypeOK, Receipted, RoyaltyFollowsFee, FighterMintsHaveProof

LEMMA CommitInv ==
  ASSUME MintInv, NEW k \in Keys, NEW i \in Intents, NEW r \in Releases \cup {None},
         CommitMint(k, i, r)
  PROVE  MintInv'
<1> DEFINE new == [target |-> slot + Delay, intent |-> i, release |-> r,
                   royalty |-> RoyaltyRecipient(r)]
           rc == [key |-> k, target |-> slot + Delay, fee |-> registry.config.fee,
                  release |-> r, royalty |-> RoyaltyRecipient(r)]
<1>1. /\ commits' = [commits EXCEPT ![k] = new] /\ receipts' = receipts \cup {rc}
      /\ signer' = k[1] /\ commits[k] = NoCommit /\ ChargeFee(registry.config.fee, r)
      /\ UNCHANGED <<registry, upgradeAuthority, issued, slot, blocks, releases, minted, settled>>
  BY DEF CommitMint, clockVars
<1>2. registry.config \in Config /\ registry.config.treasury # None
  BY <1>1 DEF MintInv, RegistryInv, RegistryTypeOK, ArenaRegistry, ChargeFee
<1>3. RegistryInv'
  <2>1. k[1] \in Wallets
    BY DEF Keys
  <2>2. QED
    BY <1>1, <2>1 DEF MintInv, RegistryInv, RegistryTypeOK, IssuedInOrder, LegacyUngoverned,
                      ConfiguredIsValid, ValidateRegistryConfig
<1>4. ClockTypeOK'
  BY <1>1 DEF MintInv, ClockTypeOK
<1>5. FeesTypeOK'
  BY <1>1, <1>2, ChargeFeeType DEF MintInv, RegistryInv, Config
<1>6. new \in MintCommitAccount
  <2>1. slot + Delay \in Nat \ {Idle}
    BY SlotHashesAssumption DEF MintInv, ClockTypeOK, Idle
  <2>2. RoyaltyRecipient(r) \in Wallets \cup Accounts
    BY <1>2 DEF RoyaltyRecipient, MintInv, MintTypeOK, Config
  <2>3. QED
    BY <2>1, <2>2 DEF MintCommitAccount
<1>7. rc.key = k /\ rc.target = new.target /\ rc.release = new.release
      /\ rc.royalty = new.royalty
  OBVIOUS
<1> HIDE DEF new, rc
<1>8. MintTypeOK'
  BY <1>1, <1>6 DEF MintInv, MintTypeOK
<1>9. Receipted'
  <2>1. SUFFICES ASSUME NEW j \in Keys, commits'[j] # NoCommit
                 PROVE  \E q \in receipts' :
                          /\ q.key = j /\ q.target = commits'[j].target
                          /\ q.release = commits'[j].release /\ q.royalty = commits'[j].royalty
    BY DEF Receipted
  <2>2. CASE j = k
    <3>1. commits'[k] = new
      BY <1>1 DEF MintInv, MintTypeOK
    <3>2. QED
      BY <1>1, <1>7, <2>2, <3>1
  <2>3. CASE j # k
    <3>1. commits'[j] = commits[j]
      BY <1>1, <2>3 DEF MintInv, MintTypeOK
    <3>2. QED
      BY <1>1, <2>1, <3>1 DEF MintInv, Receipted
  <2>4. QED
    BY <2>2, <2>3
<1>10. RoyaltyFollowsFee' /\ FighterMintsHaveProof'
  BY <1>1 DEF MintInv, RoyaltyFollowsFee, FighterMintsHaveProof
<1>11. QED
  BY <1>3, <1>4, <1>5, <1>8, <1>9, <1>10 DEF MintInv

\* Closing a commit account keeps the receipts of the others.
LEMMA SettleTypes ==
  ASSUME MintPart, NEW k \in Keys, NEW e, Settle(k, e), UNCHANGED <<releases, receipts>>
  PROVE  MintTypeOK' /\ Receipted'
<1>1. commits' = [commits EXCEPT ![k] = NoCommit]
  BY DEF Settle
<1>2. MintTypeOK'
  BY <1>1 DEF MintPart, MintTypeOK
<1>3. Receipted'
  <2>1. ASSUME NEW j \in Keys, commits'[j] # NoCommit PROVE commits'[j] = commits[j]
    BY <1>1, <2>1 DEF MintPart, MintTypeOK
  <2>2. QED
    BY <2>1 DEF MintPart, Receipted
<1>4. QED
  BY <1>2, <1>3

LEMMA CloseInv ==
  ASSUME MintInv, NEW k \in Keys, CloseExpiredCommit(k)
  PROVE  MintInv'
<1>1. /\ Settle(k, Expired)
      /\ UNCHANGED <<registry, upgradeAuthority, signer, issued, slot, blocks,
                     releases, balance, minted, receipts>>
  BY DEF CloseExpiredCommit, registryVars, clockVars
<1>2. MintTypeOK' /\ Receipted'
  BY <1>1, SettleTypes DEF MintInv, MintPart
<1>3. RegistryInv' /\ ClockTypeOK' /\ FeesTypeOK'
  BY <1>1 DEF MintInv, RegistryInv, RegistryTypeOK, IssuedInOrder, LegacyUngoverned,
              ConfiguredIsValid, ValidateRegistryConfig, ClockTypeOK, FeesTypeOK
<1>4. RoyaltyFollowsFee' /\ FighterMintsHaveProof'
  BY <1>1 DEF MintInv, RoyaltyFollowsFee, FighterMintsHaveProof
<1>5. QED
  BY <1>2, <1>3, <1>4 DEF MintInv

\* A reveal mints what its own commit was paid for.
LEMMA RevealInv ==
  ASSUME MintInv, NEW k \in Keys, NEW r \in Releases \cup {None}, NEW asset,
         commits[k] # NoCommit, RevealAs(k, r, asset),
         commits[k].intent.symbol = "fighter" <=> asset = "ArenaAssetData"
  PROVE  MintInv'
<1> DEFINE m == commits[k]
           n == [index |-> registry.nextIndex, asset |-> asset, symbol |-> m.intent.symbol,
                 key |-> k, target |-> m.target, release |-> r, royalty |-> m.royalty]
<1>1. PICK e \in blocks : CanReveal(k, r, e) /\ Settle(k, e)
  BY DEF RevealAs
<1>2. /\ minted' = minted \cup {n} /\ m.release = r
      /\ Loadable /\ TakeIndex(k[1])
      /\ UNCHANGED <<slot, blocks, releases, balance, receipts>>
  BY <1>1 DEF RevealAs, CanReveal, BoundAsCommitted, clockVars
<1>3. MintTypeOK' /\ Receipted'
  BY <1>1, <1>2, SettleTypes DEF MintInv, MintPart
<1>4. RegistryInv'
  <2>1. k[1] \in Wallets
    BY DEF Keys
  <2>2. QED
    BY <1>2, <2>1, TakeIndexInv DEF MintInv
<1>5. ClockTypeOK' /\ FeesTypeOK'
  BY <1>2 DEF MintInv, ClockTypeOK, FeesTypeOK
<1>6. PICK rc \in receipts :
        rc.key = k /\ rc.target = m.target /\ rc.release = m.release /\ rc.royalty = m.royalty
  BY DEF MintInv, Receipted
<1>7. n.key = k /\ n.target = m.target /\ n.release = r /\ n.royalty = m.royalty
      /\ (n.symbol = "fighter" <=> n.asset = "ArenaAssetData")
  OBVIOUS
<1> HIDE DEF n, m
<1>8. RoyaltyFollowsFee'
  BY <1>2, <1>6, <1>7 DEF MintInv, RoyaltyFollowsFee
<1>9. FighterMintsHaveProof'
  BY <1>2, <1>7 DEF MintInv, FighterMintsHaveProof
<1>10. QED
  BY <1>3, <1>4, <1>5, <1>8, <1>9 DEF MintInv

LEMMA DirectMintInv ==
  ASSUME MintInv, NEW w \in Wallets, NEW i \in Intents, NEW r \in Releases \cup {None},
         MintArenaItem(w, i, r)
  PROVE  MintInv'
<1> DEFINE n == [index |-> registry.nextIndex, asset |-> "ArenaItem", symbol |-> i.symbol,
                 key |-> None, target |-> 0, release |-> r,
                 royalty |-> IF RoyaltyRecipient(r) = None THEN w ELSE RoyaltyRecipient(r)]
<1>1. minted' = minted \cup {n} /\ n.key = None
  <2>1. minted' = minted \cup {n}
    BY DEF MintArenaItem
  <2>2. n.key = None
    OBVIOUS
  <2>3. QED
    BY <2>1, <2>2
<1> HIDE DEF n
<1>2. /\ Loadable /\ TakeIndex(w)
      /\ UNCHANGED <<slot, blocks, commits, releases, balance, settled, receipts>>
  BY DEF MintArenaItem, clockVars
<1>3. RegistryInv'
  BY <1>2, TakeIndexInv DEF MintInv
<1>4. ClockTypeOK' /\ FeesTypeOK' /\ MintTypeOK' /\ Receipted'
  BY <1>2 DEF MintInv, ClockTypeOK, FeesTypeOK, MintTypeOK, Receipted
<1>5. RoyaltyFollowsFee' /\ FighterMintsHaveProof'
  BY <1>1, <1>2 DEF MintInv, RoyaltyFollowsFee, FighterMintsHaveProof
<1>6. QED
  BY <1>3, <1>4, <1>5 DEF MintInv

\* Whatever becomes of the releases, receipts and mints stay as they were.
LEMMA StellarInv ==
  ASSUME MintInv, Stellar
  PROVE  MintInv'
<1>1. UNCHANGED <<registry, upgradeAuthority, signer, issued, slot, blocks, commits,
                  balance, minted, settled, receipts>>
  BY DEF Stellar, registryVars, clockVars
<1>2. releases' \in [Releases -> [status : ReleaseStatus, authority : Wallets]]
  <2>1. releases \in [Releases -> [status : ReleaseStatus, authority : Wallets]]
    BY DEF MintInv, MintTypeOK
  <2>2. ASSUME NEW r \in Releases, FinalizeRelease(r) \/ LinkRelease(r)
        PROVE  releases' \in [Releases -> [status : ReleaseStatus, authority : Wallets]]
    BY <2>1, <2>2 DEF FinalizeRelease, LinkRelease, ReleaseStatus
  <2>3. ASSUME NEW r \in Releases, NEW w \in Wallets, TransferRelease(r, w)
        PROVE  releases' \in [Releases -> [status : ReleaseStatus, authority : Wallets]]
    BY <2>1, <2>3 DEF TransferRelease
  <2>4. QED
    BY <2>2, <2>3 DEF Stellar
<1>3. MintPart'
  BY <1>1, <1>2, MintPartKept DEF MintInv, MintPart
<1>4. RegistryInv' /\ ClockTypeOK' /\ FeesTypeOK'
  BY <1>1 DEF MintInv, RegistryInv, RegistryTypeOK, IssuedInOrder, LegacyUngoverned,
              ConfiguredIsValid, ValidateRegistryConfig, ClockTypeOK, FeesTypeOK
<1>5. QED
  BY <1>3, <1>4 DEF MintInv, MintPart

LEMMA EnvironmentInv ==
  ASSUME MintInv, Governance \/ AdvanceClock
  PROVE  MintInv'
<1>1. UNCHANGED <<commits, releases, balance, minted, settled, receipts>>
  BY DEF Governance, AdvanceClock, mintVars
<1>2. MintPart' /\ FeesTypeOK'
  BY <1>1, MintPartKept DEF MintInv, MintPart, MintTypeOK, FeesTypeOK
<1>3. RegistryInv'
  <2>1. CASE Governance
    BY <2>1, RegistryInvNext DEF Governance, MintInv
  <2>2. CASE AdvanceClock
    BY <2>2, RegistryInvNext DEF AdvanceClock, MintInv
  <2>3. QED
    BY <2>1, <2>2
<1>4. ClockTypeOK'
  <2>1. CASE Governance
    BY <2>1 DEF Governance, MintInv, ClockTypeOK, clockVars
  <2>2. CASE AdvanceClock
    BY <2>2, ClockTypeCorrect DEF AdvanceClock, MintInv
  <2>3. QED
    BY <2>1, <2>2
<1>5. QED
  BY <1>2, <1>3, <1>4 DEF MintInv, MintPart

LEMMA NextMintInv == MintInv /\ [Next]_vars => MintInv'
<1>1. SUFFICES ASSUME MintInv, [Next]_vars PROVE MintInv'
  OBVIOUS
<1>2. ASSUME NEW k \in Keys, NEW i \in Intents, NEW r \in Releases \cup {None},
             CommitMint(k, i, r)
      PROVE  MintInv'
  BY <1>1, <1>2, CommitInv
<1>3. ASSUME NEW k \in Keys, NEW r \in Releases \cup {None}, RevealMint(k, r)
      PROVE  MintInv'
  BY <1>1, <1>3, RevealInv DEF RevealMint, GearReveals, FighterIntent
<1>4. ASSUME NEW k \in Keys, NEW r \in Releases \cup {None}, RevealAvatarMint(k, r)
      PROVE  MintInv'
  BY <1>1, <1>4, RevealInv DEF RevealAvatarMint, FighterReveals, FighterIntent
<1>5. ASSUME NEW k \in Keys, CloseExpiredCommit(k) PROVE MintInv'
  BY <1>1, <1>5, CloseInv
<1>6. ASSUME NEW w \in Wallets, NEW i \in Intents, NEW r \in Releases \cup {None},
             MintArenaItem(w, i, r)
      PROVE  MintInv'
  BY <1>1, <1>6, DirectMintInv
<1>7. CASE Stellar \/ Governance \/ AdvanceClock
  BY <1>1, <1>7, StellarInv, EnvironmentInv
<1>8. CASE UNCHANGED vars
  <2>1. UNCHANGED <<registryVars, clockVars, commits, releases, balance, minted, receipts>>
    BY <1>8 DEF vars, mintVars
  <2>2. MintPart' /\ FeesTypeOK'
    BY <1>1, <2>1, MintPartKept DEF MintInv, MintPart, MintTypeOK, FeesTypeOK
  <2>3. RegistryInv' /\ ClockTypeOK'
    BY <1>1, <2>1, RegistryInvNext DEF MintInv, ClockTypeOK, clockVars
  <2>4. QED
    BY <2>2, <2>3 DEF MintInv, MintPart
<1>9. QED
  BY <1>1, <1>2, <1>3, <1>4, <1>5, <1>6, <1>7, <1>8 DEF Next

-----------------------------------------------------------------------------
LEMMA MintInvariance == Spec => []MintInv
BY InitMintInv, NextMintInv, PTL DEF Spec

\* Every reachable state of the composed system is well typed.
THEOREM TypeCorrect == Spec => []TypeOK
<1>1. MintInv => TypeOK
  BY DEF MintInv, RegistryInv, TypeOK
<1>2. QED
  BY <1>1, MintInvariance, PTL

\* The creator a mint shows and pays royalties to is the one whose vault got the
\* creator slice of that very commit.
THEOREM RoyaltyPaid == Spec => []RoyaltyFollowsFee
<1>1. MintInv => RoyaltyFollowsFee
  BY DEF MintInv
<1>2. QED
  BY <1>1, MintInvariance, PTL

\* Paid fighter intents become fighters and paid gear intents become gear.
THEOREM FightersProven == Spec => []FighterMintsHaveProof
<1>1. MintInv => FighterMintsHaveProof
  BY DEF MintInv
<1>2. QED
  BY <1>1, MintInvariance, PTL

-----------------------------------------------------------------------------
(* What the destinations receive *)

\* A destination gets a slice that leaves it above the rent minimum, or none.
LEMMA ChargedSafely ==
  ASSUME MintInv, NEW fee \in Nat, NEW r \in Releases \cup {None}, ChargeFee(fee, r),
         NEW a \in Accounts
  PROVE  balance'[a] = balance[a] \/ balance'[a] >= RentMinimum
<1> DEFINE c == registry.config
           p == PlatformAmount(fee, c, r)
           s == SinkAmount(fee, c)
           toPlatform == IF a = c.treasury THEN p ELSE 0
           toSink == IF a = c.sink THEN s ELSE 0
<1>1. c \in Config /\ balance[a] \in Nat /\ RentMinimum \in Nat
  BY DEF MintInv, RegistryInv, RegistryTypeOK, ArenaRegistry, FeesTypeOK
<1>2. s \in Nat /\ p \in Int /\ p >= 0
  <2>1. s \in Nat /\ CreatorAmount(fee, c, r) \in Nat
    BY <1>1, FeeSliceType DEF Config, SinkAmount, CreatorAmount
  <2>2. QED
    BY <2>1 DEF PlatformAmount, ChargeFee
<1>3. a = c.treasury => p = 0 \/ balance[a] + p >= RentMinimum
  BY DEF ChargeFee, RequireRentSafe
<1>4. a = c.sink => s = 0 \/ balance[a] + s >= RentMinimum
  BY DEF ChargeFee, RequireRentSafe
<1>5. balance'[a] = balance[a] + toPlatform + toSink
  <2>1. a # r /\ a \in DOMAIN balance
    BY DEF MintInv, FeesTypeOK
  <2>2. balance'[a] = balance[a] + 0 + toPlatform + toSink
    BY <2>1 DEF ChargeFee, Distribute
  <2>3. QED
    BY <1>1, <1>2, <2>2
<1> HIDE DEF c, p, s
<1>6. QED
  BY <1>1, <1>2, <1>3, <1>4, <1>5

\* No other instruction touches a balance.
LEMMA OnlyCommitsPay ==
  ASSUME [Next]_vars,
         ~\E k \in Keys, i \in Intents, r \in Releases \cup {None} : CommitMint(k, i, r)
  PROVE  balance' = balance /\ receipts' = receipts
<1>1. ASSUME NEW k \in Keys, NEW r \in Releases \cup {None}, RevealMint(k, r)
      PROVE  balance' = balance /\ receipts' = receipts
  BY <1>1 DEF RevealMint, RevealAs
<1>2. ASSUME NEW k \in Keys, NEW r \in Releases \cup {None}, RevealAvatarMint(k, r)
      PROVE  balance' = balance /\ receipts' = receipts
  BY <1>2 DEF RevealAvatarMint, RevealAs
<1>3. ASSUME NEW k \in Keys, CloseExpiredCommit(k)
      PROVE  balance' = balance /\ receipts' = receipts
  BY <1>3 DEF CloseExpiredCommit
<1>4. ASSUME NEW w \in Wallets, NEW i \in Intents, NEW r \in Releases \cup {None},
             MintArenaItem(w, i, r)
      PROVE  balance' = balance /\ receipts' = receipts
  BY <1>4 DEF MintArenaItem
<1>5. CASE Stellar \/ Governance \/ AdvanceClock \/ UNCHANGED vars
  BY <1>5 DEF Stellar, Governance, AdvanceClock, vars, mintVars
<1>6. QED
  BY <1>1, <1>2, <1>3, <1>4, <1>5 DEF Next

\* A destination that received anything is above the rent minimum, in whatever
\* order the slices of several commits and several configurations arrive.
THEOREM RentExempt == Spec => []DestinationsRentExempt
<1>1. Init => DestinationsRentExempt
  BY DEF Init, DestinationsRentExempt
<1>2. MintInv /\ DestinationsRentExempt /\ [Next]_vars => DestinationsRentExempt'
  <2>1. SUFFICES ASSUME MintInv, DestinationsRentExempt, [Next]_vars
                 PROVE  DestinationsRentExempt'
    OBVIOUS
  <2>2. ASSUME NEW k \in Keys, NEW i \in Intents, NEW r \in Releases \cup {None},
               CommitMint(k, i, r)
        PROVE  DestinationsRentExempt'
    <3>1. registry.config.fee \in Nat /\ ChargeFee(registry.config.fee, r)
      BY <2>1, <2>2 DEF CommitMint, MintInv, RegistryInv, RegistryTypeOK, ArenaRegistry, Config
    <3>2. \A a \in Accounts : balance'[a] = balance[a] \/ balance'[a] >= RentMinimum
      BY <2>1, <3>1, ChargedSafely
    <3>3. QED
      BY <2>1, <3>2 DEF DestinationsRentExempt
  <2>3. CASE balance' = balance
    BY <2>1, <2>3 DEF DestinationsRentExempt
  <2>4. QED
    BY <2>1, <2>2, <2>3, OnlyCommitsPay
<1>3. QED
  BY <1>1, <1>2, MintInvariance, PTL DEF Spec

-----------------------------------------------------------------------------
(* Sums over finite sets *)

Picked(s) == CHOOSE x \in s : TRUE

\* One step of MapThenSumSet, and what it computes on the subsets of S.
SumStep(i, f, s) == IF s = {} THEN 0 ELSE f[Picked(s)] + i[s \ {Picked(s)}]
Sums(i, f, S) == i = [s \in SUBSET S |-> SumStep(i, f, s)]
Total(f, S) == LET i == CHOOSE i : Sums(i, f, S) IN i[S]

\* The sets a sum is taken over.
Summable(f, S) == IsFiniteSet(S) /\ \A x \in S : f[x] \in Int

Same(f, g, T) == \A x \in T : f[x] = g[x]

\* Leaving out an element of a subset.
LEMMA PickedOut ==
  ASSUME NEW S, IsFiniteSet(S), NEW s \in SUBSET S, NEW x \in s
  PROVE  /\ s \ {x} \in SUBSET S
         /\ Cardinality(s) \in Nat /\ Cardinality(s \ {x}) \in Nat
         /\ Cardinality(s \ {x}) = Cardinality(s) - 1
         /\ Picked(s) \in s
<1>1. IsFiniteSet(s)
  BY FS_Subset
<1>2. Cardinality(s) \in Nat /\ IsFiniteSet(s \ {x}) /\ Cardinality(s \ {x}) = Cardinality(s) - 1
  BY <1>1, FS_CardinalityType, FS_RemoveElement
<1>3. Cardinality(s \ {x}) \in Nat
  BY <1>2, FS_CardinalityType
<1>4. QED
  BY <1>2, <1>3 DEF Picked

\* A non-empty set of subsets has a smallest one.
LEMMA SmallestSubset ==
  ASSUME NEW S, IsFiniteSet(S), NEW B \in SUBSET (SUBSET S), B # {}
  PROVE  \E s \in B : \A t \in B : Cardinality(s) <= Cardinality(t)
<1> DEFINE T == {Cardinality(s) : s \in B}
<1>1. \A s \in B : Cardinality(s) \in Nat
  BY FS_Subset, FS_CardinalityType
<1>2. T \in SUBSET Nat /\ T # {}
  BY <1>1
<1>3. \E m \in T : \A n \in T : m <= n
  <2> HIDE DEF T
  <2>1. QED
    BY <1>2, Least
<1>4. QED
  BY <1>3

\* The subsets of fewer than n elements, and a sum over them.
Fewer(S, n) == {s \in SUBSET S : Cardinality(s) < n}
SumsFewer(i, f, S, n) ==
  i \in [Fewer(S, n) -> Int] /\ \A s \in Fewer(S, n) : i[s] = SumStep(i, f, s)

\* The recursion of MapThenSumSet has a solution.
LEMMA SumsExist ==
  ASSUME NEW f, NEW S, Summable(f, S)
  PROVE  \E i \in [SUBSET S -> Int] : Sums(i, f, S)
<1> DEFINE Bad == {n \in Nat : ~\E i : SumsFewer(i, f, S, n)}
<1>1. IsFiniteSet(S) /\ \A x \in S : f[x] \in Int
  BY DEF Summable
<1>2. \A s \in SUBSET S : Cardinality(s) \in Nat /\ Cardinality(s) <= Cardinality(S)
  BY <1>1, FS_Subset, FS_CardinalityType
<1>3. ASSUME NEW m \in Bad, \A n \in Bad : m <= n
      PROVE  FALSE
  <2>1. CASE m = 0
    <3>1. Fewer(S, 0) = {}
      BY <1>2 DEF Fewer
    <3>2. SumsFewer([s \in {} |-> 0], f, S, 0)
      BY <3>1 DEF SumsFewer
    <3>3. QED
      BY <2>1, <3>2
  <2>2. CASE m # 0
    <3>1. m \in Nat /\ m - 1 \in Nat /\ m - 1 \notin Bad
      BY <1>3, <2>2
    <3>2. PICK i : SumsFewer(i, f, S, m - 1)
      BY <3>1
    <3> HIDE DEF Bad
    <3> DEFINE j == [s \in Fewer(S, m) |-> SumStep(i, f, s)]
    <3>3. ASSUME NEW s \in Fewer(S, m), s # {}
          PROVE  /\ s \ {Picked(s)} \in Fewer(S, m - 1) /\ s \ {Picked(s)} \in Fewer(S, m)
                 /\ f[Picked(s)] \in Int
      <4>1. s \in SUBSET S /\ Cardinality(s) < m
        BY DEF Fewer
      <4>2. Picked(s) \in s
        BY <3>3 DEF Picked
      <4>3. /\ s \ {Picked(s)} \in SUBSET S
            /\ Cardinality(s) \in Nat /\ Cardinality(s \ {Picked(s)}) = Cardinality(s) - 1
        BY <1>1, <4>1, <4>2, PickedOut
      <4>4. QED
        BY <1>1, <3>1, <4>1, <4>2, <4>3 DEF Fewer
    <3>4. j \in [Fewer(S, m) -> Int]
      BY <3>2, <3>3 DEF SumsFewer, SumStep
    <3>5. ASSUME NEW s \in Fewer(S, m - 1) PROVE j[s] = i[s]
      <4>1. s \in Fewer(S, m)
        BY <1>2, <3>1 DEF Fewer
      <4>2. QED
        BY <3>2, <4>1 DEF SumsFewer
    <3>6. ASSUME NEW s \in Fewer(S, m) PROVE j[s] = SumStep(j, f, s)
      <4>1. j[s] = SumStep(i, f, s)
        OBVIOUS
      <4>2. s # {} => j[s \ {Picked(s)}] = i[s \ {Picked(s)}]
        BY <3>3, <3>5
      <4> HIDE DEF j
      <4>3. QED
        BY <4>1, <4>2 DEF SumStep
    <3> HIDE DEF j
    <3>7. SumsFewer(j, f, S, m)
      BY <3>4, <3>6 DEF SumsFewer
    <3>8. QED
      BY <3>7 DEF Bad
  <2>3. QED
    BY <2>1, <2>2
<1>4. Bad = {}
  <2>1. Bad \in SUBSET Nat
    OBVIOUS
  <2> HIDE DEF Bad
  <2>2. QED
    BY <1>3, <2>1, Least
<1>5. Cardinality(S) + 1 \in Nat /\ Fewer(S, Cardinality(S) + 1) = SUBSET S
  BY <1>2 DEF Fewer
<1>6. PICK i : SumsFewer(i, f, S, Cardinality(S) + 1)
  BY <1>4, <1>5
<1>7. i \in [SUBSET S -> Int] /\ \A s \in SUBSET S : i[s] = SumStep(i, f, s)
  BY <1>5, <1>6 DEF SumsFewer
<1>8. QED
  BY <1>7 DEF Sums

\* A sum depends only on what is summed: two solutions agree where both speak.
LEMMA SumsAgree ==
  ASSUME NEW f, NEW g, NEW S, NEW T \in SUBSET S, IsFiniteSet(S), Same(f, g, T),
         NEW i, Sums(i, f, S), NEW j, Sums(j, g, T)
  PROVE  i[T] = j[T]
<1> DEFINE B == {s \in SUBSET T : i[s] # j[s]}
<1>1. IsFiniteSet(T)
  BY FS_Subset
<1>2. ASSUME NEW s \in B, \A t \in B : Cardinality(s) <= Cardinality(t)
      PROVE  FALSE
  <2>1. s \in SUBSET T /\ s \in SUBSET S /\ i[s] # j[s]
    OBVIOUS
  <2>2. i[s] = SumStep(i, f, s) /\ j[s] = SumStep(j, g, s)
    BY <2>1 DEF Sums
  <2>3. s # {}
    BY <2>1, <2>2 DEF SumStep
  <2>4. Picked(s) \in s
    BY <2>3 DEF Picked
  <2>5. /\ s \ {Picked(s)} \in SUBSET T
        /\ Cardinality(s) \in Nat /\ Cardinality(s \ {Picked(s)}) \in Nat
        /\ Cardinality(s \ {Picked(s)}) = Cardinality(s) - 1
    BY <1>1, <2>1, <2>4, PickedOut
  <2>6. i[s \ {Picked(s)}] # j[s \ {Picked(s)}]
    BY <2>1, <2>2, <2>3, <2>4 DEF SumStep, Same
  <2>7. Cardinality(s) <= Cardinality(s \ {Picked(s)})
    BY <1>2, <2>5, <2>6
  <2>8. QED
    BY <2>5, <2>7
<1>3. B \in SUBSET (SUBSET T)
  OBVIOUS
<1>4. B = {}
  <2> HIDE DEF B
  <2>1. QED
    BY <1>1, <1>2, <1>3, SmallestSubset
<1>5. QED
  BY <1>4

\* The sum over a subset, from any solution over the whole.
LEMMA TotalIs ==
  ASSUME NEW f, NEW g, NEW S, NEW T \in SUBSET S, Summable(f, S), Same(f, g, T),
         NEW i, Sums(i, f, S)
  PROVE  Total(g, T) = i[T]
<1>1. Summable(g, T)
  BY FS_Subset DEF Summable, Same
<1>2. \E j : Sums(j, g, T)
  BY <1>1, SumsExist
<1> DEFINE j == CHOOSE j : Sums(j, g, T)
<1>3. Sums(j, g, T)
  BY <1>2
<1>4. Total(g, T) = j[T]
  BY DEF Total
<1> HIDE DEF j
<1>5. IsFiniteSet(S)
  BY DEF Summable
<1>6. i[T] = j[T]
  BY <1>3, <1>5, SumsAgree
<1>7. QED
  BY <1>4, <1>6

\* Any element may be taken out first.
TakesOut(i, f, S) == \A s \in SUBSET S : \A x \in s : i[s] = f[x] + i[s \ {x}]

LEMMA SumTakesOut ==
  ASSUME NEW f, NEW S, Summable(f, S), NEW i \in [SUBSET S -> Int], Sums(i, f, S)
  PROVE  TakesOut(i, f, S)
<1> DEFINE B == {s \in SUBSET S : \E x \in s : i[s] # f[x] + i[s \ {x}]}
<1>1. IsFiniteSet(S) /\ \A x \in S : f[x] \in Int
  BY DEF Summable
<1>2. ASSUME NEW s \in SUBSET S, s # {}
      PROVE  /\ Picked(s) \in s /\ s \ {Picked(s)} \in SUBSET S
             /\ i[s] = f[Picked(s)] + i[s \ {Picked(s)}]
  BY <1>2 DEF Sums, SumStep, Picked
<1>3. ASSUME NEW s \in B, \A t \in B : Cardinality(s) <= Cardinality(t)
      PROVE  FALSE
  <2>1. PICK x \in s : i[s] # f[x] + i[s \ {x}]
    BY <1>3
  <2>2. s \in SUBSET S
    BY <1>3
  <2> DEFINE y == Picked(s)
  <2>3. y \in s /\ i[s] = f[y] + i[s \ {y}]
    BY <1>2, <2>1, <2>2
  <2> HIDE DEF y
  <2>4. x # y
    BY <2>1, <2>3
  <2>5. /\ s \ {x} \in SUBSET S /\ s \ {y} \in SUBSET S
        /\ Cardinality(s) \in Nat
        /\ Cardinality(s \ {x}) = Cardinality(s) - 1
        /\ Cardinality(s \ {y}) = Cardinality(s) - 1
    BY <1>1, <2>1, <2>2, <2>3, PickedOut
  <2>6. s \ {x} \notin B /\ s \ {y} \notin B
    <3> HIDE DEF B
    <3>1. QED
      BY <1>3, <2>5
  <2>7. x \in s \ {y} /\ y \in s \ {x} /\ (s \ {y}) \ {x} = (s \ {x}) \ {y}
    BY <2>1, <2>3, <2>4
  <2> DEFINE rest == (s \ {x}) \ {y}
  <2>8. i[s \ {y}] = f[x] + i[rest] /\ i[s \ {x}] = f[y] + i[rest]
    BY <2>5, <2>6, <2>7
  <2>9. f[x] \in Int /\ f[y] \in Int /\ i[rest] \in Int
    BY <1>1, <2>1, <2>2, <2>3
  <2> HIDE DEF rest, B
  <2>10. QED
    BY <2>1, <2>3, <2>8, <2>9
<1>4. B \in SUBSET (SUBSET S)
  OBVIOUS
<1>5. B = {}
  <2> HIDE DEF B
  <2>1. QED
    BY <1>1, <1>3, <1>4, SmallestSubset
<1>6. QED
  BY <1>5 DEF TakesOut

\* The sum of nothing, and the sum with one element more.
LEMMA TotalEmpty == ASSUME NEW f PROVE Total(f, {}) = 0
<1>1. IsFiniteSet({})
  BY FS_EmptySet
<1>2. PICK i : Sums(i, f, {})
  BY <1>1, SumsExist DEF Summable
<1>3. Total(f, {}) = i[{}]
  <2>1. Summable(f, {}) /\ Same(f, f, {}) /\ {} \in SUBSET {}
    BY <1>1 DEF Summable, Same
  <2>2. QED
    BY <1>2, <2>1, TotalIs
<1>4. QED
  BY <1>2, <1>3 DEF Sums, SumStep

OneOut(f, g, S, x) ==
  Total(f, S) = f[x] + Total(g, S \ {x}) /\ Total(g, S \ {x}) \in Int

LEMMA TotalOut ==
  ASSUME NEW f, NEW g, NEW S, NEW x, x \in S, Summable(f, S), Same(f, g, S \ {x})
  PROVE  OneOut(f, g, S, x)
<1>1. PICK i \in [SUBSET S -> Int] : Sums(i, f, S)
  BY SumsExist
<1>2. S \ {x} \in SUBSET S /\ S \in SUBSET S
  OBVIOUS
<1>3. Total(g, S \ {x}) = i[S \ {x}]
  BY <1>1, <1>2, TotalIs
<1>4. Total(f, S) = i[S]
  <2>1. Same(f, f, S)
    BY DEF Same
  <2>2. QED
    BY <1>1, <1>2, <2>1, TotalIs
<1>5. i[S] = f[x] + i[S \ {x}]
  <2>1. TakesOut(i, f, S)
    BY <1>1, SumTakesOut
  <2>2. QED
    BY <1>2, <2>1 DEF TakesOut
<1>6. QED
  BY <1>1, <1>2, <1>3, <1>4, <1>5 DEF OneOut

\* One summand grows by v, or none when the amount is zero.
Grows(f, g, S, d, v) == \A x \in S : g[x] = f[x] + (IF x = d THEN v ELSE 0)
Grown(f, g, S, v) == Total(g, S) = Total(f, S) + v /\ Total(f, S) \in Int

LEMMA TotalGrows ==
  ASSUME NEW f, NEW g, NEW S, Summable(f, S), NEW d, NEW v, v \in Int, d \in S \/ v = 0,
         Grows(f, g, S, d, v)
  PROVE  Summable(g, S) /\ Grown(f, g, S, v)
<1>1. \A x \in S : f[x] \in Int
  BY DEF Summable
<1>2. Summable(g, S)
  BY <1>1 DEF Summable, Grows
<1>3. CASE d \in S
  <2>1. /\ f[d] \in Int /\ g[d] = f[d] + v
        /\ Same(f, g, S \ {d}) /\ Same(g, g, S \ {d})
    BY <1>1, <1>3 DEF Same, Grows
  <2>2. OneOut(f, g, S, d)
    BY <1>3, <2>1, TotalOut
  <2>3. OneOut(g, g, S, d)
    BY <1>2, <1>3, <2>1, TotalOut
  <2>4. QED
    BY <1>2, <2>1, <2>2, <2>3 DEF OneOut, Grown
<1>4. CASE d \notin S
  <2>1. v = 0 /\ Same(f, g, S) /\ Same(f, f, S)
    BY <1>1, <1>4 DEF Same, Grows
  <2>2. PICK i \in [SUBSET S -> Int] : Sums(i, f, S)
    BY SumsExist
  <2>3. S \in SUBSET S
    OBVIOUS
  <2>4. Total(f, S) = i[S] /\ Total(g, S) = i[S]
    BY <2>1, <2>2, <2>3, TotalIs
  <2>5. i[S] \in Int
    BY <2>2, <2>3
  <2>6. QED
    BY <1>2, <2>1, <2>4, <2>5 DEF Grown
<1>5. QED
  BY <1>3, <1>4

\* A sum of zeros is zero.
LEMMA TotalOfZeros ==
  ASSUME NEW f, NEW S, IsFiniteSet(S), \A x \in S : f[x] = 0
  PROVE  Total(f, S) = 0
<1>1. Summable(f, S) /\ S \in SUBSET S /\ Same(f, f, S)
  BY DEF Summable, Same
<1>2. PICK i \in [SUBSET S -> Int] : Sums(i, f, S)
  BY <1>1, SumsExist
<1> DEFINE B == {s \in SUBSET S : i[s] # 0}
<1>3. ASSUME NEW s \in B, \A t \in B : Cardinality(s) <= Cardinality(t)
      PROVE  FALSE
  <2>1. s \in SUBSET S /\ i[s] # 0 /\ i[s] = SumStep(i, f, s)
    BY <1>2 DEF Sums
  <2>2. s # {}
    BY <2>1 DEF SumStep
  <2>3. Picked(s) \in s
    BY <2>2 DEF Picked
  <2>4. /\ s \ {Picked(s)} \in SUBSET S
        /\ Cardinality(s) \in Nat /\ Cardinality(s \ {Picked(s)}) = Cardinality(s) - 1
    BY <2>1, <2>3, PickedOut
  <2>5. f[Picked(s)] = 0 /\ i[s \ {Picked(s)}] \in Int
    BY <1>2, <2>1, <2>3, <2>4
  <2>6. i[s \ {Picked(s)}] # 0
    BY <2>1, <2>2, <2>5 DEF SumStep
  <2>7. Cardinality(s) <= Cardinality(s \ {Picked(s)})
    BY <1>3, <2>4, <2>6
  <2>8. QED
    BY <2>4, <2>7
<1>4. B \in SUBSET (SUBSET S)
  OBVIOUS
<1>5. B = {}
  <2> HIDE DEF B
  <2>1. QED
    BY <1>3, <1>4, SmallestSubset
<1>6. Total(f, S) = i[S]
  BY <1>2, <1>1, TotalIs
<1>7. QED
  BY <1>5, <1>1, <1>6

-----------------------------------------------------------------------------
(* Every fee is routed once *)

\* What each destination and vault received, and what each receipt paid.
Purses == Accounts \cup Releases
Received(b) == [a \in Purses |-> b[a] - InitialBalance[a]]
Paid(R) == [rc \in R |-> rc.fee]

Routed(b, R) ==
  MapThenSumSet(LAMBDA a : b[a] - InitialBalance[a], DOMAIN b)
    = MapThenSumSet(LAMBDA rc : rc.fee, R)

RoutedAsTotals(b, R) == Total(Received(b), Purses) = Total(Paid(R), R)

\* The recursions of the two sides of FeesRoutedOnce.
ReceivedSums(i, b) ==
  i = [s \in SUBSET Purses |-> IF s = {} THEN 0
         ELSE (b[Picked(s)] - InitialBalance[Picked(s)]) + i[s \ {Picked(s)}]]
PaidSums(i, R) ==
  i = [s \in SUBSET R |-> IF s = {} THEN 0 ELSE Picked(s).fee + i[s \ {Picked(s)}]]

LEMMA ReceivedTotal ==
  ASSUME NEW b, DOMAIN b = Purses
  PROVE  MapThenSumSet(LAMBDA a : b[a] - InitialBalance[a], DOMAIN b)
           = Total(Received(b), Purses)
<1>1. MapThenSumSet(LAMBDA a : b[a] - InitialBalance[a], Purses)
        = (CHOOSE i : ReceivedSums(i, b))[Purses]
  BY DEF MapThenSumSet, MapThenFoldSet, ReceivedSums, Picked
<1>2. ASSUME NEW s \in SUBSET Purses, s # {}
      PROVE  Received(b)[Picked(s)] = b[Picked(s)] - InitialBalance[Picked(s)]
  BY <1>2 DEF Received, Picked
<1>3. ASSUME NEW i
      PROVE  ReceivedSums(i, b) <=> Sums(i, Received(b), Purses)
  BY <1>2 DEF ReceivedSums, Sums, SumStep
<1>4. (CHOOSE i : ReceivedSums(i, b)) = (CHOOSE i : Sums(i, Received(b), Purses))
  BY <1>3, Zenon
<1>5. QED
  BY <1>1, <1>4 DEF Total

LEMMA PaidTotal ==
  ASSUME NEW R
  PROVE  MapThenSumSet(LAMBDA rc : rc.fee, R) = Total(Paid(R), R)
<1>1. MapThenSumSet(LAMBDA rc : rc.fee, R) = (CHOOSE i : PaidSums(i, R))[R]
  BY DEF MapThenSumSet, MapThenFoldSet, PaidSums, Picked
<1>2. ASSUME NEW s \in SUBSET R, s # {}
      PROVE  Paid(R)[Picked(s)] = Picked(s).fee
  BY <1>2 DEF Paid, Picked
<1>3. ASSUME NEW i
      PROVE  PaidSums(i, R) <=> Sums(i, Paid(R), R)
  BY <1>2 DEF PaidSums, Sums, SumStep
<1>4. (CHOOSE i : PaidSums(i, R)) = (CHOOSE i : Sums(i, Paid(R), R))
  BY <1>3, Zenon
<1>5. QED
  BY <1>1, <1>4 DEF Total

LEMMA RoutedIffTotals ==
  ASSUME NEW b, DOMAIN b = Purses, NEW R
  PROVE  Routed(b, R) <=> RoutedAsTotals(b, R)
BY ReceivedTotal, PaidTotal DEF Routed, RoutedAsTotals

\* The receipts: finitely many, and none of a commit yet to be made, since a
\* commit settles only after its target, and the next one aims later.
ReceiptsOK ==
  /\ IsFiniteSet(receipts)
  /\ \A rc \in receipts :
       /\ rc.fee \in Nat /\ rc.target \in Nat /\ rc.key \in Keys
       /\ commits[rc.key] # NoCommit => rc.target <= commits[rc.key].target
       /\ commits[rc.key] = NoCommit => rc.target < slot

FeeInv == ReceiptsOK /\ FeesRoutedOnce

\* The three slices make up the fee.
LEMMA FeeRouted ==
  ASSUME MintInv, NEW fee \in Nat, NEW r \in Releases \cup {None}, ChargeFee(fee, r)
  PROVE  Grown(Received(balance), Received(balance'), Purses, fee)
<1> DEFINE c == registry.config
           cr == CreatorAmount(fee, c, r)
           pl == PlatformAmount(fee, c, r)
           sk == SinkAmount(fee, c)
           g0 == Received(balance)
           g1 == [a \in Purses |-> g0[a] + (IF a = r THEN cr ELSE 0)]
           g2 == [a \in Purses |-> g1[a] + (IF a = c.treasury THEN pl ELSE 0)]
           g3 == Received(balance')
<1>1. /\ c \in Config /\ c.treasury \in Accounts /\ c.sink \in Accounts
      /\ \A a \in Purses : balance[a] \in Nat /\ InitialBalance[a] \in Nat
      /\ DOMAIN balance = Purses
  BY DEF MintInv, RegistryInv, RegistryTypeOK, ArenaRegistry, FeesTypeOK, Config, ChargeFee, Purses
<1>2. cr \in Nat /\ sk \in Nat /\ pl \in Int /\ pl = fee - sk - cr
  <2>1. cr \in Nat /\ sk \in Nat
    BY <1>1, FeeSliceType DEF Config, SinkAmount, CreatorAmount
  <2>2. QED
    BY <2>1 DEF PlatformAmount
<1>3. r \in Purses \/ cr = 0
  BY DEF CreatorAmount, Purses
<1>4. c.treasury \in Purses /\ c.sink \in Purses
  BY <1>1 DEF Purses
<1>5. Summable(g0, Purses)
  <2>1. IsFiniteSet(Purses)
    BY FS_Union DEF Purses
  <2>2. QED
    BY <1>1, <2>1 DEF Summable, Received
<1>6. \A a \in Purses : g3[a] = g2[a] + (IF a = c.sink THEN sk ELSE 0)
  <2>1. \A a \in Purses : balance'[a] = balance[a] + (IF a = r THEN cr ELSE 0)
                          + (IF a = c.treasury THEN pl ELSE 0)
                          + (IF a = c.sink THEN sk ELSE 0)
    BY <1>1 DEF ChargeFee, Distribute
  <2> HIDE DEF c, cr, pl, sk
  <2>2. \A a \in Purses : g0[a] = balance[a] - InitialBalance[a]
                          /\ g3[a] = balance'[a] - InitialBalance[a]
    BY DEF Received
  <2> HIDE DEF g0, g3
  <2>3. QED
    BY <1>1, <1>2, <2>1, <2>2
<1>7. /\ \A a \in Purses : g1[a] = g0[a] + (IF a = r THEN cr ELSE 0)
      /\ \A a \in Purses : g2[a] = g1[a] + (IF a = c.treasury THEN pl ELSE 0)
  OBVIOUS
<1> HIDE DEF c, cr, pl, sk, g0, g1, g2, g3
<1>8. Summable(g1, Purses) /\ Grown(g0, g1, Purses, cr)
  <2>1. Grows(g0, g1, Purses, r, cr)
    BY <1>7 DEF Grows
  <2>2. QED
    BY <1>2, <1>3, <1>5, <2>1, TotalGrows
<1>9. Summable(g2, Purses) /\ Grown(g1, g2, Purses, pl)
  <2>1. Grows(g1, g2, Purses, c.treasury, pl)
    BY <1>7 DEF Grows
  <2>2. QED
    BY <1>2, <1>4, <1>8, <2>1, TotalGrows
<1>10. Grown(g2, g3, Purses, sk)
  <2>1. Grows(g2, g3, Purses, c.sink, sk) /\ sk \in Int
    BY <1>2, <1>6 DEF Grows
  <2>2. QED
    BY <1>2, <1>4, <1>9, <2>1, TotalGrows
<1>11. Grown(g0, g3, Purses, fee)
  BY <1>2, <1>8, <1>9, <1>10 DEF Grown
<1>12. QED
  BY <1>11 DEF g0, g3

\* A new receipt adds its fee.
LEMMA ReceiptAdds ==
  ASSUME NEW R, IsFiniteSet(R), NEW rc, rc \notin R, rc.fee \in Nat,
         \A x \in R : x.fee \in Nat
  PROVE  Total(Paid(R \cup {rc}), R \cup {rc}) = Total(Paid(R), R) + rc.fee
<1> DEFINE S == R \cup {rc}
           f == Paid(S)
           g == Paid(R)
<1>1. IsFiniteSet(S)
  BY FS_AddElement
<1>2. Summable(f, S) /\ Same(f, g, S \ {rc}) /\ rc \in S /\ f[rc] = rc.fee
  BY <1>1 DEF Summable, Same, Paid
<1>3. S \ {rc} = R
  OBVIOUS
<1>4. Total(g, S \ {rc}) = Total(g, R)
  BY <1>3, Zenon
<1> HIDE DEF S, f, g
<1>5. OneOut(f, g, S, rc)
  BY <1>2, TotalOut
<1>6. Total(f, S) = Total(g, R) + rc.fee
  BY <1>2, <1>5, <1>4 DEF OneOut
<1>7. QED
  BY <1>6 DEF S, f, g

\* A commit's receipt is new, and the receipts stay in order.
LEMMA CommitRoutes ==
  ASSUME MintInv, FeeInv, NEW k \in Keys, NEW i \in Intents, NEW r \in Releases \cup {None},
         CommitMint(k, i, r)
  PROVE  FeeInv'
<1> DEFINE paid == [key |-> k, target |-> slot + Delay, fee |-> registry.config.fee,
                    release |-> r, royalty |-> RoyaltyRecipient(r)]
           new == [target |-> slot + Delay, intent |-> i, release |-> r,
                   royalty |-> RoyaltyRecipient(r)]
<1>1. /\ commits[k] = NoCommit /\ commits' = [commits EXCEPT ![k] = new]
      /\ receipts' = receipts \cup {paid} /\ ChargeFee(registry.config.fee, r) /\ slot' = slot
      /\ registry.config.fee \in Nat /\ slot \in Nat /\ Delay \in Nat \ {0}
      /\ commits \in [Keys -> MintCommitAccount \cup {NoCommit}]
  BY DEF CommitMint, clockVars, MintInv, RegistryInv, RegistryTypeOK, ArenaRegistry, Config,
         ClockTypeOK, MintTypeOK
<1>2. paid.key = k /\ paid.target = slot + Delay /\ paid.fee = registry.config.fee /\ paid.fee \in Nat
      /\ paid.target \in Nat
  BY <1>1
<1>3. new.target = slot + Delay /\ new # NoCommit
  BY <1>1 DEF NoCommit, Idle
<1> HIDE DEF paid, new
<1>4. ASSUME NEW x \in receipts
      PROVE  /\ x.fee \in Nat /\ x.target \in Nat /\ x.key \in Keys
             /\ x.key = k => x.target < slot
             /\ x.key # k => /\ commits[x.key] # NoCommit => x.target <= commits[x.key].target
                             /\ commits[x.key] = NoCommit => x.target < slot
  BY <1>1 DEF FeeInv, ReceiptsOK
<1>5. paid \notin receipts
  BY <1>1, <1>2, <1>4
<1>6. ReceiptsOK'
  <2>1. IsFiniteSet(receipts')
    BY <1>1, FS_AddElement DEF FeeInv, ReceiptsOK
  <2>2. ASSUME NEW x \in receipts'
        PROVE  /\ x.fee \in Nat /\ x.target \in Nat /\ x.key \in Keys
               /\ commits'[x.key] # NoCommit => x.target <= commits'[x.key].target
               /\ commits'[x.key] = NoCommit => x.target < slot'
    <3>1. CASE x = paid
      <4>1. commits'[x.key] = new
        BY <1>1, <1>2, <3>1
      <4>2. QED
        BY <1>2, <1>3, <3>1, <4>1
    <3>2. CASE x \in receipts /\ x.key = k
      <4>1. commits'[x.key] = new
        BY <1>1, <3>2
      <4>2. x.fee \in Nat /\ x.target \in Nat /\ x.target < slot
        BY <1>4, <3>2
      <4>3. x.target <= new.target
        BY <1>1, <1>3, <4>2
      <4>4. QED
        BY <1>3, <3>2, <4>1, <4>2, <4>3
    <3>3. CASE x \in receipts /\ x.key # k
      <4>1. x.key \in Keys /\ commits'[x.key] = commits[x.key]
        BY <1>1, <1>4, <3>3
      <4>2. QED
        BY <1>1, <1>4, <3>3, <4>1
    <3>4. QED
      BY <1>1, <3>1, <3>2, <3>3
  <2>3. QED
    BY <2>1, <2>2 DEF ReceiptsOK
<1>7. FeesRoutedOnce'
  <2>1. DOMAIN balance = Purses /\ DOMAIN balance' = Purses
    BY <1>1 DEF MintInv, FeesTypeOK, ChargeFee, Distribute, Purses
  <2>2. Total(Received(balance), Purses) = Total(Paid(receipts), receipts)
    <3>1. Routed(balance, receipts)
      BY DEF FeeInv, FeesRoutedOnce, Routed
    <3>2. QED
      BY <2>1, <3>1, RoutedIffTotals DEF RoutedAsTotals
  <2>3. Grown(Received(balance), Received(balance'), Purses, registry.config.fee)
    BY <1>1, FeeRouted
  <2>4. Total(Paid(receipts'), receipts') = Total(Paid(receipts), receipts) + paid.fee
    <3>1. IsFiniteSet(receipts) /\ \A x \in receipts : x.fee \in Nat
      BY <1>4 DEF FeeInv, ReceiptsOK
    <3>2. QED
      BY <1>1, <1>2, <1>5, <3>1, ReceiptAdds
  <2>5. RoutedAsTotals(balance', receipts')
    BY <1>2, <2>2, <2>3, <2>4 DEF RoutedAsTotals, Grown
  <2>6. Routed(balance', receipts')
    BY <2>1, <2>5, RoutedIffTotals
  <2>7. QED
    BY <2>6 DEF FeesRoutedOnce, Routed, MapThenSumSet, MapThenFoldSet
<1>8. QED
  BY <1>6, <1>7 DEF FeeInv

\* Settling a commit: every receipt of its key aims at or before its target,
\* and the target has passed.
LEMMA SettleOrders ==
  ASSUME MintInv, ReceiptsOK, NEW k \in Keys, NEW e, commits[k] # NoCommit,
         slot > commits[k].target, Settle(k, e), slot' = slot, receipts' = receipts
  PROVE  ReceiptsOK'
<1>1. /\ commits' = [commits EXCEPT ![k] = NoCommit] /\ slot \in Nat
      /\ commits \in [Keys -> MintCommitAccount \cup {NoCommit}] /\ commits[k].target \in Nat
  BY OpenCommit DEF Settle, MintInv, ClockTypeOK, MintTypeOK, MintCommitAccount
<1>2. ASSUME NEW x \in receipts
      PROVE  /\ x.fee \in Nat /\ x.target \in Nat /\ x.key \in Keys
             /\ commits'[x.key] # NoCommit => x.target <= commits'[x.key].target
             /\ commits'[x.key] = NoCommit => x.target < slot
  <2>1. /\ x.fee \in Nat /\ x.target \in Nat /\ x.key \in Keys
        /\ commits[x.key] # NoCommit => x.target <= commits[x.key].target
        /\ commits[x.key] = NoCommit => x.target < slot
    BY DEF ReceiptsOK
  <2>2. CASE x.key = k
    <3>1. commits'[x.key] = NoCommit
      BY <1>1, <2>2
    <3>2. x.target <= commits[k].target
      BY <2>1, <2>2
    <3>3. x.target < slot
      BY <1>1, <2>1, <3>2
    <3>4. QED
      BY <2>1, <3>1, <3>3
  <2>3. CASE x.key # k
    <3>1. commits'[x.key] = commits[x.key]
      BY <1>1, <2>1, <2>3
    <3>2. QED
      BY <2>1, <3>1
  <2>4. QED
    BY <2>2, <2>3
<1>3. QED
  BY <1>2 DEF ReceiptsOK

\* The other instructions: commits settle or stay, and the clock only advances.
LEMMA ReceiptsKept ==
  ASSUME MintInv, ReceiptsOK, [Next]_vars, receipts' = receipts,
         ~\E k \in Keys, i \in Intents, r \in Releases \cup {None} : CommitMint(k, i, r)
  PROVE  ReceiptsOK'
<1>1. ASSUME NEW k \in Keys, NEW r, NEW asset, commits[k] # NoCommit, RevealAs(k, r, asset)
      PROVE  ReceiptsOK'
  <2>1. PICK s \in blocks : Settle(k, s)
    BY <1>1 DEF RevealAs
  <2>2. slot > commits[k].target /\ slot' = slot
    BY <1>1 DEF RevealAs, CanReveal, InRevealWindow, clockVars
  <2>3. QED
    BY <1>1, <2>1, <2>2, SettleOrders
<1>2. ASSUME NEW k \in Keys, CloseExpiredCommit(k)
      PROVE  ReceiptsOK'
  <2>1. commits[k].target \in Nat /\ slot \in Nat /\ Window \in Nat
    BY <1>2, OpenCommit DEF CloseExpiredCommit, MintInv, ClockTypeOK, MintCommitAccount
  <2>2. slot > commits[k].target + Window
    BY <1>2 DEF CloseExpiredCommit
  <2>3. slot > commits[k].target
    BY <2>1, <2>2
  <2>4. Settle(k, Expired) /\ slot' = slot /\ commits[k] # NoCommit
    BY <1>2 DEF CloseExpiredCommit, clockVars
  <2>5. QED
    BY <2>3, <2>4, SettleOrders
<1>3. ASSUME commits' = commits, slot' \in Nat, slot' >= slot
      PROVE  ReceiptsOK'
  <2>1. slot \in Nat
    BY DEF MintInv, ClockTypeOK
  <2>2. QED
    BY <1>3, <2>1 DEF ReceiptsOK
<1>4. CASE AdvanceClock
  <2>1. commits' = commits /\ slot' \in Nat /\ slot' >= slot
    BY <1>4 DEF AdvanceClock, mintVars, NewBank, MintInv, ClockTypeOK
  <2>2. QED
    BY <1>3, <2>1
<1>5. ASSUME commits' = commits, slot' = slot PROVE ReceiptsOK'
  <2>1. slot \in Nat
    BY DEF MintInv, ClockTypeOK
  <2>2. QED
    BY <1>3, <1>5, <2>1
<1>6. CASE Stellar \/ Governance \/ UNCHANGED vars
  BY <1>5, <1>6 DEF Stellar, Governance, vars, mintVars, clockVars
<1>7. ASSUME NEW w \in Wallets, NEW i \in Intents, NEW r \in Releases \cup {None},
             MintArenaItem(w, i, r)
      PROVE  ReceiptsOK'
  BY <1>5, <1>7 DEF MintArenaItem, clockVars
<1>8. ASSUME NEW k \in Keys, NEW r \in Releases \cup {None},
             RevealMint(k, r) \/ RevealAvatarMint(k, r)
      PROVE  ReceiptsOK'
  BY <1>1, <1>8 DEF RevealMint, RevealAvatarMint
<1>9. QED
  BY <1>2, <1>4, <1>6, <1>7, <1>8 DEF Next

\* What the destinations and the vaults received is what the receipts paid: for
\* any split, no lamport is lost to rounding or counted twice.
THEOREM FeesRouted == Spec => []FeesRoutedOnce
<1>1. Init => FeeInv
  <2>1. SUFFICES ASSUME Init PROVE FeeInv
    OBVIOUS
  <2>2. receipts = {} /\ balance = InitialBalance
    BY <2>1 DEF Init
  <2>3. ReceiptsOK
    BY <2>2, FS_EmptySet DEF ReceiptsOK
  <2>4. IsFiniteSet(Purses) /\ DOMAIN balance = Purses
    BY <2>2, FS_Union DEF Purses
  <2>5. \A a \in Purses : Received(balance)[a] = 0
    BY <2>2 DEF Received, Purses
  <2>6. Total(Received(balance), Purses) = 0
    BY <2>4, <2>5, TotalOfZeros
  <2>7. Total(Paid(receipts), receipts) = 0
    BY <2>2, TotalEmpty
  <2>8. Routed(balance, receipts)
    BY <2>4, <2>6, <2>7, RoutedIffTotals DEF RoutedAsTotals
  <2>9. QED
    BY <2>3, <2>8 DEF FeeInv, FeesRoutedOnce, Routed
<1>2. MintInv /\ FeeInv /\ [Next]_vars => FeeInv'
  <2>1. SUFFICES ASSUME MintInv, FeeInv, [Next]_vars PROVE FeeInv'
    OBVIOUS
  <2>2. CASE \E k \in Keys, i \in Intents, r \in Releases \cup {None} : CommitMint(k, i, r)
    BY <2>1, <2>2, CommitRoutes
  <2>3. CASE ~\E k \in Keys, i \in Intents, r \in Releases \cup {None} : CommitMint(k, i, r)
    <3>1. balance' = balance /\ receipts' = receipts
      BY <2>1, <2>3, OnlyCommitsPay
    <3>2. ReceiptsOK'
      BY <2>1, <2>3, <3>1, ReceiptsKept DEF FeeInv
    <3>3. FeesRoutedOnce'
      BY <2>1, <3>1 DEF FeeInv, FeesRoutedOnce, MapThenSumSet, MapThenFoldSet
    <3>4. QED
      BY <3>2, <3>3 DEF FeeInv
  <2>4. QED
    BY <2>2, <2>3
<1>3. FeeInv => FeesRoutedOnce
  BY DEF FeeInv
<1>4. QED
  BY <1>1, <1>2, <1>3, MintInvariance, PTL DEF Spec

-----------------------------------------------------------------------------
(* A paid commit is not refused *)

\* What the reveals ask of an open commit apart from the time, and a block older
\* than every target.
Backed ==
  /\ 0 \in blocks
  /\ \A k \in Keys : commits[k] # NoCommit =>
       /\ CommittableIntent(commits[k].intent)
       /\ ResolveSkin(commits[k].intent.skin, commits[k].release)
       /\ registry.layout = "current"

Public(r) == releases[r].status \in {"Finalized", "Linked"}

\* A step that opens no commit, makes no release private again, and leaves the
\* registry loadable.
LEMMA BackedKept ==
  ASSUME Backed, blocks \subseteq blocks',
         \A k \in Keys : commits'[k] \in {commits[k], NoCommit},
         \A r \in Releases : Public(r) => Public(r)',
         registry.layout = "current" => registry'.layout = "current"
  PROVE  Backed'
<1>1. SUFFICES ASSUME NEW k \in Keys, commits'[k] # NoCommit
               PROVE  (/\ CommittableIntent(commits[k].intent)
                       /\ ResolveSkin(commits[k].intent.skin, commits[k].release)
                       /\ registry.layout = "current")'
  BY DEF Backed
<1>2. commits'[k] = commits[k] /\ commits[k] # NoCommit
  BY <1>1
<1>3. /\ CommittableIntent(commits[k].intent)
      /\ ResolveSkin(commits[k].intent.skin, commits[k].release)
      /\ registry.layout = "current"
  BY <1>2 DEF Backed
<1>4. QED
  BY <1>2, <1>3 DEF ResolveSkin, Public, CommittableIntent, FighterIntent

\* Once the registry is an account of the current layout it stays one.
LEMMA LayoutKept ==
  ASSUME RegistryTypeOK, registry.layout = "current", [RegistryNext]_registryVars
  PROVE  registry'.layout = "current"
<1>1. registry \in ArenaRegistry
  BY DEF RegistryTypeOK
<1>2. ASSUME NEW w \in Wallets, NEW c \in ConfigArgs,
             ConfigureRegistry(w, c) \/ MigrateRegistryV1(w, c)
      PROVE  registry'.layout = "current"
  BY <1>1, <1>2 DEF ConfigureRegistry, MigrateRegistryV1, ArenaRegistry
<1>3. ASSUME NEW w \in Wallets, NEW new \in Wallets \cup {None}, RotateRegistryAuthority(w, new)
      PROVE  registry'.layout = "current"
  BY <1>1, <1>3 DEF RotateRegistryAuthority, ArenaRegistry
<1>4. ASSUME NEW w \in Wallets, RegisterArenaAsset(w) PROVE registry'.layout = "current"
  BY <1>1, <1>4 DEF RegisterArenaAsset, TakeIndex, ArenaRegistry
<1>5. ASSUME NEW w \in Wallets \cup {None}, SetUpgradeAuthority(w)
      PROVE  registry'.layout = "current"
  BY <1>5 DEF SetUpgradeAuthority
<1>6. CASE UNCHANGED registryVars
  BY <1>6 DEF registryVars
<1>7. QED
  BY <1>2, <1>3, <1>4, <1>5, <1>6 DEF RegistryNext

\* commit_mint takes only what one of the reveals will take.
LEMMA CommitBacked ==
  ASSUME MintInv, Backed, NEW k \in Keys, NEW i \in Intents, NEW r \in Releases \cup {None},
         CommitMint(k, i, r)
  PROVE  Backed'
<1> DEFINE new == [target |-> slot + Delay, intent |-> i, release |-> r,
                   royalty |-> RoyaltyRecipient(r)]
<1>1. /\ commits' = [commits EXCEPT ![k] = new] /\ registry.layout = "current"
      /\ CommittableIntent(i) /\ ResolveSkin(i.skin, r)
      /\ UNCHANGED <<registry, blocks, releases>>
  BY DEF CommitMint, clockVars
<1>2. new.intent = i /\ new.release = r
  OBVIOUS
<1> HIDE DEF new
<1>3. \A j \in Keys : commits'[j] = IF j = k THEN new ELSE commits[j]
  BY <1>1 DEF MintInv, MintTypeOK
<1>4. \A j \in Keys : commits'[j] # NoCommit =>
        /\ CommittableIntent(commits'[j].intent)
        /\ ResolveSkin(commits'[j].intent.skin, commits'[j].release)
        /\ registry.layout = "current"
  BY <1>1, <1>2, <1>3 DEF Backed
<1>5. QED
  BY <1>1, <1>4 DEF Backed, ResolveSkin, CommittableIntent, FighterIntent

LEMMA NextBacked == MintInv /\ Backed /\ [Next]_vars => Backed'
<1>1. SUFFICES ASSUME MintInv, Backed, [Next]_vars PROVE Backed'
  OBVIOUS
<1>2. commits \in [Keys -> MintCommitAccount \cup {NoCommit}] /\ RegistryTypeOK
  BY <1>1 DEF MintInv, MintTypeOK, RegistryInv
<1>3. ASSUME NEW k \in Keys, NEW e, Settle(k, e)
      PROVE  \A j \in Keys : commits'[j] \in {commits[j], NoCommit}
  BY <1>2, <1>3 DEF Settle
<1>4. ASSUME NEW w, TakeIndex(w) PROVE registry'.layout = "current"
  BY <1>2, <1>4 DEF TakeIndex, RegistryTypeOK, ArenaRegistry
<1>5. ASSUME NEW k \in Keys, NEW r, NEW asset, RevealAs(k, r, asset) PROVE Backed'
  <2>1. UNCHANGED <<blocks, releases>> /\ registry'.layout = "current"
    BY <1>4, <1>5 DEF RevealAs, clockVars
  <2>2. \A j \in Keys : commits'[j] \in {commits[j], NoCommit}
    BY <1>3, <1>5 DEF RevealAs
  <2>3. QED
    BY <1>1, <2>1, <2>2, BackedKept DEF Public
<1>6. ASSUME NEW k \in Keys, CloseExpiredCommit(k) PROVE Backed'
  <2>1. UNCHANGED <<blocks, releases, registry>>
    BY <1>6 DEF CloseExpiredCommit, registryVars, clockVars
  <2>2. \A j \in Keys : commits'[j] \in {commits[j], NoCommit}
    BY <1>3, <1>6 DEF CloseExpiredCommit
  <2>3. QED
    BY <1>1, <2>1, <2>2, BackedKept DEF Public
<1>7. ASSUME NEW w \in Wallets, NEW i \in Intents, NEW r \in Releases \cup {None},
             MintArenaItem(w, i, r)
      PROVE  Backed'
  <2>1. UNCHANGED <<blocks, releases, commits>> /\ registry'.layout = "current"
    BY <1>4, <1>7 DEF MintArenaItem, clockVars
  <2>2. QED
    BY <1>1, <2>1, BackedKept DEF Public
<1>8. CASE Stellar
  <2>1. UNCHANGED <<blocks, commits, registry>>
    BY <1>8 DEF Stellar, registryVars, clockVars
  <2>2. releases \in [Releases -> [status : ReleaseStatus, authority : Wallets]]
    BY <1>1 DEF MintInv, MintTypeOK
  <2>3. ASSUME NEW q \in Releases,
               FinalizeRelease(q) \/ LinkRelease(q) \/ \E w \in Wallets : TransferRelease(q, w)
        PROVE  \A r \in Releases : Public(r) => Public(r)'
    BY <2>2, <2>3 DEF FinalizeRelease, LinkRelease, TransferRelease, Public
  <2>4. \A r \in Releases : Public(r) => Public(r)'
    BY <1>8, <2>3 DEF Stellar
  <2>5. QED
    BY <1>1, <2>1, <2>4, BackedKept
<1>9. CASE Governance
  <2>1. UNCHANGED <<blocks, commits, releases>> /\ RegistryNext
    BY <1>9 DEF Governance, mintVars, clockVars
  <2>2. registry.layout = "current" => registry'.layout = "current"
    BY <1>2, <2>1, LayoutKept
  <2>3. QED
    BY <1>1, <2>1, <2>2, BackedKept DEF Public
<1>10. CASE AdvanceClock
  <2>1. UNCHANGED <<commits, releases, registry>> /\ blocks \subseteq blocks'
    BY <1>10 DEF AdvanceClock, NewBank, mintVars, registryVars
  <2>2. QED
    BY <1>1, <2>1, BackedKept DEF Public
<1>11. CASE UNCHANGED vars
  <2>1. UNCHANGED <<blocks, commits, releases, registry>>
    BY <1>11 DEF vars, mintVars, registryVars, clockVars
  <2>2. QED
    BY <1>1, <2>1, BackedKept DEF Public
<1>12. ASSUME NEW k \in Keys, NEW i \in Intents, NEW r \in Releases \cup {None},
              CommitMint(k, i, r)
       PROVE  Backed'
  BY <1>1, <1>12, CommitBacked
<1>13. QED
  BY <1>1, <1>5, <1>6, <1>7, <1>8, <1>9, <1>10, <1>11, <1>12
     DEF Next, RevealMint, RevealAvatarMint

\* The requirements of the reveals, in place of the ENABLED of PaidCommitRevealable.
RevealNeverRefused ==
  \A k \in Keys :
    LET m == commits[k] IN
      /\ m # NoCommit
      /\ InRevealWindow(m.target)
      /\ \E b \in blocks : b >= m.target
      /\ m.release # None => releases[m.release].authority = m.royalty
      => /\ GearReveals(m.intent) \/ FighterReveals(m.intent)
         /\ \E s \in blocks : CanReveal(k, m.release, s)

LEMMA BackedReveals == MintInv /\ Backed => RevealNeverRefused
<1>1. SUFFICES ASSUME MintInv, Backed, NEW k \in Keys, commits[k] # NoCommit,
                      InRevealWindow(commits[k].target),
                      NEW b \in blocks, b >= commits[k].target,
                      commits[k].release # None =>
                        releases[commits[k].release].authority = commits[k].royalty
               PROVE  /\ GearReveals(commits[k].intent) \/ FighterReveals(commits[k].intent)
                      /\ \E s \in blocks : CanReveal(k, commits[k].release, s)
  BY DEF RevealNeverRefused
<1> DEFINE m == commits[k]
<1>2. /\ CommittableIntent(m.intent) /\ ResolveSkin(m.intent.skin, m.release)
      /\ registry.layout = "current" /\ 0 \in blocks
  BY <1>1 DEF Backed
<1>3. GearReveals(m.intent) \/ FighterReveals(m.intent)
  BY <1>2 DEF CommittableIntent, GearReveals, FighterReveals
<1>4. m.target \in Nat /\ 0 < m.target
  BY <1>1, OpenCommit DEF MintInv, MintCommitAccount, Idle
<1>5. Window \in Nat /\ Window <= Retention /\ slot > m.target /\ slot <= m.target + Window
  BY <1>1, MintWindowAssumption DEF InRevealWindow
<1>6. PICK s \in blocks : SlothashAtOrAfter(s, Retained(blocks), m.target)
  BY <1>1, <1>2, <1>4, <1>5, TimelyLookup DEF MintInv
<1>7. CanReveal(k, m.release, s)
  BY <1>1, <1>2, <1>6 DEF CanReveal, BoundAsCommitted, Loadable
<1>8. QED
  BY <1>3, <1>7

\* A commit that was paid for is not refused: in every state of its window, once a
\* block at or after its target exists, all that a reveal requires holds, unless
\* its release changed hands since. PaidCommitRevealable says the same with
\* ENABLED, up to the bound on the counter.
THEOREM PaidCommitsReveal == Spec => []RevealNeverRefused
<1>1. Init => Backed
  BY DEF Init, ClockInit, Backed
<1>2. QED
  BY <1>1, NextBacked, BackedReveals, MintInvariance, PTL DEF Spec

-----------------------------------------------------------------------------
(* Implementation of CommitReveal *)

LEMMA InitImplements == Init => Promise!Init
BY DEF Init, Promise!Init, ClockInit, Promise!ClockInit, Target, NoCommit, Idle, Promise!Idle

LEMMA CommitImplements ==
  ASSUME MintInv, NEW k \in Keys, NEW i \in Intents, NEW r \in Releases \cup {None},
         CommitMint(k, i, r)
  PROVE  Promise!Commit(k)
<1>1. commits \in [Keys -> MintCommitAccount \cup {NoCommit}]
  BY DEF MintInv, MintTypeOK
<1>2. \A j \in Keys : commits'[j].target = IF j = k THEN slot + Delay ELSE commits[j].target
  BY <1>1 DEF CommitMint
<1>3. Target' = [Target EXCEPT ![k] = slot + Delay]
  BY <1>2 DEF Target
<1>4. commits[k] = NoCommit
  BY DEF CommitMint
<1>5. Target[k] = Idle
  BY <1>4 DEF Target, NoCommit
<1>6. QED
  BY <1>3, <1>5 DEF CommitMint, Promise!Commit, Promise!Idle, Idle, clockVars, Promise!clockVars

LEMMA SettleImplements ==
  ASSUME MintInv, NEW k \in Keys, NEW e, Settle(k, e), UNCHANGED clockVars
  PROVE  Promise!Settle(k, e)
<1>1. commits \in [Keys -> MintCommitAccount \cup {NoCommit}]
  BY DEF MintInv, MintTypeOK
<1>2. \A j \in Keys : commits'[j].target = IF j = k THEN Idle ELSE commits[j].target
  BY <1>1 DEF Settle, NoCommit
<1>3. Target' = [Target EXCEPT ![k] = Idle] /\ Target[k] = commits[k].target
  BY <1>2 DEF Target
<1>4. QED
  BY <1>3 DEF Settle, Promise!Settle, Promise!Idle, Idle, clockVars, Promise!clockVars

\* The step that needs the lookup theorem: the promise sees the whole chain, the
\* reveal only what SlotHashes retains.
LEMMA RevealImplements ==
  ASSUME MintInv, NEW k \in Keys, NEW r, NEW asset,
         commits[k] # NoCommit, RevealAs(k, r, asset)
  PROVE  Promise!Reveal(k)
<1>1. commits[k] \in MintCommitAccount /\ commits[k].target # Idle
  BY OpenCommit DEF MintInv
<1>2. commits[k].target \in Nat
  BY <1>1 DEF MintCommitAccount
<1>3. PICK s \in blocks : CanReveal(k, r, s) /\ Settle(k, s)
  BY DEF RevealAs
<1>4. IsFirstAtOrAfter(s, blocks, commits[k].target)
  BY <1>2, <1>3, BlocksFinite, LookupIsCanonical DEF MintInv, CanReveal
<1>5. Promise!Settle(k, s)
  BY <1>3, SettleImplements DEF RevealAs
<1>6. slot > commits[k].target /\ slot <= commits[k].target + Window
  BY <1>3 DEF CanReveal, InRevealWindow
<1>7. Target[k] = commits[k].target
  BY DEF Target
<1>8. QED
  BY <1>1, <1>4, <1>5, <1>6, <1>7
     DEF Promise!Reveal, Promise!IsFirstAtOrAfter, IsFirstAtOrAfter, Promise!Idle, Idle

LEMMA CloseImplements ==
  ASSUME MintInv, NEW k \in Keys, CloseExpiredCommit(k)
  PROVE  Promise!Expire(k)
<1>1. commits[k].target # Idle /\ Target[k] = commits[k].target
  BY OpenCommit DEF MintInv, CloseExpiredCommit, Target
<1>2. Promise!Settle(k, Expired)
  BY SettleImplements DEF CloseExpiredCommit
<1>3. QED
  BY <1>1, <1>2 DEF CloseExpiredCommit, Promise!Expire, Promise!Idle, Idle,
                    Promise!Expired, Expired

LEMMA StepImplements == MintInv /\ [Next]_vars => [Promise!Next]_(Promise!vars)
<1>1. SUFFICES ASSUME MintInv, [Next]_vars PROVE [Promise!Next]_(Promise!vars)
  OBVIOUS
<1>2. ASSUME NEW k \in Keys, NEW i \in Intents, NEW r \in Releases \cup {None},
             CommitMint(k, i, r)
      PROVE  Promise!Next
  BY <1>1, <1>2, CommitImplements DEF Promise!Next
<1>3. ASSUME NEW k \in Keys, NEW r \in Releases \cup {None},
             RevealMint(k, r) \/ RevealAvatarMint(k, r)
      PROVE  Promise!Next
  BY <1>1, <1>3, RevealImplements DEF Promise!Next, RevealMint, RevealAvatarMint
<1>4. ASSUME NEW k \in Keys, CloseExpiredCommit(k) PROVE Promise!Next
  BY <1>1, <1>4, CloseImplements DEF Promise!Next
<1>5. CASE AdvanceClock
  <2>1. NewBank /\ UNCHANGED <<commits, settled>>
    BY <1>5 DEF AdvanceClock, mintVars
  <2>2. Promise!NewBank /\ UNCHANGED <<Target, settled>>
    BY <2>1 DEF NewBank, Promise!NewBank, Target
  <2>3. QED
    BY <2>2 DEF Promise!Next
<1>6. ASSUME UNCHANGED <<clockVars, commits, settled>> PROVE UNCHANGED Promise!vars
  BY <1>6 DEF clockVars, Target, Promise!vars
<1>7. ASSUME NEW w \in Wallets, NEW i \in Intents, NEW r \in Releases \cup {None},
             MintArenaItem(w, i, r)
      PROVE  UNCHANGED <<clockVars, commits, settled>>
  BY <1>7 DEF MintArenaItem
<1>8. CASE Stellar \/ Governance
  BY <1>6, <1>8 DEF Stellar, Governance, mintVars
<1>9. CASE UNCHANGED vars
  BY <1>6, <1>9 DEF vars, mintVars
<1>10. QED
  BY <1>1, <1>2, <1>3, <1>4, <1>5, <1>6, <1>7, <1>8, <1>9 DEF Next

\* Paid minting keeps the promise of CommitReveal: a commit settles at most once,
\* by a reveal seeded by the first block at or after its target on the whole
\* chain, or by expiry after its window.
THEOREM MintImplements == Spec => ImplementsCommitReveal
<1>1. Init /\ [][Next]_vars /\ []MintInv => Promise!Init /\ [][Promise!Next]_(Promise!vars)
  BY InitImplements, StepImplements, PTL
<1>2. QED
  BY <1>1, MintInvariance, PTL DEF Spec, ImplementsCommitReveal, Promise!Spec
=============================================================================
