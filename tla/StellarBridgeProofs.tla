------------------------- MODULE StellarBridgeProofs -------------------------
(***************************************************************************)
(* Safety of the bridge for any releases, owners and configurations: the   *)
(* composed system behaves as the registry does, and the five accounts a   *)
(* publication writes tell one story however often a release is published. *)
(* The argument needs that a new card's index is above every earlier one,  *)
(* which the registry's counter gives.                                     *)
(***************************************************************************)
EXTENDS StellarBridge, RegistryProofs

USE StellarBridgeAssumption

\* A publication is, for the registry, the registration of a card.
LEMMA BridgeStepOfRegistry == [Next]_vars => [RegistryNext]_registryVars
<1>1. SUFFICES ASSUME [Next]_vars PROVE [RegistryNext]_registryVars
  OBVIOUS
<1>2. ASSUME NEW w \in Wallets, NEW r \in Releases, RegisterArenaAssetFromStellar(w, r)
      PROVE  RegistryNext
  BY <1>2 DEF RegisterArenaAssetFromStellar, RegistryNext, RegisterArenaAsset
<1>3. CASE Stellar
  BY <1>3 DEF Stellar, registryVars
<1>4. CASE ArenaRegistryStep
  BY <1>4 DEF ArenaRegistryStep
<1>5. CASE UNCHANGED vars
  BY <1>5 DEF vars
<1>6. QED
  BY <1>1, <1>2, <1>3, <1>4, <1>5 DEF Next

\* The registry with the bridge is still the registry, so everything proved of
\* its indexes, its economics and its governance key holds here too.
THEOREM BridgeKeepsRegistry == Spec => RegistrySpec
<1>1. Init => RegistryInit
  BY DEF Init
<1>2. QED
  BY <1>1, BridgeStepOfRegistry, PTL DEF Spec, RegistrySpec

\* In particular governance is handed over as it is without the bridge.
THEOREM BridgeHandovers == Spec => GovernanceHandover
BY BridgeKeepsRegistry, Handovers, PTL

-----------------------------------------------------------------------------
CardsBelowCounter == \A i \in DOMAIN stellarLink : i < registry.nextIndex

BridgeInv ==
  /\ RegistryInv
  /\ BridgeTypeOK
  /\ CardsBelowCounter
  /\ FirstAndNewestCard

LEMMA CounterType == RegistryInv => registry.nextIndex \in Nat
BY DEF RegistryInv, RegistryTypeOK, ArenaRegistry

LEMMA CounterGrows ==
  ASSUME RegistryInv, RegistryInv', RegistryNext
  PROVE  registry'.nextIndex >= registry.nextIndex
<1>1. registry \in ArenaRegistry /\ registry.nextIndex \in Nat
  BY DEF RegistryInv, RegistryTypeOK, ArenaRegistry
<1>2. ASSUME NEW w \in Wallets, TakeIndex(w) PROVE registry'.nextIndex = registry.nextIndex + 1
  BY <1>1, <1>2 DEF TakeIndex, ArenaRegistry
<1>3. ASSUME NEW w \in Wallets, NEW c \in ConfigArgs,
             ConfigureRegistry(w, c) \/ MigrateRegistryV1(w, c)
      PROVE  registry'.nextIndex = registry.nextIndex
  <2>1. CASE ConfigureRegistry(w, c)
    <3>1. registry' = [registry EXCEPT !.layout = "current", !.authority = w, !.config = c]
      BY <2>1 DEF ConfigureRegistry
    <3>2. QED
      BY <1>1, <3>1 DEF ArenaRegistry
  <2>2. CASE MigrateRegistryV1(w, c)
    BY <2>2 DEF MigrateRegistryV1
  <2>3. QED
    BY <1>3, <2>1, <2>2
<1>4. ASSUME NEW w \in Wallets, NEW new \in Wallets \cup {None}, RotateRegistryAuthority(w, new)
      PROVE  registry'.nextIndex = registry.nextIndex
  BY <1>1, <1>4 DEF RotateRegistryAuthority, ArenaRegistry
<1>5. ASSUME NEW w \in Wallets \cup {None}, SetUpgradeAuthority(w)
      PROVE  registry'.nextIndex = registry.nextIndex
  BY <1>5 DEF SetUpgradeAuthority
<1>6. QED
  BY <1>1, <1>2, <1>3, <1>4, <1>5 DEF RegistryNext, RegisterArenaAsset

LEMMA BridgeInvInit == Init => BridgeInv
<1>1. SUFFICES ASSUME Init PROVE BridgeInv
  OBVIOUS
<1>2. RegistryInv
  BY <1>1, RegistryInvInit DEF Init
<1>3. DOMAIN stellarLink = {}
  BY <1>1 DEF Init
<1>4. BridgeTypeOK
  BY <1>1, <1>3 DEF Init, BridgeTypeOK, Release, ReleaseStatus, Record
<1>5. FirstAndNewestCard
  BY <1>1, <1>3 DEF Init, FirstAndNewestCard, CardsOf
<1>6. QED
  BY <1>2, <1>3, <1>4, <1>5 DEF BridgeInv, CardsBelowCounter

-----------------------------------------------------------------------------
\* A publication: the new card is above all others, and the first of its
\* release exactly when the release was not linked.
LEMMA PublishInv ==
  ASSUME BridgeInv, RegistryInv', NEW w \in Wallets, NEW p \in Releases,
         RegisterArenaAssetFromStellar(w, p)
  PROVE  BridgeInv'
<1> DEFINE card == registry.nextIndex
<1>1. card \in Nat
  BY CounterType DEF BridgeInv
<1>2. BridgeTypeOK /\ CardsBelowCounter /\ FirstAndNewestCard
  BY DEF BridgeInv
<1>3. card \notin DOMAIN stellarLink
  BY <1>1, <1>2 DEF CardsBelowCounter
<1>4. registry'.nextIndex = card + 1
  <2>1. registry \in ArenaRegistry
    BY DEF BridgeInv, RegistryInv, RegistryTypeOK
  <2>2. QED
    BY <2>1 DEF RegisterArenaAssetFromStellar, TakeIndex, ArenaRegistry
<1>5. /\ DOMAIN stellarLink' = DOMAIN stellarLink \cup {card}
      /\ stellarLink'[card] = p
      /\ \A i \in DOMAIN stellarLink : stellarLink'[i] = stellarLink[i]
  BY <1>3 DEF RegisterArenaAssetFromStellar, WriteLinks
<1>6. /\ releaseLink' = [releaseLink EXCEPT ![p] = card]
      /\ deployment' = [deployment EXCEPT ![p] = card]
      /\ IF release[p].status = "Finalized"
         THEN release' = [release EXCEPT ![p].status = "Linked", ![p].linked = card]
         ELSE release' = release
  BY DEF RegisterArenaAssetFromStellar, WriteLinks, LinkArenaAsset, RecordReleaseDeployment
<1>7. release[p].status \in {"Finalized", "Linked"}
  BY DEF RegisterArenaAssetFromStellar, Publishable
<1>8. BridgeTypeOK'
  <2>1. release' \in [Releases -> Release]
    BY <1>1, <1>2, <1>6 DEF BridgeTypeOK, Release, ReleaseStatus, Record
  <2>2. deployment' \in [Releases -> Record] /\ releaseLink' \in [Releases -> Nat \cup {None}]
    BY <1>1, <1>2, <1>6 DEF BridgeTypeOK, Record
  <2>3. QED
    BY <1>1, <1>2, <1>5, <2>1, <2>2 DEF BridgeTypeOK
<1>9. CardsBelowCounter'
  <2>1. \A i \in DOMAIN stellarLink : i \in Nat /\ i < card
    BY <1>2 DEF BridgeTypeOK, CardsBelowCounter
  <2>2. QED
    BY <1>1, <1>4, <1>5, <2>1 DEF CardsBelowCounter
<1>10. FirstAndNewestCard'
  <2>1. SUFFICES ASSUME NEW r \in Releases
                 PROVE  /\ CardsOf(r)' = {} <=> releaseLink'[r] = None
                        /\ CardsOf(r)' # {} =>
                             /\ releaseLink'[r] \in CardsOf(r)'
                             /\ \A i \in CardsOf(r)' : i <= releaseLink'[r]
                             /\ release'[r].status = "Linked"
                        /\ deployment'[r] \in Nat => deployment'[r] = releaseLink'[r]
                        /\ release'[r].linked \in Nat =>
                             /\ release'[r].linked \in CardsOf(r)'
                             /\ \A i \in CardsOf(r)' : release'[r].linked <= i
    BY DEF FirstAndNewestCard
  <2>2. /\ CardsOf(r) = {} <=> releaseLink[r] = None
        /\ CardsOf(r) # {} => /\ releaseLink[r] \in CardsOf(r)
                              /\ \A i \in CardsOf(r) : i <= releaseLink[r]
                              /\ release[r].status = "Linked"
        /\ deployment[r] \in Nat => deployment[r] = releaseLink[r]
        /\ release[r].linked \in Nat =>
             release[r].linked \in CardsOf(r) /\ \A i \in CardsOf(r) : release[r].linked <= i
    BY <1>2 DEF FirstAndNewestCard
  <2>3. \A i \in CardsOf(r) : i \in Nat /\ i < card
    BY <1>2 DEF BridgeTypeOK, CardsBelowCounter, CardsOf
  <2>4. CASE r = p
    <3>1. CardsOf(r)' = CardsOf(r) \cup {card}
      BY <1>5, <2>4 DEF CardsOf
    <3>2. releaseLink'[r] = card /\ deployment'[r] = card
      BY <1>2, <1>6, <2>4 DEF BridgeTypeOK
    <3>3. CASE release[p].status = "Finalized"
      <4>1. release'[r].status = "Linked" /\ release'[r].linked = card
        BY <1>2, <1>6, <2>4, <3>3 DEF BridgeTypeOK, Release
      <4>2. CardsOf(r) = {}
        BY <2>2, <2>4, <3>3
      <4>3. QED
        BY <1>1, <3>1, <3>2, <4>1, <4>2
    <3>4. CASE release[p].status = "Linked"
      <4>1. release' = release
        BY <1>6, <3>4
      <4>2. QED
        BY <1>1, <2>2, <2>3, <2>4, <3>1, <3>2, <3>4, <4>1
    <3>5. QED
      BY <1>7, <3>3, <3>4
  <2>5. CASE r # p
    <3>1. CardsOf(r)' = CardsOf(r)
      BY <1>3, <1>5, <2>5 DEF CardsOf
    <3>2. releaseLink'[r] = releaseLink[r] /\ deployment'[r] = deployment[r]
      BY <1>2, <1>6, <2>5 DEF BridgeTypeOK
    <3>3. release'[r] = release[r]
      BY <1>2, <1>6, <2>5 DEF BridgeTypeOK
    <3>4. QED
      BY <2>2, <3>1, <3>2, <3>3
  <2>6. QED
    BY <2>4, <2>5
<1>11. QED
  BY <1>8, <1>9, <1>10 DEF BridgeInv

-----------------------------------------------------------------------------
\* What the Stellar program does to one release: a link it writes itself names
\* no card, and a status only moves on.
StellarMove(p) ==
  \/ FinalizeRelease(p) \/ LinkAvatarData(p) \/ DeployElsewhere(p)
  \/ \E w \in Wallets : TransferRelease(p, w)

LEMMA StellarMoves ==
  ASSUME BridgeInv, NEW p \in Releases, StellarMove(p)
  PROVE  /\ release' \in [Releases -> Release]
         /\ deployment' \in [Releases -> Record]
         /\ \A r \in Releases :
              /\ release[r].status = "Linked" => release'[r].status = "Linked"
              /\ release'[r].linked \in Nat => release'[r].linked = release[r].linked
              /\ deployment'[r] \in Nat => deployment'[r] = deployment[r]
<1>1. release \in [Releases -> Release] /\ deployment \in [Releases -> Record]
  BY DEF BridgeInv, BridgeTypeOK
<1>2. CASE FinalizeRelease(p)
  BY <1>1, <1>2 DEF FinalizeRelease, Release, ReleaseStatus
<1>3. CASE LinkAvatarData(p)
  BY <1>1, <1>3 DEF LinkAvatarData, Release, ReleaseStatus, Record
<1>4. CASE DeployElsewhere(p)
  BY <1>1, <1>4 DEF DeployElsewhere, Record
<1>5. ASSUME NEW w \in Wallets, TransferRelease(p, w)
      PROVE  /\ release' = [release EXCEPT ![p].authority = w]
             /\ deployment' = deployment
  BY <1>5 DEF TransferRelease
<1>6. CASE \E w \in Wallets : TransferRelease(p, w)
  BY <1>1, <1>5, <1>6 DEF Release
<1>7. QED
  BY <1>2, <1>3, <1>4, <1>6 DEF StellarMove

LEMMA StellarInv ==
  ASSUME BridgeInv, Stellar
  PROVE  BridgeInv'
<1>1. PICK p \in Releases : StellarMove(p)
  BY DEF Stellar, StellarMove
<1>2. UNCHANGED <<registryVars, stellarLink, releaseLink>>
  BY DEF Stellar
<1>3. /\ release' \in [Releases -> Release]
      /\ deployment' \in [Releases -> Record]
      /\ \A r \in Releases :
           /\ release[r].status = "Linked" => release'[r].status = "Linked"
           /\ release'[r].linked \in Nat => release'[r].linked = release[r].linked
           /\ deployment'[r] \in Nat => deployment'[r] = deployment[r]
  BY <1>1, StellarMoves
<1>4. RegistryInv'
  BY <1>2, RegistryInvNext DEF BridgeInv
<1>5. BridgeTypeOK'
  BY <1>2, <1>3 DEF BridgeInv, BridgeTypeOK
<1>6. CardsBelowCounter'
  BY <1>2 DEF BridgeInv, CardsBelowCounter, registryVars
<1>7. FirstAndNewestCard'
  <2>1. \A r \in Releases : CardsOf(r)' = CardsOf(r)
    BY <1>2 DEF CardsOf
  <2>2. QED
    BY <1>2, <1>3, <2>1 DEF BridgeInv, FirstAndNewestCard
<1>8. QED
  BY <1>4, <1>5, <1>6, <1>7 DEF BridgeInv

LEMMA RegistryStepInv ==
  ASSUME BridgeInv, RegistryInv', RegistryNext, UNCHANGED bridgeVars
  PROVE  BridgeInv'
<1>1. registry.nextIndex \in Nat /\ registry'.nextIndex \in Nat
  BY CounterType DEF BridgeInv, RegistryInv, RegistryTypeOK, ArenaRegistry
<1>2. registry'.nextIndex >= registry.nextIndex
  BY CounterGrows DEF BridgeInv
<1>3. BridgeTypeOK' /\ FirstAndNewestCard'
  BY DEF BridgeInv, BridgeTypeOK, FirstAndNewestCard, CardsOf, bridgeVars
<1>4. CardsBelowCounter'
  BY <1>1, <1>2 DEF BridgeInv, BridgeTypeOK, CardsBelowCounter, bridgeVars
<1>5. QED
  BY <1>3, <1>4 DEF BridgeInv

LEMMA BridgeInvNext == BridgeInv /\ [Next]_vars => BridgeInv'
<1>1. SUFFICES ASSUME BridgeInv, [Next]_vars PROVE BridgeInv'
  OBVIOUS
<1>2. RegistryInv'
  BY <1>1, BridgeStepOfRegistry, RegistryInvNext DEF BridgeInv
<1>3. ASSUME NEW w \in Wallets, NEW r \in Releases, RegisterArenaAssetFromStellar(w, r)
      PROVE  BridgeInv'
  BY <1>1, <1>2, <1>3, PublishInv
<1>4. CASE Stellar
  BY <1>1, <1>4, StellarInv
<1>5. CASE ArenaRegistryStep
  BY <1>1, <1>2, <1>5, RegistryStepInv DEF ArenaRegistryStep
<1>6. CASE UNCHANGED vars
  BY <1>1, <1>2, <1>6 DEF vars, bridgeVars, registryVars, BridgeInv, BridgeTypeOK,
     CardsBelowCounter, FirstAndNewestCard, CardsOf
<1>7. QED
  BY <1>1, <1>3, <1>4, <1>5, <1>6 DEF Next

LEMMA BridgeInvariance == Spec => []BridgeInv
BY BridgeInvInit, BridgeInvNext, PTL DEF Spec

\* Every reachable state of the registry with the bridge is well typed.
THEOREM BridgeTypeCorrect == Spec => []TypeOK
<1>1. BridgeInv => TypeOK
  BY DEF BridgeInv, RegistryInv, TypeOK
<1>2. QED
  BY <1>1, BridgeInvariance, PTL

\* However often and by whomever a release is published, whatever the Stellar
\* program does to it in between, its links name its first and its newest card.
THEOREM CardsAgree == Spec => []FirstAndNewestCard
<1>1. BridgeInv => FirstAndNewestCard
  BY DEF BridgeInv
<1>2. QED
  BY <1>1, BridgeInvariance, PTL
=============================================================================
