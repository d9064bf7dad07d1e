---------------------------- MODULE StellarBridge ----------------------------
(***************************************************************************)
(* The bridge from solana-stellar: register_arena_asset_from_stellar       *)
(* publishes a release as an Arena card.  One instruction writes three     *)
(* accounts of the Arena (the card, its StellarArenaAssetLink and the      *)
(* StellarReleaseLink of the release) and two of the Stellar program       *)
(* (the release and its deployment record, by CPI).  The Stellar program   *)
(* is external: its other instructions are what its owners may also call.  *)
(***************************************************************************)
EXTENDS Registry

CONSTANTS
  Releases,       \* Stellar releases
  UniverseOwner,  \* release -> owner of its universe
  Elsewhere       \* a record that was not written by this instruction

ReleaseStatus == {"Draft", "Finalized", "Linked"}

ASSUME StellarBridgeAssumption ==
  /\ UniverseOwner \in [Releases -> Wallets]
  /\ None \notin Releases
  /\ None \notin Nat /\ Elsewhere \notin Nat /\ Elsewhere # None

VARIABLES
  release,      \* Release account: status, authority and linked_avatar_data
  deployment,   \* ReleaseDeployment "arena" of a release: its registry record
  stellarLink,  \* StellarArenaAssetLink: index of the card -> its release
  releaseLink   \* StellarReleaseLink: release -> index of the card, or None

bridgeVars == <<release, deployment, stellarLink, releaseLink>>
vars == <<registryVars, bridgeVars>>

Record == Nat \cup {None, Elsewhere}

Release == [status : ReleaseStatus, authority : Wallets, linked : Record]

BridgeTypeOK ==
  /\ release \in [Releases -> Release]
  /\ deployment \in [Releases -> Record]
  /\ DOMAIN stellarLink \subseteq Nat
  /\ \A i \in DOMAIN stellarLink : stellarLink[i] \in Releases
  /\ releaseLink \in [Releases -> Nat \cup {None}]

TypeOK == RegistryTypeOK /\ BridgeTypeOK

Init ==
  /\ RegistryInit
  /\ release \in [Releases -> [status : {"Draft"}, authority : Wallets, linked : {None}]]
  /\ deployment = [r \in Releases |-> None]
  /\ stellarLink = << >>
  /\ releaseLink = [r \in Releases |-> None]

-----------------------------------------------------------------------------
(* The instruction *)

Publishable(r) == release[r].status \in {"Finalized", "Linked"}

\* link_avatar_data by CPI: only a release that is not linked yet is linked.
LinkArenaAsset(r, card) ==
  IF release[r].status = "Finalized"
  THEN release' = [release EXCEPT ![r].status = "Linked", ![r].linked = card]
  ELSE UNCHANGED release

\* record_release_deployment by CPI, signed by the payer.
RecordReleaseDeployment(w, r, card) ==
  /\ release[r].authority = w
  /\ deployment' = [deployment EXCEPT ![r] = card]

\* Mutant: the release link is written when it is created only.
WriteLinksOnce(r, card) ==
  /\ stellarLink' = [i \in DOMAIN stellarLink \cup {card} |->
                       IF i = card THEN r ELSE stellarLink[i]]
  /\ releaseLink' = [releaseLink EXCEPT ![r] = IF @ = None THEN card ELSE @]

\* stellar_link is created with the card; stellar_release_link is created or,
\* by init_if_needed, written again.
WriteLinks(r, card) ==
  /\ stellarLink' = [i \in DOMAIN stellarLink \cup {card} |->
                       IF i = card THEN r ELSE stellarLink[i]]
  /\ releaseLink' = [releaseLink EXCEPT ![r] = card]

RegisterArenaAssetFromStellar(w, r) ==
  /\ Loadable
  /\ Publishable(r)
  /\ UniverseOwner[r] = w
  /\ TakeIndex(w)
  /\ WriteLinks(r, registry.nextIndex)
  /\ LinkArenaAsset(r, registry.nextIndex)
  /\ RecordReleaseDeployment(w, r, registry.nextIndex)

-----------------------------------------------------------------------------
(* The Stellar program called directly, external *)

FinalizeRelease(r) ==
  /\ release[r].status = "Draft"
  /\ release' = [release EXCEPT ![r].status = "Finalized"]
  /\ UNCHANGED deployment

LinkAvatarData(r) ==
  /\ release[r].status = "Finalized"
  /\ release' = [release EXCEPT ![r].status = "Linked", ![r].linked = Elsewhere]
  /\ UNCHANGED deployment

DeployElsewhere(r) ==
  /\ deployment[r] # Elsewhere
  /\ deployment' = [deployment EXCEPT ![r] = Elsewhere]
  /\ UNCHANGED release

TransferRelease(r, w) ==
  /\ release[r].authority # w
  /\ release' = [release EXCEPT ![r].authority = w]
  /\ UNCHANGED deployment

Stellar ==
  /\ \E r \in Releases :
       \/ FinalizeRelease(r) \/ LinkAvatarData(r) \/ DeployElsewhere(r)
       \/ \E w \in Wallets : TransferRelease(r, w)
  /\ UNCHANGED <<registryVars, stellarLink, releaseLink>>

ArenaRegistryStep == RegistryNext /\ UNCHANGED bridgeVars

Next ==
  \/ \E w \in Wallets, r \in Releases : RegisterArenaAssetFromStellar(w, r)
  \/ Stellar
  \/ ArenaRegistryStep

Spec == Init /\ [][Next]_vars

-----------------------------------------------------------------------------
(* Properties *)

CardsOf(r) == {i \in DOMAIN stellarLink : stellarLink[i] = r}

\* A release may be published again and again, and the five accounts keep one
\* story: its StellarReleaseLink names its newest card, so does the deployment
\* record as far as the Arena wrote it, linked_avatar_data still names the
\* first card if a card linked it, and no card exists of a release that is not
\* linked.
FirstAndNewestCard ==
  \A r \in Releases :
    LET cards == CardsOf(r) IN
      /\ cards = {} <=> releaseLink[r] = None
      /\ cards # {} => /\ releaseLink[r] \in cards
                       /\ \A i \in cards : i <= releaseLink[r]
                       /\ release[r].status = "Linked"
      /\ deployment[r] \in Nat => deployment[r] = releaseLink[r]
      /\ release[r].linked \in Nat =>
           release[r].linked \in cards /\ \A i \in cards : release[r].linked <= i
=============================================================================
