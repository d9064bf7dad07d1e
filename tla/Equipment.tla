----------------------------- MODULE Equipment -----------------------------
(***************************************************************************)
(* Player avatars and what they wear.  A wallet's PlayerAvatar keeps four  *)
(* legacy slots, one per item class; its EquipmentRecord keeps seven.  Two *)
(* generations of instructions write them, and nothing locks the NFTs: an  *)
(* equipped item can be sold, escrowed, scrapped or burned at any moment.  *)
(***************************************************************************)
EXTENDS Integers, Pubkeys

CONSTANTS
  Nfts,      \* mints of supply 1
  Items,     \* those with an ArenaItem account
  Fighters,  \* those with an Avatar card at their mint-keyed address
  Escrows,   \* token accounts that belong to PDAs
  Cards,     \* legacy catalog cards of kind Avatar
  BaseType,  \* class of every item
  SlotMask   \* classes every card and fighter supports

\* ArenaBaseType by its slot_index: Weapon, Head, Armor, Charm.
Classes == 0..3

\* Weapon, Head, Body, Gloves, Boots, Amulet, Ring; the nine reserved slots
\* of the account are written by no instruction.
Slots == 0..6

ASSUME EquipmentAssumption ==
  /\ Items \subseteq Nfts /\ Fighters \subseteq Nfts
  /\ Items \cap Fighters = {}
  /\ Cards \cap Fighters = {}
  /\ None \notin Nfts \cup Cards \cup Escrows
  /\ Escrows \cap Wallets = {}
  /\ BaseType \in [Items -> Classes]
  /\ SlotMask \in [Cards \cup Fighters -> SUBSET Classes]

VARIABLES
  holder,     \* where the one token of a mint is; None once it is burned
  arenaItem,  \* the items whose ArenaItem account is open
  avatar,     \* PlayerAvatar of a wallet
  record,     \* EquipmentRecord of a wallet's avatar
  diverged    \* history: wallets whose two views were written separately since
              \* the last activation of a fighter

equipmentVars == <<holder, arenaItem, avatar, record, diverged>>

NoAvatar == [card |-> None]
NoRecord == [slots |-> << >>]

PlayerAvatar == [card : Cards \cup Fighters, mask : SUBSET Classes,
                 equipped : [Classes -> Items \cup {None}]]
EquipmentRecord == [slots : [Slots -> Items \cup {None}]]

EquipmentTypeOK ==
  /\ holder \in [Nfts -> Wallets \cup Escrows \cup {None}]
  /\ arenaItem \subseteq Items
  /\ avatar \in [Wallets -> PlayerAvatar \cup {NoAvatar}]
  /\ record \in [Wallets -> EquipmentRecord \cup {NoRecord}]
  /\ diverged \subseteq Wallets

EquipmentInit ==
  /\ holder \in [Nfts -> Wallets]
  /\ arenaItem = Items
  /\ avatar = [w \in Wallets |-> NoAvatar]
  /\ record = [w \in Wallets |-> NoRecord]
  /\ diverged = {}

-----------------------------------------------------------------------------
(* The slots *)

AllowedInEquipSlot(class, slot) ==
  \/ class \in {0, 1} /\ slot = class
  \/ class = 2 /\ slot \in 2..4
  \/ class = 3 /\ slot \in 5..6

\* The legacy slot that mirrors a slot, for the slots that have one.
LegacyEquippedIndex == [slot \in {0, 1, 2, 5} |-> IF slot = 5 THEN 3 ELSE slot]

NoGear == [c \in Classes |-> None]
NoSlots == [s \in Slots |-> None]

\* Mutant: unequipping leaves the mirror alone.
MirrorOfEquips(legacy, slot, mint) ==
  IF slot \in DOMAIN LegacyEquippedIndex /\ mint # None
  THEN [legacy EXCEPT ![LegacyEquippedIndex[slot]] = mint]
  ELSE legacy

\* The legacy slots once the mirror of slot, if any, is set to mint.
Mirror(legacy, slot, mint) ==
  IF slot \in DOMAIN LegacyEquippedIndex
  THEN [legacy EXCEPT ![LegacyEquippedIndex[slot]] = mint]
  ELSE legacy

\* Mutant: old occurrences stay.
Uncleared(slots, mint) == IF mint = None THEN slots ELSE slots

Cleared(slots, mint) == [s \in DOMAIN slots |-> IF slots[s] = mint THEN None ELSE slots[s]]

\* The record of w, created empty when it does not exist yet.
TouchedSlots(w) == IF record[w] = NoRecord THEN NoSlots ELSE record[w].slots

\* Mutant: a new card keeps the gear of the old one.
SetCardKeepingGear(w, card) ==
  avatar' = [avatar EXCEPT ![w] =
    [card |-> card, mask |-> SlotMask[card],
     equipped |-> IF avatar[w] = NoAvatar THEN NoGear ELSE avatar[w].equipped]]

SetCard(w, card) ==
  avatar' = [avatar EXCEPT ![w] =
               [card |-> card, mask |-> SlotMask[card], equipped |-> NoGear]]

-----------------------------------------------------------------------------
(* Instructions *)

\* A catalog card that is not a fighter's; anyone may use any card.
CreatePlayerAvatar(w, card) ==
  /\ avatar[w] = NoAvatar
  /\ card \in Cards
  /\ SetCard(w, card)
  /\ UNCHANGED <<holder, arenaItem, record, diverged>>

ActivateFighterV2(w, fighter) ==
  /\ holder[fighter] = w
  /\ SetCard(w, fighter)
  /\ record' = [record EXCEPT ![w] = [slots |-> NoSlots]]
  /\ diverged' = diverged \ {w}
  /\ UNCHANGED <<holder, arenaItem>>

\* With a new card; without one it changes the name and the skin only.
CustomizeAvatar(w, card) ==
  /\ avatar[w] # NoAvatar
  /\ card \in Cards
  /\ SetCard(w, card)
  /\ diverged' = diverged \cup {w}
  /\ UNCHANGED <<holder, arenaItem, record>>

\* Mutant: the token is not asked for.
KnowsItem(w, item) == avatar[w] # NoAvatar /\ item \in arenaItem

\* The signer has an avatar and holds the token of a live item.
HoldsItem(w, item) ==
  /\ avatar[w] # NoAvatar
  /\ item \in arenaItem
  /\ holder[item] = w

EquipItem(w, item) ==
  /\ HoldsItem(w, item)
  /\ BaseType[item] \in avatar[w].mask
  /\ avatar' = [avatar EXCEPT ![w].equipped[BaseType[item]] = item]
  /\ diverged' = diverged \cup {w}
  /\ UNCHANGED <<holder, arenaItem, record>>

UnequipItem(w, class) ==
  /\ avatar[w] # NoAvatar
  /\ avatar' = [avatar EXCEPT ![w].equipped[class] = None]
  /\ diverged' = diverged \cup {w}
  /\ UNCHANGED <<holder, arenaItem, record>>

\* Every old occurrence of the mint is cleared in both views, then the mint
\* goes to its slot and to the mirror of that slot.
MoveEquippedMint(w, item, slot) ==
  /\ record' = [record EXCEPT ![w] =
       [slots |-> [Cleared(TouchedSlots(w), item) EXCEPT ![slot] = item]]]
  /\ avatar' = [avatar EXCEPT ![w].equipped = Mirror(Cleared(@, item), slot, item)]

EquipItemV2(w, item, slot) ==
  /\ HoldsItem(w, item)
  /\ AllowedInEquipSlot(BaseType[item], slot)
  /\ BaseType[item] \in avatar[w].mask
  /\ MoveEquippedMint(w, item, slot)
  /\ UNCHANGED <<holder, arenaItem, diverged>>

UnequipItemV2(w, slot) ==
  /\ avatar[w] # NoAvatar
  /\ record' = [record EXCEPT ![w] = [slots |-> [TouchedSlots(w) EXCEPT ![slot] = None]]]
  /\ avatar' = [avatar EXCEPT ![w].equipped = Mirror(@, slot, None)]
  /\ UNCHANGED <<holder, arenaItem, diverged>>

\* Mutant: the account closes without the token.
ScrapWithoutToken(w, item) ==
  /\ item \in arenaItem
  /\ holder' = [holder EXCEPT ![item] = None]
  /\ arenaItem' = arenaItem \ {item}
  /\ UNCHANGED <<avatar, record, diverged>>

\* Burns the NFT and closes the ArenaItem account.
ScrapArenaItem(w, item) ==
  /\ item \in arenaItem
  /\ holder[item] = w
  /\ holder' = [holder EXCEPT ![item] = None]
  /\ arenaItem' = arenaItem \ {item}
  /\ UNCHANGED <<avatar, record, diverged>>

\* The token and metadata programs, external: a holder sells or burns an NFT.
Transfer(nft, to) ==
  /\ holder[nft] \in Wallets
  /\ holder[nft] # to
  /\ holder' = [holder EXCEPT ![nft] = to]
  /\ UNCHANGED <<arenaItem, avatar, record, diverged>>

V2Next ==
  \/ \E w \in Wallets, f \in Fighters : ActivateFighterV2(w, f)
  \/ \E w \in Wallets, i \in Items, s \in Slots : EquipItemV2(w, i, s)
  \/ \E w \in Wallets, s \in Slots : UnequipItemV2(w, s)

LegacyNext ==
  \/ \E w \in Wallets, c \in Cards : CreatePlayerAvatar(w, c) \/ CustomizeAvatar(w, c)
  \/ \E w \in Wallets, i \in Items : EquipItem(w, i)
  \/ \E w \in Wallets, c \in Classes : UnequipItem(w, c)

TokenNext ==
  \/ \E w \in Wallets, i \in Items : ScrapArenaItem(w, i)
  \/ \E n \in Nfts, to \in Wallets \cup {None} : Transfer(n, to)

EquipmentNext == V2Next \/ LegacyNext \/ TokenNext

EquipmentSpec == EquipmentInit /\ [][EquipmentNext]_equipmentVars

-----------------------------------------------------------------------------
(* Properties *)

\* A mint fills at most one slot of a record, whatever mix of legacy and v2
\* instructions, sales and repurchases came between two equips of it.
MintInOneSlot ==
  \A w \in Wallets : record[w] # NoRecord =>
    \A s, t \in Slots :
      record[w].slots[s] = record[w].slots[t] /\ record[w].slots[s] # None => s = t

\* Both views hold only items whose class belongs in the slot: neither the
\* mirror nor a card swap ever leaves a ring in the armor slot.
SlotsFitClass ==
  \A w \in Wallets :
    /\ record[w] # NoRecord => \A s \in Slots :
         record[w].slots[s] # None => AllowedInEquipSlot(BaseType[record[w].slots[s]], s)
    /\ avatar[w] # NoAvatar => \A c \in Classes :
         avatar[w].equipped[c] # None => BaseType[avatar[w].equipped[c]] = c

\* The legacy slots show only classes the active card supports, across card
\* swaps, fighter activations and mirrored v2 equips.
LegacySlotsSupported ==
  \A w \in Wallets : avatar[w] # NoAvatar =>
    \A c \in Classes : avatar[w].equipped[c] # None => c \in avatar[w].mask

\* What is worn can be worn there: by its class, and by the active card as far
\* as the legacy slots show it.
GearSuitsSlots == SlotsFitClass /\ LegacySlotsSupported

\* What customize_avatar says of a swap: no item stays in a slot the new
\* character does not have. Stated of the seven-slot record the fights read.
RecordSlotsSupported ==
  \A w \in Wallets : avatar[w] # NoAvatar /\ record[w] # NoRecord =>
    \A s \in Slots :
      record[w].slots[s] # None => BaseType[record[w].slots[s]] \in avatar[w].mask

\* The legacy slots are a mirror of the canonical slots of the record: no mix of
\* equips, moves between slots, replacements and unequips through the v2
\* instructions makes them differ, and activating a fighter repairs what the
\* legacy instructions and card swaps broke.
MirrorCoherent ==
  \A w \in Wallets \ diverged : avatar[w] # NoAvatar /\ record[w] # NoRecord =>
    \A s \in DOMAIN LegacyEquippedIndex :
      avatar[w].equipped[LegacyEquippedIndex[s]] = record[w].slots[s]
=============================================================================
