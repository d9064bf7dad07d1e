-------------------------- MODULE EnhancementProofs --------------------------
(***************************************************************************)
(* Safety of the equipment and of item enhancement on top of it.  First    *)
(* the two views of a loadout, for any wallets, items, classes, cards and  *)
(* fighters: what one edit does to a record's slots and to the legacy      *)
(* slots, as facts about functions, then the invariant of Equipment.  Then *)
(* item enhancement, for any scrolls, chances, rolls and chains, with      *)
(* everything it is composed with, and the proof that an attempt is a      *)
(* commit of CommitReveal.                                                 *)
(***************************************************************************)
EXTENDS Enhancement, RegistryProofs, SlotHashesProofs, FiniteSetTheorems

USE PubkeysAssumption, EquipmentAssumption, RegistryAssumption, FeesAssumption

-----------------------------------------------------------------------------
(* Equipment *)

Loadout == [Slots -> Items \cup {None}]
Legacy == [Classes -> Items \cup {None}]

\* The parts of the properties that concern one record and one avatar.
Once(sl) == \A s, t \in Slots : sl[s] = sl[t] /\ sl[s] # None => s = t
Fits(sl) == \A s \in Slots : sl[s] # None => AllowedInEquipSlot(BaseType[sl[s]], s)
GearFits(g, mask) == \A c \in Classes : g[c] # None => BaseType[g[c]] = c /\ c \in mask
Mirrors(sl, g) == \A s \in DOMAIN LegacyEquippedIndex : g[LegacyEquippedIndex[s]] = sl[s]

\* The slots and the mirror after an item is moved to slot s.
PutSlots(sl, i, s) == [Cleared(sl, i) EXCEPT ![s] = i]
PutGear(g, i, s) == Mirror(Cleared(g, i), s, i)

-----------------------------------------------------------------------------
(* Edits of the slots *)

LEMMA ItemIsSome == ASSUME NEW i \in Items PROVE i # None /\ BaseType[i] \in Classes
BY DEF Classes

\* The mirror sits in the class of what the slot may hold.
LEMMA MirrorIndex ==
  /\ DOMAIN LegacyEquippedIndex = {0, 1, 2, 5}
  /\ LegacyEquippedIndex[0] = 0 /\ LegacyEquippedIndex[1] = 1
  /\ LegacyEquippedIndex[2] = 2 /\ LegacyEquippedIndex[5] = 3
BY DEF LegacyEquippedIndex

LEMMA MirrorClass ==
  ASSUME NEW class \in Classes, NEW s \in DOMAIN LegacyEquippedIndex,
         AllowedInEquipSlot(class, s)
  PROVE  LegacyEquippedIndex[s] = class
BY MirrorIndex DEF Classes, AllowedInEquipSlot

LEMMA ClearedLoadout ==
  ASSUME NEW sl \in Loadout, NEW i \in Items
  PROVE  /\ Cleared(sl, i) \in Loadout
         /\ \A s \in Slots : Cleared(sl, i)[s] = IF sl[s] = i THEN None ELSE sl[s]
BY DEF Cleared, Loadout

LEMMA ClearedLegacy ==
  ASSUME NEW g \in Legacy, NEW i \in Items
  PROVE  /\ Cleared(g, i) \in Legacy
         /\ \A c \in Classes : Cleared(g, i)[c] = IF g[c] = i THEN None ELSE g[c]
BY DEF Cleared, Legacy

LEMMA PutSlotsAt ==
  ASSUME NEW sl \in Loadout, NEW i \in Items, NEW s \in Slots
  PROVE  /\ PutSlots(sl, i, s) \in Loadout
         /\ \A t \in Slots : PutSlots(sl, i, s)[t] =
              IF t = s THEN i ELSE IF sl[t] = i THEN None ELSE sl[t]
<1>1. Cleared(sl, i) \in Loadout
      /\ \A t \in Slots : Cleared(sl, i)[t] = IF sl[t] = i THEN None ELSE sl[t]
  BY ClearedLoadout
<1>2. QED
  BY <1>1 DEF PutSlots, Loadout

\* Moving an item to a slot of its class keeps a record good.
LEMMA PutSlotsGood ==
  ASSUME NEW sl \in Loadout, NEW i \in Items, NEW s \in Slots,
         Once(sl), Fits(sl), AllowedInEquipSlot(BaseType[i], s)
  PROVE  Once(PutSlots(sl, i, s)) /\ Fits(PutSlots(sl, i, s))
<1>1. \A t \in Slots : PutSlots(sl, i, s)[t] =
        IF t = s THEN i ELSE IF sl[t] = i THEN None ELSE sl[t]
  BY PutSlotsAt
<1>2. i # None
  BY ItemIsSome
<1>3. Once(PutSlots(sl, i, s))
  BY <1>1, <1>2 DEF Once
<1>4. Fits(PutSlots(sl, i, s))
  BY <1>1, <1>2 DEF Fits
<1>5. QED
  BY <1>3, <1>4

LEMMA MirrorAt ==
  ASSUME NEW g \in Legacy, NEW m \in Items \cup {None}, NEW s \in Slots
  PROVE  /\ Mirror(g, s, m) \in Legacy
         /\ \A c \in Classes : Mirror(g, s, m)[c] =
              IF s \in DOMAIN LegacyEquippedIndex /\ c = LegacyEquippedIndex[s]
              THEN m ELSE g[c]
<1>1. CASE s \in DOMAIN LegacyEquippedIndex
  <2>1. LegacyEquippedIndex[s] \in Classes
    BY <1>1, MirrorIndex DEF Classes
  <2>2. QED
    BY <1>1, <2>1 DEF Mirror, Legacy
<1>2. CASE s \notin DOMAIN LegacyEquippedIndex
  BY <1>2 DEF Mirror
<1>3. QED
  BY <1>1, <1>2

LEMMA PutGearGood ==
  ASSUME NEW g \in Legacy, NEW mask, NEW i \in Items, NEW s \in Slots,
         GearFits(g, mask), BaseType[i] \in mask, AllowedInEquipSlot(BaseType[i], s)
  PROVE  PutGear(g, i, s) \in Legacy /\ GearFits(PutGear(g, i, s), mask)
<1>1. Cleared(g, i) \in Legacy
      /\ \A c \in Classes : Cleared(g, i)[c] = IF g[c] = i THEN None ELSE g[c]
  BY ClearedLegacy
<1>2. PutGear(g, i, s) \in Legacy
      /\ \A c \in Classes : PutGear(g, i, s)[c] =
           IF s \in DOMAIN LegacyEquippedIndex /\ c = LegacyEquippedIndex[s]
           THEN i ELSE Cleared(g, i)[c]
  BY <1>1, MirrorAt DEF PutGear
<1>3. s \in DOMAIN LegacyEquippedIndex => LegacyEquippedIndex[s] = BaseType[i]
  BY ItemIsSome, MirrorClass
<1>4. QED
  BY <1>1, <1>2, <1>3 DEF GearFits

\* A move keeps the mirror exact, also when it takes the item out of another
\* slot or puts it into a slot that has no mirror.
LEMMA PutMirrors ==
  ASSUME NEW sl \in Loadout, NEW g \in Legacy, NEW i \in Items, NEW s \in Slots,
         Mirrors(sl, g)
  PROVE  Mirrors(PutSlots(sl, i, s), PutGear(g, i, s))
<1>1. \A t \in Slots : PutSlots(sl, i, s)[t] =
        IF t = s THEN i ELSE IF sl[t] = i THEN None ELSE sl[t]
  BY PutSlotsAt
<1>2. Cleared(g, i) \in Legacy
      /\ \A c \in Classes : Cleared(g, i)[c] = IF g[c] = i THEN None ELSE g[c]
  BY ClearedLegacy
<1>3. \A c \in Classes : PutGear(g, i, s)[c] =
        IF s \in DOMAIN LegacyEquippedIndex /\ c = LegacyEquippedIndex[s]
        THEN i ELSE Cleared(g, i)[c]
  BY <1>2, MirrorAt DEF PutGear
<1>4. SUFFICES ASSUME NEW t \in DOMAIN LegacyEquippedIndex
               PROVE  PutGear(g, i, s)[LegacyEquippedIndex[t]] = PutSlots(sl, i, s)[t]
  BY DEF Mirrors
<1>5. t \in Slots /\ LegacyEquippedIndex[t] \in Classes
  BY <1>4, MirrorIndex DEF Slots, Classes
<1>6. g[LegacyEquippedIndex[t]] = sl[t]
  BY <1>4 DEF Mirrors
<1>7. s \in DOMAIN LegacyEquippedIndex /\ LegacyEquippedIndex[t] = LegacyEquippedIndex[s]
        <=> t = s
  BY <1>4, MirrorIndex
<1>8. QED
  BY <1>1, <1>2, <1>3, <1>5, <1>6, <1>7

\* Emptying a slot together with its mirror keeps all three.
LEMMA EmptySlotGood ==
  ASSUME NEW sl \in Loadout, NEW s \in Slots, Once(sl), Fits(sl)
  PROVE  LET sl2 == [sl EXCEPT ![s] = None] IN sl2 \in Loadout /\ Once(sl2) /\ Fits(sl2)
BY DEF Loadout, Once, Fits

LEMMA EmptyGearGood ==
  ASSUME NEW g \in Legacy, NEW mask, NEW s \in Slots, GearFits(g, mask)
  PROVE  Mirror(g, s, None) \in Legacy /\ GearFits(Mirror(g, s, None), mask)
BY MirrorAt DEF GearFits

LEMMA EmptyMirrors ==
  ASSUME NEW sl \in Loadout, NEW g \in Legacy, NEW s \in Slots, Mirrors(sl, g)
  PROVE  Mirrors([sl EXCEPT ![s] = None], Mirror(g, s, None))
<1>1. SUFFICES ASSUME NEW t \in DOMAIN LegacyEquippedIndex
               PROVE  Mirror(g, s, None)[LegacyEquippedIndex[t]] = [sl EXCEPT ![s] = None][t]
  BY DEF Mirrors
<1>2. t \in Slots /\ LegacyEquippedIndex[t] \in Classes
  BY <1>1, MirrorIndex DEF Slots, Classes
<1>3. g[LegacyEquippedIndex[t]] = sl[t]
  BY <1>1 DEF Mirrors
<1>4. s \in DOMAIN LegacyEquippedIndex /\ LegacyEquippedIndex[t] = LegacyEquippedIndex[s]
        <=> t = s
  BY <1>1, MirrorIndex
<1>5. \A c \in Classes : Mirror(g, s, None)[c] =
        IF s \in DOMAIN LegacyEquippedIndex /\ c = LegacyEquippedIndex[s] THEN None ELSE g[c]
  BY MirrorAt
<1>6. QED
  BY <1>2, <1>3, <1>4, <1>5 DEF Loadout

LEMMA EmptyViews ==
  /\ NoSlots \in Loadout /\ Once(NoSlots) /\ Fits(NoSlots)
  /\ NoGear \in Legacy /\ \A mask : GearFits(NoGear, mask)
  /\ Mirrors(NoSlots, NoGear)
<1>1. NoSlots \in Loadout /\ Once(NoSlots) /\ Fits(NoSlots)
  BY DEF NoSlots, Loadout, Once, Fits
<1>2. NoGear \in Legacy /\ \A mask : GearFits(NoGear, mask)
  BY DEF NoGear, Legacy, GearFits
<1>3. Mirrors(NoSlots, NoGear)
  BY MirrorIndex DEF NoSlots, NoGear, Mirrors, Slots, Classes
<1>4. QED
  BY <1>1, <1>2, <1>3

-----------------------------------------------------------------------------
(* The invariant *)

\* What holds of one wallet. A record has an avatar; before the v2 instructions
\* create it, the legacy slots are empty unless a legacy instruction wrote them.
WalletInv(w) ==
  /\ record[w] # NoRecord =>
       avatar[w] # NoAvatar /\ Once(record[w].slots) /\ Fits(record[w].slots)
  /\ avatar[w] # NoAvatar => GearFits(avatar[w].equipped, avatar[w].mask)
  /\ avatar[w] # NoAvatar /\ w \notin diverged => Mirrors(TouchedSlots(w), avatar[w].equipped)

IInv == EquipmentTypeOK /\ \A w \in Wallets : WalletInv(w)

LEMMA AvatarType ==
  ASSUME EquipmentTypeOK, NEW w \in Wallets, avatar[w] # NoAvatar
  PROVE  avatar[w] \in PlayerAvatar /\ avatar[w].equipped \in Legacy
BY DEF EquipmentTypeOK, PlayerAvatar, Legacy

\* The slots an instruction works on, whether or not the record exists yet.
LEMMA TouchedGood ==
  ASSUME IInv, NEW w \in Wallets
  PROVE  TouchedSlots(w) \in Loadout /\ Once(TouchedSlots(w)) /\ Fits(TouchedSlots(w))
<1>1. CASE record[w] = NoRecord
  BY <1>1, EmptyViews DEF TouchedSlots
<1>2. CASE record[w] # NoRecord
  <2>1. record[w] \in EquipmentRecord
    BY <1>2 DEF IInv, EquipmentTypeOK
  <2>2. record[w].slots \in Loadout
    BY <2>1 DEF EquipmentRecord, Loadout
  <2>3. QED
    BY <1>2, <2>2 DEF IInv, WalletInv, TouchedSlots
<1>3. QED
  BY <1>1, <1>2

\* A wallet none of whose accounts is written keeps its part.
LEMMA OtherWallets ==
  ASSUME NEW w \in Wallets, WalletInv(w), avatar'[w] = avatar[w], record'[w] = record[w],
         w \in diverged => w \in diverged'
  PROVE  WalletInv(w)'
BY DEF WalletInv, TouchedSlots

\* A step that writes the two views of one wallet, and they are good.
LEMMA WriteBothIInv ==
  ASSUME IInv, NEW w \in Wallets,
         NEW a \in PlayerAvatar, NEW sl \in Loadout,
         a # NoAvatar, Once(sl), Fits(sl), GearFits(a.equipped, a.mask),
         w \in diverged' \/ Mirrors(sl, a.equipped),
         avatar' = [avatar EXCEPT ![w] = a],
         record' = [record EXCEPT ![w] = [slots |-> sl]],
         diverged' \in {diverged, diverged \ {w}},
         UNCHANGED <<holder, arenaItem>>
  PROVE  IInv'
<1>1. EquipmentTypeOK'
  BY DEF IInv, EquipmentTypeOK, EquipmentRecord, Loadout
<1>2. avatar'[w] = a /\ record'[w] = [slots |-> sl]
  BY DEF IInv, EquipmentTypeOK
<1>3. WalletInv(w)'
  <2>1. TouchedSlots(w)' = IF record'[w] = NoRecord THEN NoSlots ELSE sl
    BY <1>2 DEF TouchedSlots
  <2>2. record'[w] # NoRecord
    <3>1. sl # << >>
      <4>1. DOMAIN sl = Slots /\ 0 \in Slots
        BY DEF Loadout, Slots
      <4>2. DOMAIN << >> = {}
        OBVIOUS
      <4>3. QED
        BY <4>1, <4>2
    <3>2. QED
      BY <1>2, <3>1 DEF NoRecord
  <2>3. QED
    BY <1>2, <2>1, <2>2 DEF WalletInv
<1>4. ASSUME NEW v \in Wallets, v # w PROVE WalletInv(v)'
  <2>1. avatar'[v] = avatar[v] /\ record'[v] = record[v] /\ (v \in diverged => v \in diverged')
    BY <1>4 DEF IInv, EquipmentTypeOK
  <2>2. QED
    BY <1>4, <2>1, OtherWallets DEF IInv
<1>5. QED
  BY <1>1, <1>3, <1>4 DEF IInv

\* A legacy step writes the avatar of one wallet and leaves its record alone.
LEMMA WriteLegacyIInv ==
  ASSUME IInv, NEW w \in Wallets, NEW a \in PlayerAvatar,
         a # NoAvatar, GearFits(a.equipped, a.mask),
         diverged' \in SUBSET Wallets, diverged \subseteq diverged',
         w \in diverged' \/ Mirrors(TouchedSlots(w), a.equipped),
         avatar' = [avatar EXCEPT ![w] = a],
         UNCHANGED <<holder, arenaItem, record>>
  PROVE  IInv'
<1>1. EquipmentTypeOK'
  BY DEF IInv, EquipmentTypeOK
<1>2. avatar'[w] = a
  BY DEF IInv, EquipmentTypeOK
<1>3. WalletInv(w)'
  <2>1. TouchedSlots(w)' = TouchedSlots(w)
    BY DEF TouchedSlots
  <2>2. record'[w] # NoRecord => Once(record'[w].slots) /\ Fits(record'[w].slots)
    BY DEF IInv, WalletInv
  <2>3. QED
    BY <1>2, <2>1, <2>2 DEF WalletInv
<1>4. ASSUME NEW v \in Wallets, v # w PROVE WalletInv(v)'
  <2>1. avatar'[v] = avatar[v] /\ record'[v] = record[v] /\ (v \in diverged => v \in diverged')
    BY <1>4 DEF IInv, EquipmentTypeOK
  <2>2. QED
    BY <1>4, <2>1, OtherWallets DEF IInv
<1>5. QED
  BY <1>1, <1>3, <1>4 DEF IInv

\* A player avatar is never the missing account: it has more than a card.
LEMMA AvatarIsSome == ASSUME NEW a \in PlayerAvatar PROVE a # NoAvatar
BY DEF PlayerAvatar, NoAvatar

-----------------------------------------------------------------------------
(* One lemma for each instruction *)

LEMMA InitIInv == EquipmentInit => IInv
BY DEF EquipmentInit, IInv, EquipmentTypeOK, WalletInv, NoRecord, NoAvatar

LEMMA NewCard ==
  ASSUME NEW card \in Cards \cup Fighters
  PROVE  LET a == [card |-> card, mask |-> SlotMask[card], equipped |-> NoGear]
         IN a \in PlayerAvatar /\ a # NoAvatar /\ GearFits(a.equipped, a.mask)
<1>1. [card |-> card, mask |-> SlotMask[card], equipped |-> NoGear] \in PlayerAvatar
  BY EmptyViews DEF PlayerAvatar, Legacy
<1>2. QED
  BY <1>1, AvatarIsSome, EmptyViews

LEMMA CreateIInv ==
  ASSUME IInv, NEW w \in Wallets, NEW card \in Cards, CreatePlayerAvatar(w, card)
  PROVE  IInv'
<1> DEFINE a == [card |-> card, mask |-> SlotMask[card], equipped |-> NoGear]
<1>1. a \in PlayerAvatar /\ a # NoAvatar /\ GearFits(a.equipped, a.mask)
  BY NewCard
<1>2. record[w] = NoRecord
  BY DEF CreatePlayerAvatar, IInv, WalletInv
<1>3. Mirrors(TouchedSlots(w), a.equipped)
  BY <1>2, EmptyViews DEF TouchedSlots
<1>4. avatar' = [avatar EXCEPT ![w] = a] /\ diverged' = diverged
      /\ UNCHANGED <<holder, arenaItem, record>>
  BY DEF CreatePlayerAvatar, SetCard
<1>5. diverged \in SUBSET Wallets
  BY DEF IInv, EquipmentTypeOK
<1> HIDE DEF a
<1>6. QED
  BY <1>1, <1>3, <1>4, <1>5, WriteLegacyIInv

LEMMA CustomizeIInv ==
  ASSUME IInv, NEW w \in Wallets, NEW card \in Cards, CustomizeAvatar(w, card)
  PROVE  IInv'
<1> DEFINE a == [card |-> card, mask |-> SlotMask[card], equipped |-> NoGear]
<1>1. a \in PlayerAvatar /\ a # NoAvatar /\ GearFits(a.equipped, a.mask)
  BY NewCard
<1>2. avatar' = [avatar EXCEPT ![w] = a] /\ diverged' = diverged \cup {w}
      /\ UNCHANGED <<holder, arenaItem, record>>
  BY DEF CustomizeAvatar, SetCard
<1>3. diverged' \in SUBSET Wallets
  BY <1>2 DEF IInv, EquipmentTypeOK
<1> HIDE DEF a
<1>4. QED
  BY <1>1, <1>2, <1>3, WriteLegacyIInv

\* Activating a fighter empties both views, so it repairs the mirror.
LEMMA ActivateIInv ==
  ASSUME IInv, NEW w \in Wallets, NEW fighter \in Fighters, ActivateFighterV2(w, fighter)
  PROVE  IInv'
<1> DEFINE a == [card |-> fighter, mask |-> SlotMask[fighter], equipped |-> NoGear]
<1>1. a \in PlayerAvatar /\ a # NoAvatar /\ GearFits(a.equipped, a.mask)
  BY NewCard
<1>2. avatar' = [avatar EXCEPT ![w] = a] /\ record' = [record EXCEPT ![w] = [slots |-> NoSlots]]
      /\ diverged' = diverged \ {w} /\ UNCHANGED <<holder, arenaItem>>
  BY DEF ActivateFighterV2, SetCard
<1>3. Mirrors(NoSlots, a.equipped)
  BY EmptyViews
<1> HIDE DEF a
<1>4. QED
  BY <1>1, <1>2, <1>3, EmptyViews, WriteBothIInv

\* What a write of the legacy slots of w alone makes of its avatar.
LEMMA Regeared ==
  ASSUME IInv, NEW w \in Wallets, avatar[w] # NoAvatar, NEW g \in Legacy
  PROVE  LET a == [avatar[w] EXCEPT !.equipped = g] IN
         a \in PlayerAvatar /\ a # NoAvatar /\ a.mask = avatar[w].mask /\ a.equipped = g
<1>1. avatar[w] \in PlayerAvatar
  BY AvatarType DEF IInv
<1>2. [avatar[w] EXCEPT !.equipped = g] \in PlayerAvatar
  BY <1>1 DEF PlayerAvatar, Legacy
<1>3. QED
  BY <1>1, <1>2, AvatarIsSome DEF PlayerAvatar

LEMMA EquipIInv ==
  ASSUME IInv, NEW w \in Wallets, NEW item \in Items, EquipItem(w, item)
  PROVE  IInv'
<1> DEFINE g == [avatar[w].equipped EXCEPT ![BaseType[item]] = item]
           a == [avatar[w] EXCEPT !.equipped = g]
<1>1. avatar[w] # NoAvatar /\ BaseType[item] \in avatar[w].mask
  BY DEF EquipItem, HoldsItem
<1>2. avatar[w].equipped \in Legacy
  BY <1>1, AvatarType DEF IInv
<1>3. g \in Legacy
  BY <1>2 DEF Legacy
<1>4. GearFits(avatar[w].equipped, avatar[w].mask)
  BY <1>1 DEF IInv, WalletInv
<1>5. GearFits(g, avatar[w].mask)
  BY <1>1, <1>2, <1>4 DEF GearFits, Legacy
<1>6. avatar' = [avatar EXCEPT ![w] = a] /\ diverged' = diverged \cup {w}
      /\ UNCHANGED <<holder, arenaItem, record>>
  BY DEF EquipItem
<1>7. diverged' \in SUBSET Wallets
  BY <1>6 DEF IInv, EquipmentTypeOK
<1> HIDE DEF g
<1>8. a \in PlayerAvatar /\ a # NoAvatar /\ a.mask = avatar[w].mask /\ a.equipped = g
  BY <1>1, <1>3, Regeared
<1> HIDE DEF a
<1>9. QED
  BY <1>5, <1>6, <1>7, <1>8, WriteLegacyIInv

LEMMA UnequipIInv ==
  ASSUME IInv, NEW w \in Wallets, NEW class \in Classes, UnequipItem(w, class)
  PROVE  IInv'
<1> DEFINE g == [avatar[w].equipped EXCEPT ![class] = None]
           a == [avatar[w] EXCEPT !.equipped = g]
<1>1. avatar[w] # NoAvatar
  BY DEF UnequipItem
<1>2. avatar[w].equipped \in Legacy
  BY <1>1, AvatarType DEF IInv
<1>3. g \in Legacy
  BY <1>2 DEF Legacy
<1>4. GearFits(avatar[w].equipped, avatar[w].mask)
  BY <1>1 DEF IInv, WalletInv
<1>5. GearFits(g, avatar[w].mask)
  BY <1>2, <1>4 DEF GearFits, Legacy
<1>6. avatar' = [avatar EXCEPT ![w] = a] /\ diverged' = diverged \cup {w}
      /\ UNCHANGED <<holder, arenaItem, record>>
  BY DEF UnequipItem
<1>7. diverged' \in SUBSET Wallets
  BY <1>6 DEF IInv, EquipmentTypeOK
<1> HIDE DEF g
<1>8. a \in PlayerAvatar /\ a # NoAvatar /\ a.mask = avatar[w].mask /\ a.equipped = g
  BY <1>1, <1>3, Regeared
<1> HIDE DEF a
<1>9. QED
  BY <1>5, <1>6, <1>7, <1>8, WriteLegacyIInv

LEMMA EquipV2IInv ==
  ASSUME IInv, NEW w \in Wallets, NEW item \in Items, NEW s \in Slots,
         EquipItemV2(w, item, s)
  PROVE  IInv'
<1> DEFINE sl == PutSlots(TouchedSlots(w), item, s)
           g == PutGear(avatar[w].equipped, item, s)
           a == [avatar[w] EXCEPT !.equipped = g]
<1>1. avatar[w] # NoAvatar /\ BaseType[item] \in avatar[w].mask
      /\ AllowedInEquipSlot(BaseType[item], s)
  BY DEF EquipItemV2, HoldsItem
<1>2. TouchedSlots(w) \in Loadout /\ Once(TouchedSlots(w)) /\ Fits(TouchedSlots(w))
  BY TouchedGood
<1>3. avatar[w].equipped \in Legacy /\ GearFits(avatar[w].equipped, avatar[w].mask)
  BY <1>1, AvatarType DEF IInv, WalletInv
<1>4. sl \in Loadout /\ Once(sl) /\ Fits(sl)
  BY <1>1, <1>2, PutSlotsAt, PutSlotsGood
<1>5. g \in Legacy /\ GearFits(g, avatar[w].mask)
  BY <1>1, <1>3, PutGearGood
<1>6. w \in diverged \/ Mirrors(sl, g)
  BY <1>1, <1>2, <1>3, PutMirrors DEF IInv, WalletInv
<1>7. avatar' = [avatar EXCEPT ![w] = a] /\ record' = [record EXCEPT ![w] = [slots |-> sl]]
      /\ diverged' = diverged /\ UNCHANGED <<holder, arenaItem>>
  BY DEF EquipItemV2, MoveEquippedMint, PutSlots, PutGear
<1> HIDE DEF sl, g
<1>8. a \in PlayerAvatar /\ a # NoAvatar /\ a.mask = avatar[w].mask /\ a.equipped = g
  BY <1>1, <1>5, Regeared
<1> HIDE DEF a
<1>9. QED
  BY <1>4, <1>5, <1>6, <1>7, <1>8, WriteBothIInv

LEMMA UnequipV2IInv ==
  ASSUME IInv, NEW w \in Wallets, NEW s \in Slots, UnequipItemV2(w, s)
  PROVE  IInv'
<1> DEFINE sl == [TouchedSlots(w) EXCEPT ![s] = None]
           g == Mirror(avatar[w].equipped, s, None)
           a == [avatar[w] EXCEPT !.equipped = g]
<1>1. avatar[w] # NoAvatar
  BY DEF UnequipItemV2
<1>2. TouchedSlots(w) \in Loadout /\ Once(TouchedSlots(w)) /\ Fits(TouchedSlots(w))
  BY TouchedGood
<1>3. avatar[w].equipped \in Legacy /\ GearFits(avatar[w].equipped, avatar[w].mask)
  BY <1>1, AvatarType DEF IInv, WalletInv
<1>4. sl \in Loadout /\ Once(sl) /\ Fits(sl)
  BY <1>2, EmptySlotGood
<1>5. g \in Legacy /\ GearFits(g, avatar[w].mask)
  BY <1>3, EmptyGearGood
<1>6. w \in diverged \/ Mirrors(sl, g)
  BY <1>1, <1>2, <1>3, EmptyMirrors DEF IInv, WalletInv
<1>7. avatar' = [avatar EXCEPT ![w] = a] /\ record' = [record EXCEPT ![w] = [slots |-> sl]]
      /\ diverged' = diverged /\ UNCHANGED <<holder, arenaItem>>
  BY DEF UnequipItemV2
<1> HIDE DEF sl, g
<1>8. a \in PlayerAvatar /\ a # NoAvatar /\ a.mask = avatar[w].mask /\ a.equipped = g
  BY <1>1, <1>5, Regeared
<1> HIDE DEF a
<1>9. QED
  BY <1>4, <1>5, <1>6, <1>7, <1>8, WriteBothIInv

\* Selling, burning and scrapping an NFT write no view, so the item stays where
\* it is worn.
LEMMA TokenIInv ==
  ASSUME IInv, TokenNext
  PROVE  IInv'
<1>1. UNCHANGED <<avatar, record, diverged>>
  BY DEF TokenNext, ScrapArenaItem, Transfer
<1>2. holder' \in [Nfts -> Wallets \cup Escrows \cup {None}] /\ arenaItem' \subseteq Items
  BY DEF TokenNext, ScrapArenaItem, Transfer, IInv, EquipmentTypeOK
<1>3. EquipmentTypeOK'
  BY <1>1, <1>2 DEF IInv, EquipmentTypeOK
<1>4. \A w \in Wallets : WalletInv(w)'
  BY <1>1, OtherWallets DEF IInv
<1>5. QED
  BY <1>3, <1>4 DEF IInv

LEMMA NextIInv == IInv /\ [EquipmentNext]_equipmentVars => IInv'
<1>1. SUFFICES ASSUME IInv, [EquipmentNext]_equipmentVars PROVE IInv'
  OBVIOUS
<1>2. CASE V2Next
  BY <1>1, <1>2, ActivateIInv, EquipV2IInv, UnequipV2IInv DEF V2Next
<1>3. CASE LegacyNext
  BY <1>1, <1>3, CreateIInv, CustomizeIInv, EquipIInv, UnequipIInv DEF LegacyNext
<1>4. CASE TokenNext
  BY <1>1, <1>4, TokenIInv
<1>5. CASE UNCHANGED equipmentVars
  <2>1. UNCHANGED <<holder, arenaItem, avatar, record, diverged>>
    BY <1>5 DEF equipmentVars
  <2>2. EquipmentTypeOK'
    BY <1>1, <2>1 DEF IInv, EquipmentTypeOK
  <2>3. \A w \in Wallets : WalletInv(w)'
    BY <1>1, <2>1, OtherWallets DEF IInv
  <2>4. QED
    BY <2>2, <2>3 DEF IInv
<1>6. QED
  BY <1>1, <1>2, <1>3, <1>4, <1>5 DEF EquipmentNext

-----------------------------------------------------------------------------
LEMMA Invariance == EquipmentSpec => []IInv
BY InitIInv, NextIInv, PTL DEF EquipmentSpec

\* Every reachable state is well typed.
THEOREM EquipmentTypeCorrect == EquipmentSpec => []EquipmentTypeOK
<1>1. IInv => EquipmentTypeOK
  BY DEF IInv
<1>2. QED
  BY <1>1, Invariance, PTL

\* An NFT fills at most one slot of a record.
THEOREM OneSlot == EquipmentSpec => []MintInOneSlot
<1>1. IInv => MintInOneSlot
  BY DEF IInv, WalletInv, Once, MintInOneSlot
<1>2. QED
  BY <1>1, Invariance, PTL

\* Items are only ever worn in slots of their class, in both views.
THEOREM ClassesFit == EquipmentSpec => []SlotsFitClass
<1>1. IInv => SlotsFitClass
  BY DEF IInv, WalletInv, Fits, GearFits, SlotsFitClass
<1>2. QED
  BY <1>1, Invariance, PTL

\* The legacy slots never show a class the active card does not support.
THEOREM LegacySupported == EquipmentSpec => []LegacySlotsSupported
<1>1. IInv => LegacySlotsSupported
  BY DEF IInv, WalletInv, GearFits, LegacySlotsSupported
<1>2. QED
  BY <1>1, Invariance, PTL

\* Both together: in every interleaving of both generations of instructions,
\* sales and card swaps, what is worn suits its slot.
THEOREM GearSuits == EquipmentSpec => []GearSuitsSlots
<1>1. SlotsFitClass /\ LegacySlotsSupported => GearSuitsSlots
  BY DEF GearSuitsSlots
<1>2. QED
  BY <1>1, ClassesFit, LegacySupported, PTL

\* As long as only v2 instructions wrote since the last activation, the legacy
\* slots mirror the record.
THEOREM MirrorKept == EquipmentSpec => []MirrorCoherent
<1>1. IInv => MirrorCoherent
  BY DEF IInv, WalletInv, Mirrors, TouchedSlots, MirrorCoherent
<1>2. QED
  BY <1>1, Invariance, PTL

-----------------------------------------------------------------------------
(* Enhancement *)

\* A scroll that exists, or proves a purchase, was bought.
SoldScrolls ==
  /\ markers \subseteq sold
  /\ \A s \in Scrolls : holder[s] # None => s \in sold

\* The scrolls that were spent on an item and rolled for it.
RolledScrolls(i) == {r.scroll : r \in {q \in settled : q.item = i /\ q.entropy # Expired}}

EarnedInv == LevelsEarned /\ \A i \in Items : IsFiniteSet(RolledScrolls(i))

\* The accounts of the other components.
AroundInv == IInv /\ RegistryInv /\ FeesTypeOK /\ ClockTypeOK

EnhanceInv ==
  /\ AroundInv
  /\ EnhanceTypeOK
  /\ EscrowMatchesCommits
  /\ SoldScrolls
  /\ ScrollSpentOnce
  /\ WageredNotEquipped
  /\ EarnedInv

-----------------------------------------------------------------------------
(* Keys, tokens and accounts *)

LEMMA Constants ==
  /\ Scrolls \subseteq Nfts /\ Items \subseteq Nfts
  /\ \A i \in Items, s \in Scrolls : i # s
  /\ Escrows = Keys
  /\ \A k \in Keys : k \notin Wallets /\ k # None /\ k[1] \in Wallets
  /\ MaxLevel \in Nat \ {0} /\ Delay \in Nat \ {0} /\ Window \in Nat \ {0}
<1>1. \A k \in Keys : k[1] \in Wallets
  BY DEF Keys
<1>2. QED
  BY <1>1, EnhancementAssumption

LEMMA HolderType == AroundInv => holder \in [Nfts -> Wallets \cup Keys \cup {None}]
BY Constants DEF AroundInv, IInv, EquipmentTypeOK

\* An open commit is typed: only NoCommit has the idle target.
LEMMA OpenAttempt ==
  ASSUME EnhanceTypeOK, NEW k \in Keys
  PROVE  /\ ecommits[k] # NoCommit =>
              /\ ecommits[k] \in EnhanceCommitAccount
              /\ ecommits[k].item \in Items /\ ecommits[k].scroll \in Scrolls
              /\ ecommits[k].target \in Nat
         /\ ecommits[k] # NoCommit <=> ecommits[k].target # Idle
BY DEF EnhanceTypeOK, EnhanceCommitAccount, NoCommit

\* A tracker is a record with attempts, or the account that does not exist.
LEMMA TrackerType ==
  ASSUME EnhanceTypeOK, NEW i \in Items
  PROVE  /\ enhancement[i] # NoTracker => enhancement[i] \in ItemEnhancement
         /\ Tracker(i) \in ItemEnhancement
         /\ Tracker(i).level = enhancement[i].level
         /\ Tracker(i).pending = enhancement[i].pending
<1>1. enhancement[i] \in ItemEnhancement \cup {NoTracker}
  BY DEF EnhanceTypeOK
<1>2. CASE enhancement[i] = NoTracker
  <2>1. Tracker(i) = [level |-> 0, attempts |-> 0, pending |-> FALSE]
    BY <1>2 DEF Tracker
  <2>2. Tracker(i) \in ItemEnhancement
    BY <2>1, Constants DEF ItemEnhancement
  <2>3. QED
    BY <1>2, <2>1, <2>2 DEF NoTracker
<1>3. CASE enhancement[i] # NoTracker
  BY <1>1, <1>3 DEF Tracker
<1>4. QED
  BY <1>2, <1>3

\* Two tokens change hands in one step.
LEMMA TwoMoves ==
  ASSUME AroundInv, NEW i \in Items, NEW s \in Scrolls,
         NEW a \in Wallets \cup Keys \cup {None}, NEW b \in Wallets \cup Keys \cup {None},
         holder' = [holder EXCEPT ![i] = a, ![s] = b]
  PROVE  /\ holder' \in [Nfts -> Wallets \cup Keys \cup {None}]
         /\ holder'[i] = a /\ holder'[s] = b
         /\ \A n \in Nfts : n # i /\ n # s => holder'[n] = holder[n]
<1>1. i \in Nfts /\ s \in Nfts /\ i # s
  BY Constants
<1>2. holder \in [Nfts -> Wallets \cup Keys \cup {None}]
  BY HolderType
<1>3. QED
  BY <1>1, <1>2

\* Moving tokens and closing ArenaItem accounts write no view of the gear.
LEMMA GearKept ==
  ASSUME IInv, UNCHANGED <<avatar, record, diverged>>,
         holder' \in [Nfts -> Wallets \cup Keys \cup {None}], arenaItem' \subseteq Items
  PROVE  IInv'
<1>1. EquipmentTypeOK'
  BY Constants DEF IInv, EquipmentTypeOK
<1>2. \A w \in Wallets : WalletInv(w)'
  BY OtherWallets DEF IInv
<1>3. QED
  BY <1>1, <1>2 DEF IInv

LEMMA AroundKept ==
  ASSUME AroundInv, UNCHANGED <<avatar, record, diverged, registryVars, balance, clockVars>>,
         holder' \in [Nfts -> Wallets \cup Keys \cup {None}], arenaItem' \subseteq Items
  PROVE  AroundInv'
<1>1. IInv'
  BY GearKept DEF AroundInv
<1>2. RegistryInv'
  BY RegistryInvNext DEF AroundInv
<1>3. FeesTypeOK' /\ ClockTypeOK'
  BY DEF AroundInv, FeesTypeOK, ClockTypeOK, clockVars
<1>4. QED
  BY <1>1, <1>2, <1>3 DEF AroundInv

-----------------------------------------------------------------------------
(* Fees *)

LEMMA FeeSliceType ==
  ASSUME NEW amount \in Nat, NEW bps \in Nat
  PROVE  FeeSlice(amount, bps) \in Nat
<1>1. amount * bps \in Nat
  OBVIOUS
<1>2. QED
  BY <1>1 DEF FeeSlice, BpsDenominator

\* A scroll has no creator on its path: the fee goes to the platform and the sink.
LEMMA ScrollFeeType ==
  ASSUME RegistryTypeOK, FeesTypeOK, NEW fee \in Nat, ChargeFee(fee, None)
  PROVE  FeesTypeOK'
<1> DEFINE c == registry.config
<1>1. c \in Config
  BY DEF RegistryTypeOK, ArenaRegistry
<1>2. SinkAmount(fee, c) \in Nat
  BY <1>1, FeeSliceType DEF SinkAmount, Config
<1>3. PlatformAmount(fee, c, None) \in Nat
  <2>1. CreatorAmount(fee, c, None) = 0
    BY DEF CreatorAmount
  <2>2. PlatformAmount(fee, c, None) \in Int
    BY <1>2, <2>1 DEF PlatformAmount
  <2>3. PlatformAmount(fee, c, None) >= 0
    BY DEF ChargeFee
  <2>4. QED
    BY <2>2, <2>3
<1>4. balance' = Distribute(fee, c, None) /\ CreatorAmount(fee, c, None) = 0
  BY DEF ChargeFee, CreatorAmount
<1> HIDE DEF c
<1>5. ASSUME NEW a \in Accounts \cup Releases
      PROVE  balance[a] + (IF a = None THEN CreatorAmount(fee, c, None) ELSE 0)
                        + (IF a = c.treasury THEN PlatformAmount(fee, c, None) ELSE 0)
                        + (IF a = c.sink THEN SinkAmount(fee, c) ELSE 0) \in Nat
  BY <1>2, <1>3, <1>4 DEF FeesTypeOK
<1>6. QED
  BY <1>4, <1>5 DEF FeesTypeOK, Distribute

-----------------------------------------------------------------------------
(* Buying a scroll *)

LEMMA BuyInv ==
  ASSUME EnhanceInv, NEW w \in Wallets, NEW scroll \in Scrolls, MintEnhanceScroll(w, scroll)
  PROVE  EnhanceInv'
<1>1. /\ holder' = [holder EXCEPT ![scroll] = w]
      /\ markers' = markers \cup {scroll} /\ sold' = sold \cup {scroll} /\ scroll \notin sold
      /\ UNCHANGED <<arenaItem, avatar, record, diverged, registry, upgradeAuthority, signer,
                     issued, slot, blocks, ecommits, enhancement, itemLevel, settled>>
  BY DEF MintEnhanceScroll, registryVars, clockVars
<1>2. holder \in [Nfts -> Wallets \cup Keys \cup {None}] /\ scroll \in Nfts
  BY HolderType, Constants DEF EnhanceInv
<1>3. /\ holder' \in [Nfts -> Wallets \cup Keys \cup {None}]
      /\ holder'[scroll] = w /\ \A n \in Nfts : n # scroll => holder'[n] = holder[n]
  BY <1>1, <1>2
<1>4. holder[scroll] = None
  BY <1>1 DEF EnhanceInv, SoldScrolls
<1>5. AroundInv'
  <2>1. IInv'
    BY <1>1, <1>3, GearKept DEF EnhanceInv, AroundInv, IInv, EquipmentTypeOK
  <2>2. RegistryInv'
    BY <1>1, RegistryInvNext DEF EnhanceInv, AroundInv, registryVars
  <2>3. registry.config.fee \in Nat
    BY DEF EnhanceInv, AroundInv, RegistryInv, RegistryTypeOK, ArenaRegistry, Config
  <2>4. FeeMultiplier * registry.config.fee \in Nat
    BY <2>3, EnhancementAssumption
  <2>5. FeesTypeOK'
    BY <2>4, ScrollFeeType DEF EnhanceInv, AroundInv, RegistryInv, MintEnhanceScroll
  <2>6. ClockTypeOK'
    BY <1>1 DEF EnhanceInv, AroundInv, ClockTypeOK
  <2>7. QED
    BY <2>1, <2>2, <2>5, <2>6 DEF AroundInv
<1>6. EnhanceTypeOK'
  BY <1>1 DEF EnhanceInv, EnhanceTypeOK
<1>7. EscrowMatchesCommits'
  <2>1. ASSUME NEW k \in Keys, ecommits[k] # NoCommit
        PROVE  ecommits[k].item # scroll /\ ecommits[k].scroll # scroll
    <3>1. holder[ecommits[k].item] = k /\ holder[ecommits[k].scroll] = k
      BY <2>1 DEF EnhanceInv, EscrowMatchesCommits
    <3>2. QED
      BY <1>4, <3>1, Constants
  <2>2. \A k \in Keys : ecommits[k] # NoCommit =>
          ecommits[k].item \in Nfts /\ ecommits[k].scroll \in Nfts
    BY OpenAttempt, Constants DEF EnhanceInv
  <2>3. \A i \in Items : i # scroll /\ i \in Nfts
    BY Constants
  <2>4. w \notin Escrows
    BY Constants
  <2>5. QED
    BY <1>1, <1>3, <2>1, <2>2, <2>3, <2>4 DEF EnhanceInv, EscrowMatchesCommits
<1>8. SoldScrolls'
  BY <1>1, <1>3, Constants DEF EnhanceInv, SoldScrolls
<1>9. ScrollSpentOnce'
  <2>1. \A r \in settled : r.scroll \in sold /\ r.scroll # scroll
    BY <1>1 DEF EnhanceInv, ScrollSpentOnce
  <2>2. sold \subseteq Nfts
    BY Constants DEF EnhanceInv, EnhanceTypeOK
  <2>3. QED
    BY <1>1, <1>3, <2>1, <2>2 DEF EnhanceInv, ScrollSpentOnce
<1>10. WageredNotEquipped'
  BY <1>1 DEF EnhanceInv, WageredNotEquipped, RequireItemNotEquipped
<1>11. EarnedInv'
  BY <1>1 DEF EnhanceInv, EarnedInv, LevelsEarned, RolledScrolls
<1>12. QED
  BY <1>5, <1>6, <1>7, <1>8, <1>9, <1>10, <1>11 DEF EnhanceInv

-----------------------------------------------------------------------------
(* Starting an attempt *)

\* The owner's tokens are in no escrow, so no open attempt has either.
LEMMA FreshWager ==
  ASSUME EnhanceInv, NEW k \in Keys, NEW item \in Items, NEW scroll \in Scrolls,
         HoldsWager(k[1], item, scroll)
  PROVE  \A j \in Keys : ecommits[j] # NoCommit =>
           /\ ecommits[j].item # item /\ ecommits[j].item # scroll
           /\ ecommits[j].scroll # scroll /\ ecommits[j].scroll # item
<1>1. SUFFICES ASSUME NEW j \in Keys, ecommits[j] # NoCommit
               PROVE  /\ ecommits[j].item # item /\ ecommits[j].item # scroll
                      /\ ecommits[j].scroll # scroll /\ ecommits[j].scroll # item
  OBVIOUS
<1>2. holder[ecommits[j].item] = j /\ holder[ecommits[j].scroll] = j
  BY <1>1 DEF EnhanceInv, EscrowMatchesCommits
<1>3. holder[item] = k[1] /\ holder[scroll] = k[1]
  BY DEF HoldsWager
<1>4. QED
  BY <1>2, <1>3, Constants

LEMMA StartInv ==
  ASSUME EnhanceInv, NEW k \in Keys, NEW item \in Items, NEW scroll \in Scrolls,
         CommitEnhance(k, item, scroll)
  PROVE  EnhanceInv'
<1> DEFINE new == [target |-> slot + Delay, item |-> item, scroll |-> scroll]
           t == [Tracker(item) EXCEPT !.pending = TRUE]
<1>1. /\ enhancement' = [enhancement EXCEPT ![item] = t]
      /\ holder' = [holder EXCEPT ![item] = k, ![scroll] = k]
      /\ ecommits' = [ecommits EXCEPT ![k] = new]
      /\ ecommits[k] = NoCommit /\ HoldsWager(k[1], item, scroll)
      /\ RequireItemNotEquipped(k[1], item) /\ Tracker(item).level < MaxLevel
      /\ UNCHANGED <<arenaItem, avatar, record, diverged, registryVars, balance, clockVars,
                     itemLevel, markers, settled, sold>>
  BY DEF CommitEnhance
<1>2. /\ holder' \in [Nfts -> Wallets \cup Keys \cup {None}]
      /\ holder'[item] = k /\ holder'[scroll] = k
      /\ \A n \in Nfts : n # item /\ n # scroll => holder'[n] = holder[n]
  BY <1>1, TwoMoves DEF EnhanceInv
<1>3. t \in ItemEnhancement /\ t.pending = TRUE /\ t.level = enhancement[item].level
      /\ t.level < MaxLevel
  BY <1>1, TrackerType DEF EnhanceInv, ItemEnhancement
<1>4. t # NoTracker
  BY <1>3 DEF ItemEnhancement, NoTracker
<1>5. new \in EnhanceCommitAccount
  <2>1. slot + Delay \in Nat \ {Idle}
    BY Constants, SlotHashesAssumption DEF EnhanceInv, AroundInv, ClockTypeOK, Idle
  <2>2. QED
    BY <2>1 DEF EnhanceCommitAccount
<1>6. new.item = item /\ new.scroll = scroll
  OBVIOUS
<1> HIDE DEF new, t
<1>7. AroundInv'
  BY <1>1, <1>2, AroundKept DEF EnhanceInv, AroundInv, IInv, EquipmentTypeOK
<1>8. EnhanceTypeOK'
  BY <1>1, <1>3, <1>5 DEF EnhanceInv, EnhanceTypeOK
<1>9. /\ ecommits'[k] = new /\ \A j \in Keys : j # k => ecommits'[j] = ecommits[j]
      /\ enhancement'[item] = t
      /\ \A i \in Items : i # item => enhancement'[i] = enhancement[i]
  BY <1>1 DEF EnhanceInv, EnhanceTypeOK
<1>10. EscrowMatchesCommits'
  <2>1. ASSUME NEW j \in Keys, ecommits'[j] # NoCommit
        PROVE  LET c == ecommits'[j] IN
                 /\ holder'[c.item] = j /\ holder'[c.scroll] = j
                 /\ c.item \in arenaItem' /\ c.scroll \in markers'
                 /\ enhancement'[c.item] # NoTracker /\ enhancement'[c.item].pending
                 /\ enhancement'[c.item].level < MaxLevel
    <3>1. CASE j = k
      BY <1>1, <1>2, <1>3, <1>4, <1>6, <1>9, <3>1 DEF HoldsWager
    <3>2. CASE j # k
      <4>1. ecommits'[j] = ecommits[j] /\ ecommits[j] # NoCommit
        BY <1>9, <2>1, <3>2
      <4>2. /\ ecommits[j].item \in Items /\ ecommits[j].scroll \in Nfts
            /\ ecommits[j].item \in Nfts
        BY <4>1, OpenAttempt, Constants DEF EnhanceInv
      <4>3. /\ ecommits[j].item # item /\ ecommits[j].item # scroll
            /\ ecommits[j].scroll # scroll /\ ecommits[j].scroll # item
        BY <1>1, <4>1, FreshWager
      <4>4. QED
        BY <1>1, <1>2, <1>9, <4>1, <4>2, <4>3 DEF EnhanceInv, EscrowMatchesCommits
    <3>3. QED
      BY <3>1, <3>2
  <2>2. ASSUME NEW n \in Nfts, holder'[n] \in Escrows
        PROVE  /\ ecommits'[holder'[n]] # NoCommit
               /\ n \in {ecommits'[holder'[n]].item, ecommits'[holder'[n]].scroll}
    <3>1. CASE n = item \/ n = scroll
      <4>1. new # NoCommit
        BY <1>5 DEF EnhanceCommitAccount, NoCommit, Idle
      <4>2. QED
        BY <1>2, <1>6, <1>9, <3>1, <4>1
    <3>2. CASE n # item /\ n # scroll
      <4>1. holder'[n] = holder[n] /\ holder[n] \in Keys
        BY <1>2, <2>2, <3>2, Constants
      <4>2. ecommits[holder[n]] # NoCommit
            /\ n \in {ecommits[holder[n]].item, ecommits[holder[n]].scroll}
        BY <2>2, <4>1 DEF EnhanceInv, EscrowMatchesCommits
      <4>3. QED
        BY <1>1, <1>9, <4>1, <4>2
    <3>3. QED
      BY <3>1, <3>2
  <2>3. ASSUME NEW i \in Items, enhancement'[i].pending PROVE holder'[i] \in Escrows
    <3>1. i \in Nfts /\ i # scroll
      BY Constants
    <3>2. QED
      BY <1>2, <1>9, <2>3, <3>1, Constants DEF EnhanceInv, EscrowMatchesCommits
  <2>4. QED
    BY <2>1, <2>2, <2>3 DEF EscrowMatchesCommits
<1>11. SoldScrolls'
  <2>1. scroll \in sold /\ markers' \subseteq sold'
    BY <1>1 DEF HoldsWager, EnhanceInv, SoldScrolls
  <2>2. ASSUME NEW s \in Scrolls, holder'[s] # None PROVE s \in sold
    BY <1>2, <2>1, <2>2, Constants DEF EnhanceInv, SoldScrolls
  <2>3. QED
    BY <1>1, <2>1, <2>2 DEF SoldScrolls
<1>12. ScrollSpentOnce'
  <2>1. ASSUME NEW r \in settled PROVE r.scroll # scroll /\ r.scroll # item /\ r.scroll \in Nfts
    <3>1. r.scroll \in sold /\ r.scroll \notin markers
      BY DEF EnhanceInv, ScrollSpentOnce
    <3>2. r.scroll \in Scrolls
      BY <3>1 DEF EnhanceInv, EnhanceTypeOK
    <3>3. QED
      BY <1>1, <3>1, <3>2, Constants DEF HoldsWager
  <2>2. QED
    BY <1>1, <1>2, <2>1 DEF EnhanceInv, ScrollSpentOnce
<1>13. WageredNotEquipped'
  <2>1. ASSUME NEW j \in Keys, ecommits'[j] # NoCommit
        PROVE  RequireItemNotEquipped(j[1], ecommits'[j].item)
    BY <1>1, <1>6, <1>9, <2>1 DEF EnhanceInv, WageredNotEquipped
  <2>2. QED
    BY <1>1, <2>1 DEF WageredNotEquipped, RequireItemNotEquipped
<1>14. EarnedInv'
  <2>1. \A i \in Items : enhancement'[i].level = enhancement[i].level
    BY <1>3, <1>9
  <2>2. arenaItem \subseteq Items
    BY DEF EnhanceInv, AroundInv, IInv, EquipmentTypeOK
  <2>3. QED
    BY <1>1, <2>1, <2>2 DEF EnhanceInv, EarnedInv, LevelsEarned, RolledScrolls
<1>15. QED
  BY <1>7, <1>8, <1>10, <1>11, <1>12, <1>13, <1>14 DEF EnhanceInv

-----------------------------------------------------------------------------
(* Ending an attempt *)

\* What both ends of an attempt do: the commit closes, its scroll is burned, the
\* item goes back to its owner or is burned, and its tracker is not locked.
Ends(k, entropy, a, t) ==
  LET c == ecommits[k] IN
  /\ c # NoCommit
  /\ Settle(k, entropy)
  /\ holder' = [holder EXCEPT ![c.item] = a, ![c.scroll] = None]
  /\ enhancement' = [enhancement EXCEPT ![c.item] = t]
  /\ a \in {k[1], None} /\ t.pending = FALSE
  /\ t \in ItemEnhancement \cup {NoTracker}
  /\ arenaItem' \in {arenaItem, arenaItem \ {c.item}}
  /\ itemLevel' \in [Items -> 0..MaxLevel]
  /\ UNCHANGED <<avatar, record, diverged, registryVars, balance, clockVars, sold>>

LEMMA OtherAttempts ==
  ASSUME EnhanceInv, NEW k \in Keys, ecommits[k] # NoCommit
  PROVE  \A j \in Keys : j # k /\ ecommits[j] # NoCommit =>
           /\ ecommits[j].item # ecommits[k].item /\ ecommits[j].item # ecommits[k].scroll
           /\ ecommits[j].scroll # ecommits[k].scroll /\ ecommits[j].scroll # ecommits[k].item
BY DEF EnhanceInv, EscrowMatchesCommits

LEMMA EndsMoves ==
  ASSUME EnhanceInv, NEW k \in Keys, NEW e, NEW a, NEW t, Ends(k, e, a, t)
  PROVE  /\ holder' \in [Nfts -> Wallets \cup Keys \cup {None}]
         /\ holder'[ecommits[k].item] = a /\ holder'[ecommits[k].scroll] = None
         /\ \A n \in Nfts :
              n # ecommits[k].item /\ n # ecommits[k].scroll => holder'[n] = holder[n]
<1> DEFINE i == ecommits[k].item
           s == ecommits[k].scroll
<1>1. i \in Items /\ s \in Scrolls
  BY OpenAttempt DEF EnhanceInv, Ends
<1>2. i \in Nfts /\ s \in Nfts /\ i # s
  BY <1>1, Constants
<1>3. a \in Wallets \cup Keys \cup {None} /\ None \in Wallets \cup Keys \cup {None}
  BY Constants DEF Ends
<1>4. holder' = [holder EXCEPT ![i] = a, ![s] = None]
  BY DEF Ends
<1>5. holder \in [Nfts -> Wallets \cup Keys \cup {None}]
  BY HolderType DEF EnhanceInv
<1> HIDE DEF i, s
<1>6. /\ holder' \in [Nfts -> Wallets \cup Keys \cup {None}]
      /\ holder'[i] = a /\ holder'[s] = None
      /\ \A n \in Nfts : n # i /\ n # s => holder'[n] = holder[n]
  BY <1>2, <1>3, <1>4, <1>5
<1>7. QED
  BY <1>6 DEF i, s

LEMMA EndsKeepsCore ==
  ASSUME EnhanceInv, NEW k \in Keys, NEW e, NEW a, NEW t, Ends(k, e, a, t)
  PROVE  AroundInv' /\ EnhanceTypeOK' /\ EscrowMatchesCommits'
<1> DEFINE c == ecommits[k]
<1>1. c.item \in Items /\ c.scroll \in Scrolls /\ c # NoCommit
  BY OpenAttempt DEF EnhanceInv, Ends
<1>2. a \in Wallets \cup {None}
  BY Constants DEF Ends
<1>3. /\ holder' \in [Nfts -> Wallets \cup Keys \cup {None}]
      /\ holder'[c.item] = a /\ holder'[c.scroll] = None
      /\ \A n \in Nfts : n # c.item /\ n # c.scroll => holder'[n] = holder[n]
  BY <1>1, EndsMoves
<1>4. AroundInv'
  <2>1. arenaItem' \subseteq Items
    BY DEF EnhanceInv, AroundInv, IInv, EquipmentTypeOK, Ends
  <2>2. QED
    BY <1>3, <2>1, AroundKept DEF EnhanceInv, Ends
<1>5. EnhanceTypeOK'
  BY DEF EnhanceInv, EnhanceTypeOK, Ends, Settle
<1>6. /\ ecommits'[k] = NoCommit /\ \A j \in Keys : j # k => ecommits'[j] = ecommits[j]
      /\ enhancement'[c.item] = t
      /\ \A i \in Items : i # c.item => enhancement'[i] = enhancement[i]
      /\ markers' = markers \ {c.scroll}
  BY <1>1 DEF EnhanceInv, EnhanceTypeOK, Ends, Settle
<1>7. ASSUME NEW j \in Keys, ecommits'[j] # NoCommit
      PROVE  LET d == ecommits'[j] IN
               /\ holder'[d.item] = j /\ holder'[d.scroll] = j
               /\ d.item \in arenaItem' /\ d.scroll \in markers'
               /\ enhancement'[d.item] # NoTracker /\ enhancement'[d.item].pending
               /\ enhancement'[d.item].level < MaxLevel
  <2>1. j # k /\ ecommits'[j] = ecommits[j] /\ ecommits[j] # NoCommit
    BY <1>6, <1>7
  <2>2. ecommits[j].item \in Items /\ ecommits[j].item \in Nfts /\ ecommits[j].scroll \in Nfts
    BY <2>1, OpenAttempt, Constants DEF EnhanceInv
  <2>3. /\ ecommits[j].item # c.item /\ ecommits[j].item # c.scroll
        /\ ecommits[j].scroll # c.scroll /\ ecommits[j].scroll # c.item
    BY <1>1, <2>1, OtherAttempts
  <2>4. arenaItem' \in {arenaItem, arenaItem \ {c.item}}
    BY DEF Ends
  <2>5. QED
    BY <1>3, <1>6, <2>1, <2>2, <2>3, <2>4 DEF EnhanceInv, EscrowMatchesCommits
<1>8. ASSUME NEW n \in Nfts, holder'[n] \in Escrows
      PROVE  /\ ecommits'[holder'[n]] # NoCommit
             /\ n \in {ecommits'[holder'[n]].item, ecommits'[holder'[n]].scroll}
  <2>1. n # c.item /\ n # c.scroll
    BY <1>2, <1>3, <1>8, Constants
  <2>2. holder'[n] = holder[n] /\ holder[n] \in Keys
    BY <1>3, <1>8, <2>1, Constants
  <2>3. ecommits[holder[n]] # NoCommit
        /\ n \in {ecommits[holder[n]].item, ecommits[holder[n]].scroll}
    BY <1>8, <2>2 DEF EnhanceInv, EscrowMatchesCommits
  <2>4. holder[n] # k
    BY <2>1, <2>3
  <2>5. QED
    BY <1>6, <2>2, <2>3, <2>4
<1>9. ASSUME NEW i \in Items, enhancement'[i].pending PROVE holder'[i] \in Escrows
  <2>1. i # c.item
    BY <1>6, <1>9 DEF Ends
  <2>2. i \in Nfts /\ i # c.scroll
    BY <1>1, Constants
  <2>3. QED
    BY <1>3, <1>6, <1>9, <2>1, <2>2 DEF EnhanceInv, EscrowMatchesCommits
<1>10. QED
  BY <1>4, <1>5, <1>7, <1>8, <1>9 DEF EscrowMatchesCommits

\* The scroll of the attempt was not spent before, and is spent now.
LEMMA EndsSpendsScroll ==
  ASSUME EnhanceInv, NEW k \in Keys, NEW e, NEW a, NEW t, Ends(k, e, a, t)
  PROVE  SoldScrolls' /\ ScrollSpentOnce'
<1> DEFINE c == ecommits[k]
           q == [key |-> k, target |-> c.target, entropy |-> e,
                 item |-> c.item, scroll |-> c.scroll, level |-> enhancement[c.item].level]
<1>1. c.item \in Items /\ c.scroll \in Scrolls /\ c # NoCommit
  BY OpenAttempt DEF EnhanceInv, Ends
<1>2. a \in Wallets \cup {None}
  BY Constants DEF Ends
<1>3. /\ holder'[c.scroll] = None
      /\ \A n \in Nfts : n # c.item /\ n # c.scroll => holder'[n] = holder[n]
  BY <1>1, EndsMoves
<1>4. settled' = settled \cup {q} /\ markers' = markers \ {c.scroll} /\ sold' = sold
  BY DEF Ends, Settle
<1>5. c.scroll \in markers /\ c.scroll \in sold
  BY <1>1 DEF EnhanceInv, EscrowMatchesCommits, SoldScrolls
<1>6. \A r \in settled : r.scroll # c.scroll
  BY <1>5 DEF EnhanceInv, ScrollSpentOnce
<1>7. q.scroll = c.scroll
  OBVIOUS
<1> HIDE DEF c, q
<1>8. SoldScrolls'
  <2>1. \A s \in Scrolls : s \in Nfts /\ s # c.item
    BY <1>1, Constants
  <2>2. QED
    BY <1>3, <1>4, <1>5, <2>1 DEF EnhanceInv, SoldScrolls
<1>9. ScrollSpentOnce'
  <2>1. ASSUME NEW r \in settled'
        PROVE  r.scroll \in sold' /\ holder'[r.scroll] = None /\ r.scroll \notin markers'
    <3>1. CASE r = q
      BY <1>3, <1>4, <1>5, <1>7, <3>1
    <3>2. CASE r \in settled
      <4>1. r.scroll \in sold /\ holder[r.scroll] = None /\ r.scroll \notin markers
        BY <3>2 DEF EnhanceInv, ScrollSpentOnce
      <4>2. r.scroll \in Nfts /\ r.scroll # c.item /\ r.scroll # c.scroll
        <5>1. r.scroll \in Scrolls
          BY <4>1 DEF EnhanceInv, EnhanceTypeOK
        <5>2. QED
          BY <1>1, <1>6, <3>2, <5>1, Constants
      <4>3. QED
        BY <1>3, <1>4, <4>1, <4>2
    <3>3. QED
      BY <1>4, <2>1, <3>1, <3>2
  <2>2. ASSUME NEW r1 \in settled', NEW r2 \in settled', r1.scroll = r2.scroll
        PROVE  r1 = r2
    BY <1>4, <1>6, <1>7, <2>2 DEF EnhanceInv, ScrollSpentOnce
  <2>3. QED
    BY <2>1, <2>2 DEF ScrollSpentOnce
<1>10. QED
  BY <1>8, <1>9

LEMMA EndsKeepsGear ==
  ASSUME EnhanceInv, NEW k \in Keys, NEW e, NEW a, NEW t, Ends(k, e, a, t)
  PROVE  WageredNotEquipped'
<1>1. ASSUME NEW j \in Keys, ecommits'[j] # NoCommit
      PROVE  ecommits[j] # NoCommit /\ ecommits'[j] = ecommits[j]
  BY <1>1 DEF EnhanceInv, EnhanceTypeOK, Ends, Settle
<1>2. UNCHANGED <<avatar, record>>
  BY DEF Ends
<1>3. QED
  BY <1>1, <1>2 DEF EnhanceInv, WageredNotEquipped, RequireItemNotEquipped

\* An attempt adds its scroll to those rolled for its item, unless it expired.
LEMMA EndsRolls ==
  ASSUME EnhanceInv, NEW k \in Keys, NEW e, NEW a, NEW t, Ends(k, e, a, t)
  PROVE  LET c == ecommits[k] IN
         /\ \A i \in Items : i # c.item \/ e = Expired => RolledScrolls(i)' = RolledScrolls(i)
         /\ \A i \in Items : i = c.item /\ e # Expired =>
              /\ RolledScrolls(i)' = RolledScrolls(i) \cup {c.scroll}
              /\ c.scroll \notin RolledScrolls(i)
<1> DEFINE c == ecommits[k]
           q == [key |-> k, target |-> c.target, entropy |-> e,
                 item |-> c.item, scroll |-> c.scroll, level |-> enhancement[c.item].level]
<1>1. settled' = settled \cup {q}
  BY DEF Ends, Settle
<1>2. q.scroll = c.scroll /\ q.item = c.item /\ q.entropy = e
  OBVIOUS
<1>3. c.scroll \in markers
  BY DEF Ends, EnhanceInv, EscrowMatchesCommits
<1>4. \A r \in settled : r.scroll # c.scroll
  BY <1>3 DEF EnhanceInv, ScrollSpentOnce
<1> HIDE DEF c, q
<1>5. \A i \in Items : i # c.item \/ e = Expired => RolledScrolls(i)' = RolledScrolls(i)
  BY <1>1, <1>2 DEF RolledScrolls
<1>6. \A i \in Items : i = c.item /\ e # Expired =>
        RolledScrolls(i)' = RolledScrolls(i) \cup {c.scroll}
  BY <1>1, <1>2 DEF RolledScrolls
<1>7. \A i \in Items : c.scroll \notin RolledScrolls(i)
  BY <1>4 DEF RolledScrolls
<1>8. QED
  BY <1>5, <1>6, <1>7 DEF c

\* The level of a live item counts its rolled attempts, however the last ended.
LEMMA EndsKeepsLevels ==
  ASSUME EnhanceInv, NEW k \in Keys, NEW e, NEW a, NEW t, Ends(k, e, a, t),
         LET i == ecommits[k].item IN
         \/ /\ e = Expired /\ t.level = enhancement[i].level
            /\ UNCHANGED <<arenaItem, itemLevel>>
         \/ /\ e # Expired /\ t.level = enhancement[i].level + 1
            /\ itemLevel' = [itemLevel EXCEPT ![i] = enhancement[i].level + 1]
            /\ UNCHANGED arenaItem
         \/ /\ e # Expired /\ arenaItem' = arenaItem \ {i}
            /\ UNCHANGED itemLevel
  PROVE  EarnedInv'
<1> DEFINE i == ecommits[k].item
           s == ecommits[k].scroll
<1>1. i \in Items
  BY OpenAttempt DEF EnhanceInv, Ends
<1>2. /\ \A j \in Items : j # i \/ e = Expired => RolledScrolls(j)' = RolledScrolls(j)
      /\ \A j \in Items : j = i /\ e # Expired =>
           RolledScrolls(j)' = RolledScrolls(j) \cup {s} /\ s \notin RolledScrolls(j)
  BY EndsRolls
<1>3. enhancement'[i] = t /\ \A j \in Items : j # i => enhancement'[j] = enhancement[j]
  BY <1>1 DEF Ends, EnhanceInv, EnhanceTypeOK
<1>4. \A j \in Items : IsFiniteSet(RolledScrolls(j))
  BY DEF EnhanceInv, EarnedInv
<1>5. \A j \in arenaItem : /\ itemLevel[j] = enhancement[j].level
                            /\ itemLevel[j] = Cardinality(RolledScrolls(j))
  BY DEF EnhanceInv, EarnedInv, LevelsEarned, RolledScrolls
<1>6. itemLevel \in [Items -> 0..MaxLevel] /\ arenaItem \subseteq Items
  BY DEF EnhanceInv, EnhanceTypeOK, AroundInv, IInv, EquipmentTypeOK
<1> HIDE DEF i, s
<1>7. e # Expired => /\ IsFiniteSet(RolledScrolls(i) \cup {s})
                     /\ Cardinality(RolledScrolls(i) \cup {s}) =
                          Cardinality(RolledScrolls(i)) + 1
  BY <1>1, <1>2, <1>4, FS_AddElement
<1>8. \A j \in Items : IsFiniteSet(RolledScrolls(j)')
  <2>1. SUFFICES ASSUME NEW j \in Items PROVE IsFiniteSet(RolledScrolls(j)')
    OBVIOUS
  <2>2. CASE j # i \/ e = Expired
    BY <1>2, <1>4, <2>2
  <2>3. CASE j = i /\ e # Expired
    BY <1>2, <1>7, <2>3
  <2>4. QED
    BY <2>2, <2>3
<1>9. ASSUME NEW j \in arenaItem'
      PROVE  itemLevel'[j] = enhancement'[j].level
             /\ itemLevel'[j] = Cardinality(RolledScrolls(j)')
  <2>0. j \in arenaItem /\ j \in Items
    BY <1>6, <1>9 DEF Ends
  <2>1. CASE j # i
    <3>1. itemLevel'[j] = itemLevel[j]
      BY <1>1, <1>6, <2>0, <2>1 DEF i
    <3>2. RolledScrolls(j)' = RolledScrolls(j) /\ enhancement'[j] = enhancement[j]
      BY <1>2, <1>3, <2>0, <2>1
    <3>3. QED
      BY <1>5, <2>0, <3>1, <3>2
  <2>2. CASE j = i /\ e = Expired
    <3>1. itemLevel' = itemLevel /\ t.level = enhancement[i].level
      BY <2>2 DEF i
    <3>2. QED
      BY <1>2, <1>3, <1>5, <2>0, <2>2, <3>1
  <2>3. CASE j = i /\ e # Expired
    <3>1. t.level = enhancement[i].level + 1
          /\ itemLevel' = [itemLevel EXCEPT ![i] = enhancement[i].level + 1]
      BY <1>9, <2>3 DEF i
    <3>2. itemLevel'[i] = enhancement[i].level + 1
      BY <1>1, <1>6, <3>1
    <3>3. Cardinality(RolledScrolls(j)') = Cardinality(RolledScrolls(i)) + 1
      BY <1>2, <1>7, <2>0, <2>3
    <3>4. enhancement[i].level = Cardinality(RolledScrolls(i))
      BY <1>5, <2>0, <2>3
    <3>5. QED
      BY <1>3, <2>3, <3>1, <3>2, <3>3, <3>4
  <2>4. QED
    BY <2>1, <2>2, <2>3
<1>10. QED
  BY <1>8, <1>9 DEF EarnedInv, LevelsEarned, RolledScrolls

\* A reveal and a close end an attempt.
LEMMA RevealEnds ==
  ASSUME EnhanceInv, NEW k \in Keys, RevealEnhance(k)
  PROVE  \E e, a, t :
           /\ Ends(k, e, a, t) /\ e # Expired /\ e \in blocks
           /\ SlothashAtOrAfter(e, Retained(blocks), ecommits[k].target)
           /\ LET i == ecommits[k].item IN
              \/ /\ t.level = enhancement[i].level + 1
                 /\ itemLevel' = [itemLevel EXCEPT ![i] = enhancement[i].level + 1]
                 /\ UNCHANGED arenaItem
              \/ /\ arenaItem' = arenaItem \ {i} /\ ~Success(k, e)
                 /\ UNCHANGED itemLevel
<1> DEFINE i == ecommits[k].item
           s == ecommits[k].scroll
           won == [level |-> enhancement[i].level + 1,
                   attempts |-> enhancement[i].attempts + 1, pending |-> FALSE]
<1>1. PICK e \in blocks :
        /\ SlothashAtOrAfter(e, Retained(blocks), ecommits[k].target)
        /\ Settle(k, e)
        /\ \/ Success(k, e) /\ RaiseLevel(i, k[1], s)
           \/ ~Success(k, e) /\ Destroy(i, s)
  BY DEF RevealEnhance, CanReveal
<1>2. e # Expired
  BY BlocksFinite DEF EnhanceInv, AroundInv, Expired
<1>3. /\ ecommits[k] # NoCommit /\ enhancement[i] # NoTracker /\ enhancement[i].level < MaxLevel
      /\ UNCHANGED <<avatar, record, diverged, registryVars, balance, clockVars, sold>>
  BY DEF RevealEnhance, CanReveal, EscrowIntact
<1>4. i \in Items
  BY <1>3, OpenAttempt DEF EnhanceInv
<1>5. enhancement[i] \in ItemEnhancement /\ itemLevel \in [Items -> 0..MaxLevel]
      /\ enhancement \in [Items -> ItemEnhancement \cup {NoTracker}]
  BY <1>3, <1>4, TrackerType DEF EnhanceInv, EnhanceTypeOK
<1>6. enhancement[i].level + 1 \in 0..MaxLevel /\ enhancement[i].attempts + 1 \in Nat
  BY <1>3, <1>5, Constants DEF ItemEnhancement
<1>7. won \in ItemEnhancement /\ won.pending = FALSE /\ won.level = enhancement[i].level + 1
  BY <1>6 DEF ItemEnhancement
<1>8. NoTracker.pending = FALSE
  BY DEF NoTracker
<1>9. CASE Success(k, e) /\ RaiseLevel(i, k[1], s)
  <2>1. /\ enhancement' = [enhancement EXCEPT ![i] = won]
        /\ itemLevel' = [itemLevel EXCEPT ![i] = enhancement[i].level + 1]
        /\ holder' = [holder EXCEPT ![i] = k[1], ![s] = None] /\ arenaItem' = arenaItem
    BY <1>4, <1>5, <1>9 DEF RaiseLevel
  <2>2. itemLevel' \in [Items -> 0..MaxLevel]
    BY <1>4, <1>5, <1>6, <2>1
  <2> HIDE DEF won
  <2>3. Ends(k, e, k[1], won)
    BY <1>1, <1>3, <1>7, <2>1, <2>2 DEF Ends
  <2>4. QED
    BY <1>1, <1>2, <1>7, <2>1, <2>3
<1>10. CASE ~Success(k, e) /\ Destroy(i, s)
  <2>1. /\ enhancement' = [enhancement EXCEPT ![i] = NoTracker]
        /\ holder' = [holder EXCEPT ![i] = None, ![s] = None]
        /\ arenaItem' = arenaItem \ {i} /\ itemLevel' = itemLevel
    BY <1>10 DEF Destroy
  <2>2. Ends(k, e, None, NoTracker)
    BY <1>1, <1>3, <1>5, <1>8, <2>1 DEF Ends
  <2>3. QED
    BY <1>1, <1>2, <1>10, <2>1, <2>2
<1>11. QED
  BY <1>1, <1>9, <1>10

LEMMA CloseEnds ==
  ASSUME EnhanceInv, NEW k \in Keys, CloseExpiredEnhanceCommit(k)
  PROVE  \E t : /\ Ends(k, Expired, k[1], t)
               /\ t.level = enhancement[ecommits[k].item].level
               /\ UNCHANGED <<arenaItem, itemLevel>>
<1> DEFINE i == ecommits[k].item
           s == ecommits[k].scroll
           t == [enhancement[i] EXCEPT !.pending = FALSE]
<1>1. /\ ecommits[k] # NoCommit /\ enhancement[i] # NoTracker
      /\ Settle(k, Expired)
      /\ enhancement' = [enhancement EXCEPT ![i] = t]
      /\ holder' = [holder EXCEPT ![i] = k[1], ![s] = None]
      /\ UNCHANGED <<arenaItem, avatar, record, diverged, registryVars, balance, clockVars,
                     itemLevel, sold>>
  BY DEF CloseExpiredEnhanceCommit, CanClose, EscrowIntact
<1>2. i \in Items
  BY <1>1, OpenAttempt DEF EnhanceInv
<1>3. enhancement[i] \in ItemEnhancement /\ itemLevel \in [Items -> 0..MaxLevel]
  BY <1>1, <1>2, TrackerType DEF EnhanceInv, EnhanceTypeOK
<1>4. t \in ItemEnhancement /\ t.pending = FALSE /\ t.level = enhancement[i].level
  BY <1>3 DEF ItemEnhancement
<1> HIDE DEF t
<1>5. Ends(k, Expired, k[1], t)
  BY <1>1, <1>3, <1>4 DEF Ends
<1>6. QED
  BY <1>1, <1>4, <1>5

LEMMA SettleInv ==
  ASSUME EnhanceInv, NEW k \in Keys, RevealEnhance(k) \/ CloseExpiredEnhanceCommit(k)
  PROVE  EnhanceInv'
<1>1. ASSUME NEW e, NEW a, NEW t, Ends(k, e, a, t), EarnedInv' PROVE EnhanceInv'
  <2>1. AroundInv' /\ EnhanceTypeOK' /\ EscrowMatchesCommits'
    BY <1>1, EndsKeepsCore
  <2>2. SoldScrolls' /\ ScrollSpentOnce'
    BY <1>1, EndsSpendsScroll
  <2>3. WageredNotEquipped'
    BY <1>1, EndsKeepsGear
  <2>4. QED
    BY <1>1, <2>1, <2>2, <2>3 DEF EnhanceInv
<1>2. CASE RevealEnhance(k)
  <2>1. PICK e, a, t :
           /\ Ends(k, e, a, t) /\ e # Expired
           /\ LET i == ecommits[k].item IN
              \/ /\ t.level = enhancement[i].level + 1
                 /\ itemLevel' = [itemLevel EXCEPT ![i] = enhancement[i].level + 1]
                 /\ UNCHANGED arenaItem
              \/ /\ arenaItem' = arenaItem \ {i}
                 /\ UNCHANGED itemLevel
    BY <1>2, RevealEnds
  <2>2. EarnedInv'
    BY <2>1, EndsKeepsLevels
  <2>3. QED
    BY <1>1, <2>1, <2>2
<1>3. CASE CloseExpiredEnhanceCommit(k)
  <2>1. PICK t : /\ Ends(k, Expired, k[1], t)
                 /\ t.level = enhancement[ecommits[k].item].level
                 /\ UNCHANGED <<arenaItem, itemLevel>>
    BY <1>3, CloseEnds
  <2>2. EarnedInv'
    BY <2>1, EndsKeepsLevels
  <2>3. QED
    BY <1>1, <2>1, <2>2
<1>4. QED
  BY <1>2, <1>3

-----------------------------------------------------------------------------
(* What owners do meanwhile *)

\* Only wallets sell, burn and scrap: a token in escrow, and a burned one, stays
\* where it is, and the account of an item in escrow stays open.
LEMMA TokensMove ==
  ASSUME AroundInv, EquipmentNext
  PROVE  /\ \A n \in Nfts : holder[n] \notin Wallets => holder'[n] = holder[n]
         /\ \A n \in Nfts : holder[n] \in Wallets => holder'[n] \in Wallets \cup {None}
         /\ arenaItem' \subseteq arenaItem
         /\ \A i \in arenaItem : holder[i] \notin Wallets => i \in arenaItem'
<1> DEFINE P == /\ \A n \in Nfts : holder[n] \notin Wallets => holder'[n] = holder[n]
                /\ \A n \in Nfts : holder[n] \in Wallets => holder'[n] \in Wallets \cup {None}
                /\ arenaItem' \subseteq arenaItem
                /\ \A i \in arenaItem : holder[i] \notin Wallets => i \in arenaItem'
<1>1. holder \in [Nfts -> Wallets \cup Keys \cup {None}]
  BY HolderType
<1>2. ASSUME UNCHANGED <<holder, arenaItem>> PROVE P
  BY <1>2
<1>3. CASE V2Next
  BY <1>2, <1>3 DEF V2Next, ActivateFighterV2, EquipItemV2, UnequipItemV2
<1>4. CASE LegacyNext
  BY <1>2, <1>4 DEF LegacyNext, CreatePlayerAvatar, CustomizeAvatar, EquipItem, UnequipItem
<1>5. ASSUME NEW w \in Wallets, NEW i \in Items, ScrapArenaItem(w, i) PROVE P
  BY <1>1, <1>5, Constants DEF ScrapArenaItem
<1>6. ASSUME NEW n \in Nfts, NEW to \in Wallets \cup {None}, Transfer(n, to) PROVE P
  BY <1>1, <1>6 DEF Transfer
<1>7. QED
  BY <1>3, <1>4, <1>5, <1>6 DEF EquipmentNext, TokenNext

\* The two views without an item, and the edits that do not put it on.
GearWithout(g, item) == \A c \in Classes : g[c] # item
SlotsWithout(sl, item) == \A s \in Slots : sl[s] # item

LEMMA EmptyWithout ==
  ASSUME NEW item \in Items
  PROVE  GearWithout(NoGear, item) /\ SlotsWithout(NoSlots, item)
BY ItemIsSome DEF GearWithout, SlotsWithout, NoGear, NoSlots

LEMMA PutWithout ==
  ASSUME NEW sl \in Loadout, NEW g \in Legacy, NEW item \in Items, NEW i \in Items, i # item,
         NEW s \in Slots, GearWithout(g, item), SlotsWithout(sl, item)
  PROVE  GearWithout(PutGear(g, i, s), item) /\ SlotsWithout(PutSlots(sl, i, s), item)
<1>1. item # None
  BY ItemIsSome
<1>2. SlotsWithout(PutSlots(sl, i, s), item)
  <2>1. \A t \in Slots : PutSlots(sl, i, s)[t] =
          IF t = s THEN i ELSE IF sl[t] = i THEN None ELSE sl[t]
    BY PutSlotsAt
  <2>2. QED
    BY <1>1, <2>1 DEF SlotsWithout
<1>3. Cleared(g, i) \in Legacy /\ GearWithout(Cleared(g, i), item)
  BY <1>1, ClearedLegacy DEF GearWithout
<1>4. GearWithout(PutGear(g, i, s), item)
  BY <1>3, MirrorAt DEF GearWithout, PutGear
<1>5. QED
  BY <1>2, <1>4

LEMMA EmptySlotWithout ==
  ASSUME NEW sl \in Loadout, NEW g \in Legacy, NEW item \in Items, NEW s \in Slots,
         GearWithout(g, item), SlotsWithout(sl, item)
  PROVE  /\ GearWithout(Mirror(g, s, None), item)
         /\ SlotsWithout([sl EXCEPT ![s] = None], item)
<1>1. item # None
  BY ItemIsSome
<1>2. GearWithout(Mirror(g, s, None), item)
  BY <1>1, MirrorAt DEF GearWithout
<1>3. SlotsWithout([sl EXCEPT ![s] = None], item)
  BY <1>1 DEF SlotsWithout, Loadout
<1>4. QED
  BY <1>2, <1>3

LEMMA LegacyWithout ==
  ASSUME NEW g \in Legacy, NEW item \in Items, NEW c \in Classes,
         NEW m, m # item, GearWithout(g, item)
  PROVE  GearWithout([g EXCEPT ![c] = m], item)
BY DEF GearWithout, Legacy

LEMMA UnwornViews ==
  ASSUME NEW w \in Wallets, NEW item \in Items
  PROVE  RequireItemNotEquipped(w, item) <=>
           /\ avatar[w] # NoAvatar => GearWithout(avatar[w].equipped, item)
           /\ record[w] # NoRecord => SlotsWithout(record[w].slots, item)
BY DEF RequireItemNotEquipped, GearWithout, SlotsWithout

\* A write of one wallet's legacy slots, and of its record.
LEMMA AvatarWritten ==
  ASSUME IInv, NEW w \in Wallets, NEW item \in Items, NEW v \in Wallets, NEW a,
         avatar[w] # NoAvatar => GearWithout(avatar[w].equipped, item),
         v = w => GearWithout(a.equipped, item), avatar' = [avatar EXCEPT ![v] = a]
  PROVE  avatar'[w] # NoAvatar => GearWithout(avatar'[w].equipped, item)
<1>1. avatar'[w] = IF v = w THEN a ELSE avatar[w]
  BY DEF IInv, EquipmentTypeOK
<1>2. QED
  BY <1>1

LEMMA RecordWritten ==
  ASSUME IInv, NEW w \in Wallets, NEW item \in Items, NEW v \in Wallets, NEW sl,
         record[w] # NoRecord => SlotsWithout(record[w].slots, item),
         v = w => SlotsWithout(sl, item), record' = [record EXCEPT ![v] = [slots |-> sl]]
  PROVE  record'[w] # NoRecord => SlotsWithout(record'[w].slots, item)
<1>1. record'[w] = IF v = w THEN [slots |-> sl] ELSE record[w]
  BY DEF IInv, EquipmentTypeOK
<1>2. QED
  BY <1>1

\* Equipping asks for the token, so what a wallet does not hold it cannot put on.
LEMMA StaysUnworn ==
  ASSUME IInv, EquipmentNext, NEW w \in Wallets, NEW item \in Items,
         holder[item] \notin Wallets, RequireItemNotEquipped(w, item)
  PROVE  RequireItemNotEquipped(w, item)'
<1> DEFINE NotWorn == avatar'[w] # NoAvatar => GearWithout(avatar'[w].equipped, item)
           NotSlotted == record'[w] # NoRecord => SlotsWithout(record'[w].slots, item)
<1>1. /\ avatar[w] # NoAvatar => GearWithout(avatar[w].equipped, item)
      /\ record[w] # NoRecord => SlotsWithout(record[w].slots, item)
  BY UnwornViews
<1>2. SlotsWithout(TouchedSlots(w), item)
  BY <1>1, EmptyWithout DEF TouchedSlots
<1>3. ASSUME NEW v \in Wallets, avatar[v] # NoAvatar
      PROVE  /\ avatar[v].equipped \in Legacy /\ avatar[v] \in PlayerAvatar
             /\ TouchedSlots(v) \in Loadout
  BY <1>3, AvatarType, TouchedGood DEF IInv
<1>4. ASSUME NEW v \in Wallets, NEW a, v = w => GearWithout(a.equipped, item),
             avatar' = [avatar EXCEPT ![v] = a]
      PROVE  NotWorn
  BY <1>1, <1>4, AvatarWritten
<1>5. ASSUME NEW v \in Wallets, NEW sl, v = w => SlotsWithout(sl, item),
             record' = [record EXCEPT ![v] = [slots |-> sl]]
      PROVE  NotSlotted
  BY <1>1, <1>5, RecordWritten
<1>6. record' = record => NotSlotted
  BY <1>1
<1>7. avatar' = avatar => NotWorn
  BY <1>1
<1>8. ASSUME NEW v \in Wallets, NEW card \in Cards \cup Fighters, SetCard(v, card)
      PROVE  NotWorn
  <2> DEFINE a == [card |-> card, mask |-> SlotMask[card], equipped |-> NoGear]
  <2>1. avatar' = [avatar EXCEPT ![v] = a] /\ GearWithout(a.equipped, item)
    BY <1>8, EmptyWithout DEF SetCard
  <2> HIDE DEF a, NotWorn
  <2>2. QED
    BY <1>4, <2>1
<1>9. ASSUME NEW v \in Wallets, avatar[v] # NoAvatar, NEW g, v = w => GearWithout(g, item),
             avatar' = [avatar EXCEPT ![v].equipped = g]
      PROVE  NotWorn
  <2> DEFINE a == [avatar[v] EXCEPT !.equipped = g]
  <2>1. avatar' = [avatar EXCEPT ![v] = a] /\ a.equipped = g
    BY <1>3, <1>9 DEF PlayerAvatar
  <2> HIDE DEF a, NotWorn
  <2>2. QED
    BY <1>4, <1>9, <2>1
<1> HIDE DEF NotWorn, NotSlotted
<1>10. ASSUME NEW v \in Wallets, NEW card \in Cards,
              CreatePlayerAvatar(v, card) \/ CustomizeAvatar(v, card)
       PROVE  NotWorn /\ NotSlotted
  BY <1>6, <1>8, <1>10 DEF CreatePlayerAvatar, CustomizeAvatar
<1>11. ASSUME NEW v \in Wallets, NEW f \in Fighters, ActivateFighterV2(v, f)
       PROVE  NotWorn /\ NotSlotted
  BY <1>5, <1>8, <1>11, EmptyWithout DEF ActivateFighterV2
<1>12. ASSUME NEW v \in Wallets, NEW i \in Items, EquipItem(v, i) PROVE NotWorn /\ NotSlotted
  <2> DEFINE g == [avatar[v].equipped EXCEPT ![BaseType[i]] = i]
  <2>1. /\ i # item /\ avatar[v] # NoAvatar /\ record' = record
        /\ avatar' = [avatar EXCEPT ![v].equipped = g]
    BY <1>12 DEF EquipItem, HoldsItem
  <2>2. v = w => GearWithout(g, item)
    BY <1>1, <1>3, <2>1, ItemIsSome, LegacyWithout
  <2> HIDE DEF g
  <2>3. QED
    BY <1>6, <1>9, <2>1, <2>2
<1>13. ASSUME NEW v \in Wallets, NEW class \in Classes, UnequipItem(v, class)
       PROVE  NotWorn /\ NotSlotted
  <2> DEFINE g == [avatar[v].equipped EXCEPT ![class] = None]
  <2>1. /\ avatar[v] # NoAvatar /\ record' = record
        /\ avatar' = [avatar EXCEPT ![v].equipped = g]
    BY <1>13 DEF UnequipItem
  <2>2. v = w => GearWithout(g, item)
    BY <1>1, <1>3, <2>1, ItemIsSome, LegacyWithout
  <2> HIDE DEF g
  <2>3. QED
    BY <1>6, <1>9, <2>1, <2>2
<1>14. ASSUME NEW v \in Wallets, NEW i \in Items, NEW s \in Slots, EquipItemV2(v, i, s)
       PROVE  NotWorn /\ NotSlotted
  <2> DEFINE sl == PutSlots(TouchedSlots(v), i, s)
             g == PutGear(avatar[v].equipped, i, s)
  <2>1. /\ i # item /\ avatar[v] # NoAvatar
        /\ avatar' = [avatar EXCEPT ![v].equipped = g]
        /\ record' = [record EXCEPT ![v] = [slots |-> sl]]
    BY <1>14 DEF EquipItemV2, HoldsItem, MoveEquippedMint, PutSlots, PutGear
  <2>2. v = w => GearWithout(g, item) /\ SlotsWithout(sl, item)
    BY <1>1, <1>2, <1>3, <2>1, PutWithout
  <2> HIDE DEF g, sl
  <2>3. QED
    BY <1>5, <1>9, <2>1, <2>2
<1>15. ASSUME NEW v \in Wallets, NEW s \in Slots, UnequipItemV2(v, s)
       PROVE  NotWorn /\ NotSlotted
  <2> DEFINE sl == [TouchedSlots(v) EXCEPT ![s] = None]
             g == Mirror(avatar[v].equipped, s, None)
  <2>1. /\ avatar[v] # NoAvatar
        /\ avatar' = [avatar EXCEPT ![v].equipped = g]
        /\ record' = [record EXCEPT ![v] = [slots |-> sl]]
    BY <1>15 DEF UnequipItemV2
  <2>2. v = w => GearWithout(g, item) /\ SlotsWithout(sl, item)
    BY <1>1, <1>2, <1>3, <2>1, EmptySlotWithout
  <2> HIDE DEF g, sl
  <2>3. QED
    BY <1>5, <1>9, <2>1, <2>2
<1>16. ASSUME TokenNext PROVE NotWorn /\ NotSlotted
  <2>1. UNCHANGED <<avatar, record>>
    BY <1>16 DEF TokenNext, ScrapArenaItem, Transfer
  <2>2. QED
    BY <1>6, <1>7, <2>1
<1>17. NotWorn /\ NotSlotted
  <2>1. CASE V2Next
    BY <1>11, <1>14, <1>15, <2>1 DEF V2Next
  <2>2. CASE LegacyNext
    BY <1>10, <1>12, <1>13, <2>2 DEF LegacyNext
  <2>3. QED
    BY <1>16, <2>1, <2>2 DEF EquipmentNext
<1>18. QED
  BY <1>17 DEF NotWorn, NotSlotted, RequireItemNotEquipped, GearWithout, SlotsWithout

LEMMA OwnersInv ==
  ASSUME EnhanceInv, EquipmentStep
  PROVE  EnhanceInv'
<1>1. EquipmentNext /\ UNCHANGED <<registryVars, balance, clockVars>>
      /\ UNCHANGED <<ecommits, enhancement, itemLevel, markers, settled, sold>>
  BY DEF EquipmentStep, enhanceVars
<1>2. /\ \A n \in Nfts : holder[n] \notin Wallets => holder'[n] = holder[n]
      /\ \A n \in Nfts : holder[n] \in Wallets => holder'[n] \in Wallets \cup {None}
      /\ arenaItem' \subseteq arenaItem
      /\ \A i \in arenaItem : holder[i] \notin Wallets => i \in arenaItem'
  BY <1>1, TokensMove DEF EnhanceInv
<1>3. AroundInv'
  <2>1. IInv'
    BY <1>1, NextIInv DEF EnhanceInv, AroundInv
  <2>2. RegistryInv'
    BY <1>1, RegistryInvNext DEF EnhanceInv, AroundInv
  <2>3. FeesTypeOK' /\ ClockTypeOK'
    BY <1>1 DEF EnhanceInv, AroundInv, FeesTypeOK, ClockTypeOK, clockVars
  <2>4. QED
    BY <2>1, <2>2, <2>3 DEF AroundInv
<1>4. EnhanceTypeOK'
  BY <1>1 DEF EnhanceInv, EnhanceTypeOK
<1>5. holder \in [Nfts -> Wallets \cup Keys \cup {None}]
  BY HolderType DEF EnhanceInv
<1>6. \A k \in Keys : ecommits[k] # NoCommit =>
        /\ ecommits[k].item \in Nfts /\ ecommits[k].scroll \in Nfts
        /\ ecommits[k].item \in Items
        /\ holder[ecommits[k].item] = k /\ holder[ecommits[k].scroll] = k
        /\ k \notin Wallets
  BY OpenAttempt, Constants DEF EnhanceInv, EscrowMatchesCommits
<1>7. EscrowMatchesCommits'
  <2>1. ASSUME NEW k \in Keys, ecommits[k] # NoCommit
        PROVE  LET c == ecommits[k] IN
                 /\ holder'[c.item] = k /\ holder'[c.scroll] = k
                 /\ c.item \in arenaItem' /\ c.scroll \in markers
                 /\ enhancement[c.item] # NoTracker /\ enhancement[c.item].pending
                 /\ enhancement[c.item].level < MaxLevel
    BY <1>2, <1>6, <2>1 DEF EnhanceInv, EscrowMatchesCommits
  <2>2. \A n \in Nfts : holder'[n] \in Escrows => holder'[n] = holder[n]
    BY <1>2, Constants
  <2>3. \A i \in Items : i \in Nfts /\ (holder[i] \in Escrows => holder'[i] = holder[i])
    BY <1>2, Constants
  <2>4. QED
    BY <1>1, <2>1, <2>2, <2>3 DEF EnhanceInv, EscrowMatchesCommits
<1>8. SoldScrolls'
  <2>1. \A s \in Scrolls : s \in Nfts /\ (holder'[s] # None => holder[s] # None)
    BY <1>2, <1>5, Constants
  <2>2. QED
    BY <1>1, <2>1 DEF EnhanceInv, SoldScrolls
<1>9. ScrollSpentOnce'
  <2>1. ASSUME NEW r \in settled PROVE holder'[r.scroll] = None
    <3>1. r.scroll \in Nfts /\ holder[r.scroll] = None
      BY Constants DEF EnhanceInv, ScrollSpentOnce, EnhanceTypeOK
    <3>2. QED
      BY <1>2, <3>1
  <2>2. QED
    BY <1>1, <2>1 DEF EnhanceInv, ScrollSpentOnce
<1>10. WageredNotEquipped'
  <2>1. ASSUME NEW k \in Keys, ecommits[k] # NoCommit
        PROVE  RequireItemNotEquipped(k[1], ecommits[k].item)'
    <3> DEFINE i == ecommits[k].item
    <3>1. RequireItemNotEquipped(k[1], i) /\ i \in Items /\ holder[i] \notin Wallets
          /\ k[1] \in Wallets
      BY <1>6, <2>1, Constants DEF EnhanceInv, WageredNotEquipped
    <3>2. \A j \in Items : holder[j] \notin Wallets /\ RequireItemNotEquipped(k[1], j)
            => RequireItemNotEquipped(k[1], j)'
      BY <1>1, <3>1, StaysUnworn DEF EnhanceInv, AroundInv
    <3>3. ecommits' = ecommits
      BY <1>1
    <3>4. QED
      BY <3>1, <3>2, <3>3 DEF RequireItemNotEquipped
  <2>2. QED
    BY <1>1, <2>1 DEF WageredNotEquipped
<1>11. EarnedInv'
  BY <1>1, <1>2 DEF EnhanceInv, EarnedInv, LevelsEarned, RolledScrolls
<1>12. QED
  BY <1>3, <1>4, <1>7, <1>8, <1>9, <1>10, <1>11 DEF EnhanceInv

\* A step outside the attempts and the gear.
LEMMA ElsewhereInv ==
  ASSUME EnhanceInv, UNCHANGED <<equipmentVars, balance, enhanceVars>>,
         RegistryInv', ClockTypeOK'
  PROVE  EnhanceInv'
<1>1. UNCHANGED <<holder, arenaItem, avatar, record, diverged, balance,
                  ecommits, enhancement, itemLevel, markers, settled, sold>>
  BY DEF equipmentVars, enhanceVars
<1>2. IInv'
  BY NextIInv DEF EnhanceInv, AroundInv
<1>3. AroundInv'
  BY <1>1, <1>2 DEF EnhanceInv, AroundInv, FeesTypeOK
<1>4. EnhanceTypeOK' /\ EscrowMatchesCommits' /\ SoldScrolls' /\ ScrollSpentOnce'
  BY <1>1 DEF EnhanceInv, EnhanceTypeOK, EscrowMatchesCommits, SoldScrolls, ScrollSpentOnce
<1>5. WageredNotEquipped' /\ EarnedInv'
  BY <1>1 DEF EnhanceInv, WageredNotEquipped, RequireItemNotEquipped, EarnedInv,
              LevelsEarned, RolledScrolls
<1>6. QED
  BY <1>3, <1>4, <1>5 DEF EnhanceInv

LEMMA NextEnhanceInv == EnhanceInv /\ [Next]_vars => EnhanceInv'
<1>1. SUFFICES ASSUME EnhanceInv, [Next]_vars PROVE EnhanceInv'
  OBVIOUS
<1>2. CASE EnhanceNext
  BY <1>1, <1>2, BuyInv, StartInv, SettleInv DEF EnhanceNext
<1>3. CASE EquipmentStep
  BY <1>1, <1>3, OwnersInv
<1>4. CASE Governance
  <2>1. RegistryInv'
    BY <1>1, <1>4, RegistryInvNext DEF Governance, EnhanceInv, AroundInv
  <2>2. ClockTypeOK'
    BY <1>1, <1>4 DEF Governance, EnhanceInv, AroundInv, ClockTypeOK, clockVars
  <2>3. QED
    BY <1>1, <1>4, <2>1, <2>2, ElsewhereInv DEF Governance
<1>5. CASE AdvanceClock
  <2>1. RegistryInv'
    BY <1>1, <1>5, RegistryInvNext DEF AdvanceClock, EnhanceInv, AroundInv
  <2>2. ClockTypeOK'
    BY <1>1, <1>5, ClockTypeCorrect DEF AdvanceClock, EnhanceInv, AroundInv
  <2>3. QED
    BY <1>1, <1>5, <2>1, <2>2, ElsewhereInv DEF AdvanceClock
<1>6. CASE UNCHANGED vars
  <2>1. UNCHANGED <<equipmentVars, registryVars, balance, clockVars, enhanceVars>>
    BY <1>6 DEF vars
  <2>2. RegistryInv'
    BY <1>1, <2>1, RegistryInvNext DEF EnhanceInv, AroundInv
  <2>3. ClockTypeOK'
    BY <1>1, <2>1 DEF EnhanceInv, AroundInv, ClockTypeOK, clockVars
  <2>4. QED
    BY <1>1, <2>1, <2>2, <2>3, ElsewhereInv
<1>7. QED
  BY <1>1, <1>2, <1>3, <1>4, <1>5, <1>6 DEF Next

LEMMA InitEnhanceInv == Init => EnhanceInv
<1>1. SUFFICES ASSUME Init PROVE EnhanceInv
  OBVIOUS
<1>2. PICK h \in [Nfts \ Scrolls -> Wallets] :
        holder = [n \in Nfts |-> IF n \in Scrolls THEN None ELSE h[n]]
  BY <1>1 DEF Init, HoldersInit
<1>3. /\ arenaItem = Items /\ avatar = [w \in Wallets |-> NoAvatar]
      /\ record = [w \in Wallets |-> NoRecord] /\ diverged = {}
  BY <1>1 DEF Init
<1>4. holder \in [Nfts -> Wallets \cup {None}]
      /\ \A s \in Scrolls : s \in Nfts /\ holder[s] = None
  BY <1>2, Constants
<1>5. IInv
  BY <1>3, <1>4 DEF IInv, EquipmentTypeOK, WalletInv, NoRecord, NoAvatar
<1>6. RegistryInv /\ FeesTypeOK
  BY <1>1, RegistryInvInit DEF Init, FeesTypeOK
<1>7. ClockTypeOK
  BY <1>1, SlotHashesAssumption DEF Init, ClockInit, ClockTypeOK
<1>8. /\ ecommits = [k \in Keys |-> NoCommit] /\ enhancement = [i \in Items |-> NoTracker]
      /\ itemLevel = [i \in Items |-> 0] /\ markers = {} /\ settled = {} /\ sold = {}
  BY <1>1 DEF Init, EnhanceInit
<1>9. EnhanceTypeOK
  BY <1>8, Constants DEF EnhanceTypeOK
<1>10. EscrowMatchesCommits
  BY <1>4, <1>8, Constants DEF EscrowMatchesCommits, NoTracker
<1>11. SoldScrolls /\ ScrollSpentOnce /\ WageredNotEquipped
  BY <1>4, <1>8 DEF SoldScrolls, ScrollSpentOnce, WageredNotEquipped
<1>12. EarnedInv
  <2>1. \A i \in Items : RolledScrolls(i) = {}
    BY <1>8 DEF RolledScrolls
  <2>2. \A i \in Items : IsFiniteSet(RolledScrolls(i)) /\ Cardinality(RolledScrolls(i)) = 0
    BY <2>1, FS_EmptySet
  <2>3. QED
    BY <1>3, <1>8, <2>2 DEF EarnedInv, LevelsEarned, RolledScrolls, NoTracker
<1>13. QED
  BY <1>5, <1>6, <1>7, <1>9, <1>10, <1>11, <1>12 DEF EnhanceInv, AroundInv

-----------------------------------------------------------------------------
LEMMA EnhanceInvariance == Spec => []EnhanceInv
BY InitEnhanceInv, NextEnhanceInv, PTL DEF Spec

\* Every reachable state of the composed system is well typed.
THEOREM TypeCorrect == Spec => []TypeOK
<1>1. EnhanceInv => TypeOK
  BY DEF EnhanceInv, AroundInv, IInv, RegistryInv, TypeOK
<1>2. QED
  BY <1>1, EnhanceInvariance, PTL

\* Whatever owners trade, wear, scrap and burn meanwhile, an open attempt keeps
\* all that its end needs, and nothing is in escrow without its attempt.
THEOREM EscrowExact == Spec => []EscrowMatchesCommits
<1>1. EnhanceInv => EscrowMatchesCommits
  BY DEF EnhanceInv
<1>2. QED
  BY <1>1, EnhanceInvariance, PTL

\* One scroll pays for one attempt, and is gone when the attempt ends.
THEOREM ScrollsSpentOnce == Spec => []ScrollSpentOnce
<1>1. EnhanceInv => ScrollSpentOnce
  BY DEF EnhanceInv
<1>2. QED
  BY <1>1, EnhanceInvariance, PTL

\* A wagered item is never worn by the wallet that wagered it.
THEOREM GearNotWagered == Spec => []WageredNotEquipped
<1>1. EnhanceInv => WageredNotEquipped
  BY DEF EnhanceInv
<1>2. QED
  BY <1>1, EnhanceInvariance, PTL

\* The level of an item is the number of scrolls rolled for it.
THEOREM LevelsAreEarned == Spec => []LevelsEarned
<1>1. EnhanceInv => LevelsEarned
  BY DEF EnhanceInv, EarnedInv
<1>2. QED
  BY <1>1, EnhanceInvariance, PTL

-----------------------------------------------------------------------------
(* What an attempt may cost *)

\* What one step may do to an item in escrow.
KeepsSafeItems ==
  \A i \in Items : holder[i] \in Escrows /\ i \notin arenaItem' =>
    /\ SuccessBps[enhancement[i].level] < RollDenominator
    /\ slot <= ecommits[holder[i]].target + Window

\* Only a failed roll inside the window destroys, and a roll cannot fail when
\* the chance of the level is the whole denominator.
LEMMA FailedRoll ==
  ASSUME EnhanceInv, NEW k \in Keys, RevealEnhance(k), NEW e \in blocks, ~Success(k, e)
  PROVE  LET i == ecommits[k].item IN
         /\ SuccessBps[enhancement[i].level] < RollDenominator
         /\ slot <= ecommits[k].target + Window
<1> DEFINE i == ecommits[k].item
           lv == enhancement[i].level
<1>1. ecommits[k] # NoCommit /\ enhancement[i] # NoTracker /\ lv < MaxLevel
      /\ slot <= ecommits[k].target + Window
  BY DEF RevealEnhance, CanReveal, EscrowIntact, InRevealWindow
<1>2. i \in Items
  BY <1>1, OpenAttempt DEF EnhanceInv
<1>3. enhancement[i] \in ItemEnhancement
  BY <1>1, <1>2, TrackerType DEF EnhanceInv
<1>4. lv \in 0..MaxLevel-1
  BY <1>1, <1>3, Constants DEF ItemEnhancement
<1>5. SuccessBps[lv] \in 0..RollDenominator /\ RollDenominator \in Nat
  BY <1>4, EnhancementAssumption
<1>6. e \in 0..SlotHorizon
  BY SlotHashesAssumption DEF EnhanceInv, AroundInv, ClockTypeOK
<1>7. Roll(k, i, e) \in 0..RollDenominator-1
  BY <1>2, <1>6, EnhancementAssumption
<1>8. ~(Roll(k, i, e) < SuccessBps[lv])
  BY DEF Success
<1> HIDE DEF i, lv
<1>9. SuccessBps[lv] < RollDenominator
  BY <1>5, <1>7, <1>8
<1>10. QED
  BY <1>1, <1>9 DEF i, lv

LEMMA StepKeepsSafeItems == EnhanceInv /\ [Next]_vars => [KeepsSafeItems]_vars
<1>1. SUFFICES ASSUME EnhanceInv, Next, NEW i \in Items,
                      holder[i] \in Escrows, i \notin arenaItem'
               PROVE  /\ SuccessBps[enhancement[i].level] < RollDenominator
                      /\ slot <= ecommits[holder[i]].target + Window
  BY DEF KeepsSafeItems
<1> DEFINE k == holder[i]
<1>2. i \in Nfts /\ k \in Keys /\ ecommits[k] # NoCommit
      /\ i \in {ecommits[k].item, ecommits[k].scroll}
  BY <1>1, Constants DEF EnhanceInv, EscrowMatchesCommits
<1>3. i = ecommits[k].item /\ i \in arenaItem
  <2>1. ecommits[k].scroll \in Scrolls
    BY <1>1, <1>2, OpenAttempt DEF EnhanceInv
  <2>2. i = ecommits[k].item
    BY <1>2, <2>1, Constants
  <2>3. QED
    BY <1>1, <1>2, <2>2 DEF EnhanceInv, EscrowMatchesCommits
<1>4. arenaItem' # arenaItem
  BY <1>1, <1>3
<1>5. ~EquipmentStep
  BY <1>1, <1>2, <1>3, TokensMove, Constants DEF EquipmentStep, EnhanceInv
<1>6. ~Governance /\ ~AdvanceClock
  BY <1>4 DEF Governance, AdvanceClock, equipmentVars
<1>7. /\ \A w \in Wallets, s \in Scrolls : ~MintEnhanceScroll(w, s)
      /\ \A j \in Keys, n \in Items, s \in Scrolls : ~CommitEnhance(j, n, s)
      /\ \A j \in Keys : ~CloseExpiredEnhanceCommit(j)
  BY <1>4 DEF MintEnhanceScroll, CommitEnhance, CloseExpiredEnhanceCommit
<1>8. PICK j \in Keys : RevealEnhance(j)
  BY <1>1, <1>5, <1>6, <1>7 DEF Next, EnhanceNext
<1>9. PICK e \in blocks : arenaItem' = arenaItem \ {ecommits[j].item} /\ ~Success(j, e)
  BY <1>1, <1>4, <1>8, RevealEnds
<1>10. j = k
  <2>1. i = ecommits[j].item
    BY <1>1, <1>3, <1>9
  <2>2. holder[ecommits[j].item] = j
    BY <1>1, <1>8 DEF RevealEnhance, CanReveal, EnhanceInv, EscrowMatchesCommits
  <2>3. QED
    BY <2>1, <2>2
<1> HIDE DEF k
<1>11. /\ SuccessBps[enhancement[ecommits[j].item].level] < RollDenominator
       /\ slot <= ecommits[j].target + Window
  BY <1>1, <1>8, <1>9, FailedRoll
<1>12. QED
  BY <1>3, <1>10, <1>11 DEF k

\* An attempt with a certain outcome, and one that expired, never costs the item,
\* and nothing else destroys an item that is in escrow.
THEOREM SafeAttempts == Spec => SafeAttemptsKeepItem
<1>1. Spec => [][KeepsSafeItems]_vars
  BY EnhanceInvariance, StepKeepsSafeItems, PTL DEF Spec
<1>2. QED
  BY <1>1 DEF SafeAttemptsKeepItem, KeepsSafeItems

-----------------------------------------------------------------------------
(* An open attempt is not refused *)

\* All that the reveal requires holds throughout the window once a block at or
\* after the target exists, and all that the close requires holds ever after.
AttemptNeverRefused ==
  \A k \in Keys :
    LET c == ecommits[k] IN
      c # NoCommit =>
        /\ InRevealWindow(c.target) /\ (\E b \in blocks : b >= c.target)
             => \E s \in blocks : CanReveal(k, s)
        /\ slot > c.target + Window => CanClose(k)

\* The first block, older than every target.
GenesisOK == 0 \in blocks

LEMMA EscrowReveals == EnhanceInv /\ GenesisOK => AttemptNeverRefused
<1>1. SUFFICES ASSUME EnhanceInv, 0 \in blocks, NEW k \in Keys, ecommits[k] # NoCommit
               PROVE  /\ InRevealWindow(ecommits[k].target)
                           /\ (\E b \in blocks : b >= ecommits[k].target)
                           => \E s \in blocks : CanReveal(k, s)
                      /\ slot > ecommits[k].target + Window => CanClose(k)
  BY DEF AttemptNeverRefused, GenesisOK
<1> DEFINE c == ecommits[k]
<1>2. EscrowIntact(k) /\ c.item \in arenaItem /\ enhancement[c.item].level < MaxLevel
  BY <1>1 DEF EnhanceInv, EscrowMatchesCommits, EscrowIntact
<1>3. ASSUME InRevealWindow(c.target), NEW b \in blocks, b >= c.target
      PROVE  \E s \in blocks : CanReveal(k, s)
  <2>1. c.target \in Nat /\ 0 < c.target
    BY <1>1, OpenAttempt DEF EnhanceInv, Idle
  <2>2. Window \in Nat /\ Window <= Retention /\ slot > c.target /\ slot <= c.target + Window
    BY <1>3, Constants, EnhanceWindowAssumption DEF InRevealWindow
  <2>3. PICK s \in blocks : SlothashAtOrAfter(s, Retained(blocks), c.target)
    BY <1>1, <1>3, <2>1, <2>2, TimelyLookup DEF EnhanceInv, AroundInv
  <2>4. CanReveal(k, s)
    BY <1>1, <1>2, <1>3, <2>3 DEF CanReveal
  <2>5. QED
    BY <2>4
<1>4. slot > c.target + Window => CanClose(k)
  BY <1>1, <1>2 DEF CanClose
<1>5. QED
  BY <1>3, <1>4

\* The first block stays.
LEMMA GenesisKept == GenesisOK /\ [Next]_vars => GenesisOK'
<1>1. SUFFICES ASSUME 0 \in blocks, [Next]_vars PROVE 0 \in blocks'
  BY DEF GenesisOK
<1>2. CASE EnhanceNext
  BY <1>1, <1>2 DEF EnhanceNext, MintEnhanceScroll, CommitEnhance, RevealEnhance,
                    CloseExpiredEnhanceCommit, clockVars
<1>3. CASE EquipmentStep \/ Governance \/ AdvanceClock
  BY <1>1, <1>3 DEF EquipmentStep, Governance, AdvanceClock, NewBank, clockVars
<1>4. CASE UNCHANGED vars
  BY <1>1, <1>4 DEF vars, clockVars
<1>5. QED
  BY <1>1, <1>2, <1>3, <1>4 DEF Next

\* No owner action makes the reveal or the close of an attempt fail: whatever is
\* traded, worn, scrapped and burned, anyone can force a peeked outcome through
\* inside the window, and close the attempt after it. PeekedOutcomeForcible says
\* the first with ENABLED.
THEOREM AttemptsReveal == Spec => []AttemptNeverRefused
<1>1. Init => GenesisOK
  BY DEF Init, ClockInit, GenesisOK
<1>2. QED
  BY <1>1, GenesisKept, EscrowReveals, EnhanceInvariance, PTL DEF Spec

-----------------------------------------------------------------------------
(* Implementation of CommitReveal *)

LEMMA InitImplements == Init => Promise!Init
BY DEF Init, EnhanceInit, Promise!Init, ClockInit, Promise!ClockInit, Target, Outcomes,
       NoCommit, Idle, Promise!Idle

LEMMA StartImplements ==
  ASSUME EnhanceInv, NEW k \in Keys, NEW item \in Items, NEW scroll \in Scrolls,
         CommitEnhance(k, item, scroll)
  PROVE  Promise!Commit(k)
<1>1. ecommits \in [Keys -> EnhanceCommitAccount \cup {NoCommit}]
  BY DEF EnhanceInv, EnhanceTypeOK
<1>2. /\ ecommits' = [ecommits EXCEPT ![k] =
           [target |-> slot + Delay, item |-> item, scroll |-> scroll]]
      /\ ecommits[k] = NoCommit /\ slot <= CommitHorizon /\ UNCHANGED <<clockVars, settled>>
  BY DEF CommitEnhance
<1>3. \A j \in Keys : ecommits'[j].target = IF j = k THEN slot + Delay ELSE ecommits[j].target
  BY <1>1, <1>2
<1>4. Target' = [Target EXCEPT ![k] = slot + Delay]
  BY <1>3 DEF Target
<1>5. Target[k] = Idle
  BY <1>2 DEF Target, NoCommit
<1>6. Outcomes' = Outcomes
  BY <1>2 DEF Outcomes
<1>7. QED
  BY <1>2, <1>4, <1>5, <1>6
     DEF Promise!Commit, Promise!Idle, Idle, clockVars, Promise!clockVars

LEMMA SettleImplements ==
  ASSUME EnhanceInv, NEW k \in Keys, NEW e, Settle(k, e), UNCHANGED clockVars
  PROVE  Promise!Settle(k, e)
<1> DEFINE q == [key |-> k, target |-> ecommits[k].target, entropy |-> e,
                 item |-> ecommits[k].item, scroll |-> ecommits[k].scroll,
                 level |-> enhancement[ecommits[k].item].level]
           o == [key |-> k, target |-> ecommits[k].target, entropy |-> e]
<1>1. ecommits \in [Keys -> EnhanceCommitAccount \cup {NoCommit}]
  BY DEF EnhanceInv, EnhanceTypeOK
<1>2. \A j \in Keys : ecommits'[j].target = IF j = k THEN Idle ELSE ecommits[j].target
  BY <1>1 DEF Settle, NoCommit
<1>3. Target' = [Target EXCEPT ![k] = Idle] /\ Target[k] = ecommits[k].target
  BY <1>2 DEF Target
<1>4. settled' = settled \cup {q}
  BY DEF Settle
<1>5. o = [key |-> q.key, target |-> q.target, entropy |-> q.entropy]
  OBVIOUS
<1> HIDE DEF q
<1>6. Outcomes' = Outcomes \cup {o}
  BY <1>4, <1>5 DEF Outcomes
<1>7. QED
  BY <1>3, <1>6 DEF Promise!Settle, Promise!Idle, Idle, clockVars, Promise!clockVars

\* The reveal reads what SlotHashes retains and answers for the whole chain.
LEMMA RevealImplements ==
  ASSUME EnhanceInv, NEW k \in Keys, RevealEnhance(k)
  PROVE  Promise!Reveal(k)
<1>1. ecommits[k].target \in Nat /\ ecommits[k].target # Idle
  BY OpenAttempt DEF EnhanceInv, RevealEnhance, CanReveal
<1>2. PICK s \in blocks :
        SlothashAtOrAfter(s, Retained(blocks), ecommits[k].target) /\ Settle(k, s)
  BY DEF RevealEnhance, CanReveal
<1>3. IsFirstAtOrAfter(s, blocks, ecommits[k].target)
  BY <1>1, <1>2, BlocksFinite, LookupIsCanonical DEF EnhanceInv, AroundInv
<1>4. Promise!Settle(k, s)
  BY <1>2, SettleImplements DEF RevealEnhance
<1>5. slot > ecommits[k].target /\ slot <= ecommits[k].target + Window
  BY DEF RevealEnhance, CanReveal, InRevealWindow
<1>6. Target[k] = ecommits[k].target
  BY DEF Target
<1>7. QED
  BY <1>1, <1>3, <1>4, <1>5, <1>6
     DEF Promise!Reveal, Promise!IsFirstAtOrAfter, IsFirstAtOrAfter, Promise!Idle, Idle

LEMMA CloseImplements ==
  ASSUME EnhanceInv, NEW k \in Keys, CloseExpiredEnhanceCommit(k)
  PROVE  Promise!Expire(k)
<1>1. ecommits[k].target # Idle /\ Target[k] = ecommits[k].target
  BY OpenAttempt DEF EnhanceInv, CloseExpiredEnhanceCommit, CanClose, Target
<1>2. Promise!Settle(k, Expired)
  BY SettleImplements DEF CloseExpiredEnhanceCommit
<1>3. QED
  BY <1>1, <1>2 DEF CloseExpiredEnhanceCommit, CanClose, Promise!Expire, Promise!Idle, Idle,
                    Promise!Expired, Expired

LEMMA StepImplements == EnhanceInv /\ [Next]_vars => [Promise!Next]_(Promise!vars)
<1>1. SUFFICES ASSUME EnhanceInv, [Next]_vars PROVE [Promise!Next]_(Promise!vars)
  OBVIOUS
<1>2. ASSUME NEW k \in Keys, NEW i \in Items, NEW s \in Scrolls, CommitEnhance(k, i, s)
      PROVE  Promise!Next
  BY <1>1, <1>2, StartImplements DEF Promise!Next
<1>3. ASSUME NEW k \in Keys, RevealEnhance(k) PROVE Promise!Next
  BY <1>1, <1>3, RevealImplements DEF Promise!Next
<1>4. ASSUME NEW k \in Keys, CloseExpiredEnhanceCommit(k) PROVE Promise!Next
  BY <1>1, <1>4, CloseImplements DEF Promise!Next
<1>5. CASE AdvanceClock
  <2>1. NewBank /\ UNCHANGED <<ecommits, settled>>
    BY <1>5 DEF AdvanceClock, enhanceVars
  <2>2. Promise!NewBank /\ UNCHANGED <<Target, Outcomes>>
    BY <2>1 DEF NewBank, Promise!NewBank, Target, Outcomes
  <2>3. QED
    BY <2>2 DEF Promise!Next
<1>6. ASSUME UNCHANGED <<clockVars, ecommits, settled>> PROVE UNCHANGED Promise!vars
  BY <1>6 DEF clockVars, Target, Outcomes, Promise!vars
<1>7. ASSUME NEW w \in Wallets, NEW s \in Scrolls, MintEnhanceScroll(w, s)
      PROVE  UNCHANGED <<clockVars, ecommits, settled>>
  BY <1>7 DEF MintEnhanceScroll
<1>8. CASE EquipmentStep \/ Governance
  BY <1>6, <1>8 DEF EquipmentStep, Governance, enhanceVars
<1>9. CASE UNCHANGED vars
  BY <1>6, <1>9 DEF vars, enhanceVars
<1>10. QED
  BY <1>1, <1>2, <1>3, <1>4, <1>5, <1>6, <1>7, <1>8, <1>9 DEF Next, EnhanceNext

\* An enhancement attempt keeps the promise of CommitReveal: one roll, of the
\* first block at or after its target on the whole chain, or expiry.
THEOREM EnhanceImplements == Spec => ImplementsCommitReveal
<1>1. Init /\ [][Next]_vars /\ []EnhanceInv => Promise!Init /\ [][Promise!Next]_(Promise!vars)
  BY InitImplements, StepImplements, PTL
<1>2. QED
  BY <1>1, EnhanceInvariance, PTL DEF Spec, ImplementsCommitReveal, Promise!Spec
=============================================================================
